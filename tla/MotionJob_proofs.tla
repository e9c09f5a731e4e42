---------------------------- MODULE MotionJob_proofs ----------------------------
(***************************************************************************)
(* Proofs about MotionJob, for any number of tasks, names, presets, tries  *)
(* and faults: types, unique names and slots, agreement of motions, videos *)
(* and task rows, temporary files, motions under a deleted parent, and the *)
(* life cycle the task API promises.                                       *)
(***************************************************************************)
EXTENDS MotionJob, TaskQueue_proofs

-----------------------------------------------------------------------------
(* The inductive invariant says everything about one task at a time.       *)

\* Before the video is stored, and between then and the end of the sweep.
Early == {"pickup", "claim", "lookup", "reconcile", "read", "generate", "store"}
Holding == {"commit", "promote"} \cup Sweeping

\* An attempt's key holds a file from the upload to the sweep; what is litter was left by
\* an earlier attempt, or by this one's own sweep.
TempAgrees(t) ==
  /\ pc[t] # "idle" => tries[t] # 0
  /\ \A n \in 1..MaxTries : <<t, n>> \in litter => n <= tries[t]
  /\ pc[t] \in Early \cup Holding => TempOf(t) \notin litter
  /\ pc[t] \in Holding => TempOf(t) \in temps
  /\ \A n \in 1..MaxTries :
       <<t, n>> \in temps \ litter => n = tries[t] /\ pc[t] \in Holding

\* What the code takes for granted about row, request and queue.
ControlAgrees(t) ==
  /\ pc[t] # "idle" <=> job[t] = "active"
  /\ api[t] \in {"idle", "admitted", "inserted"} => job[t] = "none"
  /\ api[t] = "rejected" /\ t \notin lost => job[t] = "none"
  /\ job[t] = "none" => motion[t] = Unborn
  /\ row[t].status = "queued" => pc[t] \in {"idle", "pickup", "claim"} /\ motion[t] = Unborn
  /\ row[t].status = "completed" => pc[t] \in {"idle", "pickup"}
  /\ row[t].result <=> row[t].status = "completed"
  /\ row[t].status = "failed" => row[t].error
  /\ api[t] \in {"idle", "admitted"} => row[t].status = "absent"
  /\ api[t] = "inserted" => row[t].status # "absent"
  /\ api[t] # "idle" => asked[t] \in Names
  /\ pc[t] \in (Early \ {"pickup", "claim"}) \cup Holding \cup {"complete"}
       => row[t].status \in {"running", "failed"}
  /\ pc[t] \notin {"idle", "pickup", "claim"} /\ t \notin lost => row[t].status = "running"

\* What it takes for granted about the motion and its video.
VideoAgrees(t) ==
  /\ row[t].status = "completed" \/ t \in videos => Exists(t)
  /\ row[t].status = "completed" /\ ~row[t].cancel => t \in videos
  /\ row[t].status \in {"failed", "cancelled"} /\ t \notin lost => t \notin videos
  /\ pc[t] = "complete" => Exists(t) /\ (row[t].cancel \/ t \in videos)
  /\ pc[t] = "sweep_done" => t \in videos
  /\ pc[t] = "promote" => Exists(t)
  /\ pc[t] \in Working \cup {"commit", "sweep_failed", "fail", "recancel"} => t \notin videos

\* After the deletion of the parent, a motion that is live or may still be committed
\* belongs to a task that was under way.
LateAgrees(t) ==
  ~parent /\ (Live(t) \/ (api[t] # "idle" /\ ~Exists(t))) => t \in late

TaskInv(t) == TempAgrees(t) /\ ControlAgrees(t) /\ VideoAgrees(t) /\ LateAgrees(t)

IndInv == TypeOK /\ \A t \in Tasks : TaskInv(t)

-----------------------------------------------------------------------------
(* Type correctness.  That an attempt's key is a pair of the model needs   *)
(* TempAgrees: an attempt that runs was delivered.                         *)

LEMMA InitType == Init => TypeOK
  BY QueueInitType DEF Init, TypeOK

LEMMA TempOfType ==
  ASSUME TypeOK, NEW t \in Tasks, TempAgrees(t), pc[t] # "idle"
  PROVE  TempOf(t) \in Tasks \X (1..MaxTries)
  BY TaskQueueAssumption DEF TypeOK, QueueTypeOK, TempAgrees, TempOf

LEMMA TaskSideType ==
  ASSUME TypeOK, NEW t \in Tasks, TaskSide(t)
  PROVE  TypeOK'
  <1>1. QueueTypeOK'
    BY ServeType DEF TypeOK, TaskSide, Serve
  <1>2. QED
    BY <1>1 DEF TypeOK, TaskSide, jobVars

LEMMA UserType ==
  ASSUME TypeOK, NEW t \in Tasks, User(t)
  PROVE  TypeOK'
  <1> USE DEF TypeOK, QueueTypeOK, KeepQueue
  <1>1. CASE DeleteMotion(t)
    BY <1>1 DEF DeleteMotion
  <1>2. ASSUME NEW n \in Names, NEW k \in Presets \cup {Custom}, AdmitMotion(t, n, k)
        PROVE  TypeOK'
    BY <1>2 DEF AdmitMotion, SetApi, ApiStates
  <1>3. ASSUME NEW n \in Names, RenameMotion(t, n) PROVE TypeOK'
    BY <1>3 DEF RenameMotion
  <1>4. QED
    BY <1>1, <1>2, <1>3 DEF User

LEMMA DeleteParentType ==
  ASSUME TypeOK, DeleteParent
  PROVE  TypeOK'
  BY DEF TypeOK, QueueTypeOK, KeepQueue, DeleteParent, UnderWay

\* The steps that leave the task row and the files alone.
LEMMA ControlType ==
  ASSUME TypeOK, NEW t \in Tasks,
         \/ StartAttempt(t) \/ PickupOver(t) \/ PickupCancelled(t) \/ PickupLive(t) \/ Lookup(t)
         \/ ResolvePrompt(t) \/ ReadParentImage(t) \/ GenerateVideo(t) \/ CommitMotion(t)
  PROVE  TypeOK'
  <1> USE DEF TypeOK, QueueTypeOK, KeepQueue, KeepData
  <1>1. pc' \in [Tasks -> Steps \cup {"idle"}]
    BY DEF StartAttempt, PickupOver, PickupCancelled, PickupLive, Lookup, ResolvePrompt,
           ReadParentImage, GenerateVideo, Stage, CommitMotion, AfterInsert, Goto, EndAttempt,
           Steps, Unprotected, Working, Sweeping
  <1>2. CASE StartAttempt(t)
    <2>1. tries' \in [Tasks -> 0..MaxTries]
      BY <1>2, TaskQueueAssumption DEF StartAttempt, Deliver
    <2>2. QED
      BY <1>1, <1>2, <2>1 DEF StartAttempt, Deliver, SetJob, JobStates
  <1>3. CASE PickupOver(t) \/ PickupCancelled(t) \/ PickupLive(t) \/ Lookup(t)
             \/ ResolvePrompt(t) \/ ReadParentImage(t) \/ GenerateVideo(t)
    BY <1>1, <1>3, JobType
    DEF PickupOver, PickupCancelled, PickupLive, Lookup, ResolvePrompt, ReadParentImage,
        GenerateVideo, Stage
  <1>4. CASE CommitMotion(t)
    BY <1>1, <1>4 DEF CommitMotion
  <1>5. QED
    BY <1>2, <1>3, <1>4

\* The steps that write files.
LEMMA FileType ==
  ASSUME TypeOK, NEW t \in Tasks, TempAgrees(t), StoreTemp(t) \/ Promote(t) \/ SweepTemp(t)
  PROVE  TypeOK'
  <1> USE DEF TypeOK, QueueTypeOK, KeepQueue
  <1>1. pc[t] # "idle" /\ TempOf(t) \in Tasks \X (1..MaxTries)
    BY TempOfType DEF StoreTemp, Promote, SweepTemp, Sweeping
  <1>2. pc' \in [Tasks -> Steps \cup {"idle"}]
    BY DEF StoreTemp, Promote, SweepTemp, Goto, EndAttempt, Steps, Unprotected, Working, Sweeping
  <1>3. CASE StoreTemp(t)
    BY <1>1, <1>2, <1>3 DEF StoreTemp
  <1>4. CASE Promote(t)
    BY <1>2, <1>4, FaultType DEF Promote
  <1>5. CASE SweepTemp(t)
    <2>1. job' \in [Tasks -> JobStates] /\ faults' \in 0..MaxFaults
      BY <1>5, JobType, FaultType DEF SweepTemp
    <2>2. TempOf(t) \in temps \ litter
      BY <1>5 DEF SweepTemp, TempAgrees, Holding
    <2>3. litter' \subseteq temps' /\ temps' \subseteq Tasks \X (1..MaxTries)
      BY <1>5, <2>2 DEF SweepTemp
    <2>4. QED
      BY <1>2, <1>5, <2>1, <2>3 DEF SweepTemp
  <1>6. QED
    BY <1>3, <1>4, <1>5

\* The steps that write the task row.
LEMMA OutcomeType ==
  ASSUME TypeOK, NEW t \in Tasks,
         Claim(t) \/ MarkCancelled(t) \/ MarkFailed(t) \/ MarkCompleted(t)
  PROVE  TypeOK'
  <1> USE DEF TypeOK, QueueTypeOK, KeepData
  <1>1. row' \in [Tasks -> Row]
    BY RowOperators DEF Claim, MarkCancelled, MarkFailed, MarkCompleted, MarkOutcome, SetRow
  <1>2. pc' \in [Tasks -> Steps \cup {"idle"}]
    BY DEF Claim, MarkCancelled, MarkFailed, MarkCompleted, MarkOutcome, Goto, EndAttempt,
           Steps, Unprotected
  <1>3. job' \in [Tasks -> JobStates]
    BY JobType DEF Claim, MarkCancelled, MarkFailed, MarkCompleted, MarkOutcome
  <1>4. QED
    BY <1>1, <1>2, <1>3 DEF Claim, MarkCancelled, MarkFailed, MarkCompleted, MarkOutcome

\* An exception leaves the attempt at a step, and the job in a state, of the model.
LEMMA ErrorType ==
  ASSUME TypeOK, NEW t \in Tasks, HandleError(t)
  PROVE  /\ pc' \in [Tasks -> Steps \cup {"idle"}]
         /\ job' \in [Tasks -> JobStates]
  <1>1. pc' \in [Tasks -> Steps \cup {"idle"}]
    BY DEF TypeOK, HandleError, Goto, EndAttempt, Steps, Unprotected, Sweeping
  <1>2. job' \in [Tasks -> JobStates]
    BY JobType DEF TypeOK, QueueTypeOK, HandleError
  <1>3. QED
    BY <1>1, <1>2

LEMMA WorkerFaultType ==
  ASSUME TypeOK, NEW t \in Tasks, TempAgrees(t), WorkerFault(t)
  PROVE  TypeOK'
  <1> USE DEF TypeOK, QueueTypeOK
  <1>1. CASE DatabaseError(t)
    BY <1>1, FaultType, ErrorType DEF DatabaseError, KeepData
  <1>2. CASE CommitReplyLost(t)
    <2>1. row' \in [Tasks -> Row]
      BY <1>2, RowOperators DEF CommitReplyLost, RowWritten, SetRow
    <2>2. QED
      BY <1>2, <2>1, FaultType, ErrorType DEF CommitReplyLost
  <1>3. CASE WorkerCrash(t)
    BY <1>3, FaultType DEF WorkerCrash, EndAttempt, Goto, SetJob, JobStates
  <1>4. CASE Interrupt(t)
    <2>1. pc' \in [Tasks -> Steps \cup {"idle"}] /\ job' \in [Tasks -> JobStates]
      BY <1>4 DEF Interrupt, EndAttempt, Goto, SetJob, JobStates
    <2>2. litter' \subseteq temps' /\ temps' \subseteq Tasks \X (1..MaxTries)
      BY <1>4 DEF Interrupt, TempAgrees, Holding
    <2>3. QED
      BY <1>4, <2>1, <2>2, FaultType DEF Interrupt
  <1>5. QED
    BY <1>1, <1>2, <1>3, <1>4 DEF WorkerFault

LEMMA StepType == IndInv /\ [Next]_vars => TypeOK'
  <1> SUFFICES ASSUME IndInv, [Next]_vars PROVE TypeOK'
    OBVIOUS
  <1>1. TypeOK /\ \A t \in Tasks : TempAgrees(t)
    BY DEF IndInv, TaskInv
  <1>2. CASE UNCHANGED vars
    BY <1>1, <1>2 DEF TypeOK, QueueTypeOK, vars, queueVars, jobVars
  <1>3. CASE Next
    BY <1>1, <1>3, UserType, DeleteParentType, TaskSideType, ControlType, FileType, OutcomeType,
       WorkerFaultType DEF Next, Attempt
  <1>4. QED
    BY <1>2, <1>3
-----------------------------------------------------------------------------
(* Safety.                                                                 *)

\* A step leaves everything TaskInv says about u alone.
Untouched(u) ==
  /\ row'[u] = row[u] /\ api'[u] = api[u] /\ job'[u] = job[u] /\ tries'[u] = tries[u]
  /\ pc'[u] = pc[u] /\ asked'[u] = asked[u] /\ motion'[u] = motion[u]
  /\ u \in videos' <=> u \in videos
  /\ u \in lost' <=> u \in lost
  /\ \A n : <<u, n>> \in temps' <=> <<u, n>> \in temps
  /\ \A n : <<u, n>> \in litter' <=> <<u, n>> \in litter
  /\ parent' = parent /\ late' = late

LEMMA UntouchedKeepsInv ==
  ASSUME NEW u \in Tasks, TaskInv(u), Untouched(u)
  PROVE  TaskInv(u)'
  <1>1. TempAgrees(u)'
    BY DEF TaskInv, TempAgrees, TempOf, Untouched, Early, Holding, Sweeping
  <1>2. ControlAgrees(u)'
    BY DEF TaskInv, ControlAgrees, Untouched, Early, Holding, Sweeping
  <1>3. VideoAgrees(u)' /\ LateAgrees(u)'
    BY DEF TaskInv, VideoAgrees, LateAgrees, Untouched, Exists, Live, Working
  <1>4. QED
    BY <1>1, <1>2, <1>3 DEF TaskInv

LEMMA InitInv == Init => IndInv
  <1> SUFFICES ASSUME Init PROVE IndInv
    OBVIOUS
  <1>1. ASSUME NEW t \in Tasks PROVE TaskInv(t)
    BY MotionAssumption
    DEF Init, QueueInit, Absent, TaskInv, TempAgrees, ControlAgrees, VideoAgrees, LateAgrees,
        Live, Exists, Early, Holding, Working, Sweeping
  <1>2. QED
    BY <1>1, InitType DEF IndInv

\* The steps of a task touch no other task.
LEMMA TaskSideFrame ==
  ASSUME TypeOK, NEW t \in Tasks, TaskSide(t) \/ User(t), NEW u \in Tasks \ {t}
  PROVE  Untouched(u)
  BY DEF TypeOK, QueueTypeOK, Untouched, jobVars, TaskSide, SetRow, SetApi, SetJob,
         InsertTask, EnqueueJob, RejectTask, EnqueueFails, EnqueueReplyLost, ApiCrash,
         CancelTask, GiveUp, CleanupTerminalTask, User, DeleteMotion, AdmitMotion, RenameMotion,
         KeepQueue

LEMMA AttemptFrame ==
  ASSUME TypeOK, NEW t \in Tasks, Attempt(t), NEW u \in Tasks \ {t}
  PROVE  Untouched(u)
  <1> USE DEF TypeOK, QueueTypeOK, Untouched, SetRow, SetJob, Goto, EndAttempt,
              JobReturns, JobRaises, KeepQueue, KeepData, TempOf
  <1>1. CASE StartAttempt(t) \/ PickupOver(t) \/ PickupCancelled(t) \/ PickupLive(t)
    BY <1>1 DEF StartAttempt, Deliver, PickupOver, PickupCancelled, PickupLive
  <1>2. CASE Claim(t) \/ Lookup(t) \/ ResolvePrompt(t) \/ ReadParentImage(t) \/ GenerateVideo(t)
    BY <1>2 DEF Claim, Lookup, ResolvePrompt, ReadParentImage, GenerateVideo, Stage
  <1>3. CASE StoreTemp(t) \/ CommitMotion(t) \/ Promote(t)
    BY <1>3 DEF StoreTemp, CommitMotion, Promote
  <1>4. CASE SweepTemp(t)
    BY <1>4 DEF SweepTemp
  <1>5. CASE MarkCancelled(t) \/ MarkFailed(t) \/ MarkCompleted(t)
    BY <1>5 DEF MarkCancelled, MarkFailed, MarkCompleted, MarkOutcome
  <1>6. QED
    BY <1>1, <1>2, <1>3, <1>4, <1>5 DEF Attempt

LEMMA WorkerFaultFrame ==
  ASSUME TypeOK, NEW t \in Tasks, WorkerFault(t), NEW u \in Tasks \ {t}
  PROVE  Untouched(u)
  <1> USE DEF TypeOK, QueueTypeOK, Untouched, SetRow, SetJob, Goto, EndAttempt,
              JobReturns, JobRaises, KeepData, HandleError, TempOf
  <1>1. CASE DatabaseError(t) \/ CommitReplyLost(t)
    BY <1>1 DEF DatabaseError, CommitReplyLost
  <1>2. CASE WorkerCrash(t)
    BY <1>2 DEF WorkerCrash
  <1>3. CASE Interrupt(t)
    BY <1>3 DEF Interrupt
  <1>4. QED
    BY <1>1, <1>2, <1>3 DEF WorkerFault

\* The request: before the job exists there is no attempt and no motion, and afterwards the
\* compensation runs only for a task about which a reply was lost.
LEMMA TaskSideInv ==
  ASSUME TypeOK, NEW t \in Tasks, TaskInv(t), TaskSide(t)
  PROVE  TaskInv(t)'
  <1> USE MotionAssumption
      DEF TypeOK, QueueTypeOK, TaskInv, TempAgrees, ControlAgrees, VideoAgrees, LateAgrees, TempOf,
          jobVars, SetRow, SetApi, SetJob, Live, Exists, Early, Holding, Working, Sweeping
  <1>1. CASE InsertTask(t)
    BY <1>1 DEF TaskSide, InsertTask, Inserted, Absent
  <1>2. CASE EnqueueJob(t)
    BY <1>2 DEF TaskSide, EnqueueJob
  <1>3. CASE RejectTask(t)
    <2>1. CASE row' = row
      BY <1>3, <2>1 DEF TaskSide, RejectTask
    <2>2. CASE row' # row
      <3>1. row[t] \in Row /\ SetRow(t, Failed(row[t])) /\ CheckMutex(Failed(row[t]))
        BY <1>3, <2>2 DEF RejectTask
      <3>2. row[t].status # "absent"
        BY <2>2, <3>1, OutcomeColumns
      <3>3. row'[t].status = "failed" /\ row'[t].error /\ ~row'[t].result
        BY <3>1, <3>2, OutcomeColumns
      <3>4. row'[t].cancel = row[t].cancel
        BY <3>1 DEF Failed, Row
      <3>5. QED
        BY <1>3, <3>3, <3>4 DEF TaskSide, RejectTask
    <2>3. QED
      BY <2>1, <2>2
  <1>4. CASE EnqueueFails(t)
    BY <1>4 DEF TaskSide, EnqueueFails
  <1>5. CASE EnqueueReplyLost(t)
    BY <1>5 DEF TaskSide, EnqueueReplyLost
  <1>6. CASE ApiCrash(t)
    BY <1>6 DEF TaskSide, ApiCrash
  <1>7. CASE CancelTask(t)
    <2>1. /\ row'[t].status = IF row[t].status = "queued" THEN "cancelled" ELSE row[t].status
          /\ row'[t].result = row[t].result /\ row'[t].error = row[t].error /\ row'[t].cancel
      BY <1>7 DEF CancelTask, CancelRequested, Row
    <2>2. QED
      BY <1>7, <2>1 DEF TaskSide, CancelTask
  <1>8. CASE GiveUp(t)
    BY <1>8 DEF TaskSide, GiveUp
  <1>9. CASE CleanupTerminalTask(t)
    BY <1>9 DEF TaskSide, CleanupTerminalTask, Absent, Terminal
  <1>10. QED
    BY <1>1, <1>2, <1>3, <1>4, <1>5, <1>6, <1>7, <1>8, <1>9 DEF TaskSide

LEMMA UserInv ==
  ASSUME TypeOK, NEW t \in Tasks, TaskInv(t), User(t)
  PROVE  TaskInv(t)'
  <1> USE MotionAssumption
      DEF TypeOK, QueueTypeOK, TaskInv, TempAgrees, ControlAgrees, VideoAgrees, LateAgrees, TempOf,
          KeepQueue, SetApi, Live, Exists, Early, Holding, Working, Sweeping
  <1>1. CASE DeleteMotion(t)
    BY <1>1 DEF DeleteMotion
  <1>2. ASSUME NEW n \in Names, NEW k \in Presets \cup {Custom}, AdmitMotion(t, n, k)
        PROVE  TaskInv(t)'
    BY <1>2 DEF AdmitMotion
  <1>3. ASSUME NEW n \in Names, RenameMotion(t, n) PROVE TaskInv(t)'
    BY <1>3 DEF RenameMotion
  <1>4. QED
    BY <1>1, <1>2, <1>3 DEF User

\* The deletion of the parent takes every live motion with it, and records the others that
\* may still come.
LEMMA DeleteParentInv ==
  ASSUME TypeOK, DeleteParent, NEW u \in Tasks, TaskInv(u)
  PROVE  TaskInv(u)'
  <1> USE MotionAssumption DEF TypeOK, DeleteParent, KeepQueue, Live, Exists
  <1>1. TempAgrees(u)'
    BY DEF TaskInv, TempAgrees, TempOf, Early, Holding, Sweeping
  <1>2. ControlAgrees(u)' /\ VideoAgrees(u)'
    BY DEF TaskInv, ControlAgrees, VideoAgrees, Early, Holding, Working, Sweeping
  <1>3. LateAgrees(u)'
    BY DEF LateAgrees, UnderWay
  <1>4. QED
    BY <1>1, <1>2, <1>3 DEF TaskInv

\* Delivery to upload.
LEMMA PickupInv ==
  ASSUME TypeOK, NEW t \in Tasks, TaskInv(t),
         \/ StartAttempt(t) \/ PickupOver(t) \/ PickupCancelled(t) \/ PickupLive(t)
         \/ Claim(t) \/ Lookup(t) \/ ResolvePrompt(t) \/ ReadParentImage(t) \/ GenerateVideo(t)
         \/ StoreTemp(t)
  PROVE  TaskInv(t)'
  <1> USE MotionAssumption
      DEF TypeOK, QueueTypeOK, TaskInv, TempAgrees, ControlAgrees, VideoAgrees, LateAgrees, TempOf,
          KeepQueue, KeepData, SetRow, SetJob, Goto, EndAttempt, JobReturns, Live, Exists,
          Early, Holding, Working, Sweeping
  <1>1. CASE StartAttempt(t)
    BY <1>1 DEF StartAttempt, Deliver
  <1>2. CASE PickupOver(t)
    BY <1>2 DEF PickupOver
  <1>3. CASE PickupCancelled(t)
    BY <1>3 DEF PickupCancelled
  <1>4. CASE PickupLive(t)
    BY <1>4 DEF PickupLive
  <1>5. CASE Claim(t)
    <2>1. CASE Claimable(row[t])
      <3>1. row'[t].status = "running" /\ row'[t].cancel = row[t].cancel
            /\ row'[t].result = row[t].result /\ row'[t].error = row[t].error
        BY <1>5, <2>1 DEF Claim, Claimed, Row
      <3>2. pc'[t] = "lookup" /\ UNCHANGED <<job, api, tries, lost>>
        BY <1>5, <2>1 DEF Claim
      <3>3. QED
        BY <1>5, <2>1, <3>1, <3>2 DEF Claim, Claimable
    <2>2. CASE ~Claimable(row[t])
      BY <1>5, <2>2 DEF Claim
    <2>3. QED
      BY <2>1, <2>2
  <1>6. CASE Lookup(t)
    BY <1>6 DEF Lookup
  <1>7. CASE ResolvePrompt(t)
    BY <1>7 DEF ResolvePrompt, Stage
  <1>8. CASE ReadParentImage(t)
    BY <1>8 DEF ReadParentImage, Stage
  <1>9. CASE GenerateVideo(t)
    BY <1>9 DEF GenerateVideo, Stage
  <1>10. CASE StoreTemp(t)
    BY <1>10, TempOfType DEF StoreTemp
  <1>11. QED
    BY <1>1, <1>2, <1>3, <1>4, <1>5, <1>6, <1>7, <1>8, <1>9, <1>10
\* Commit to the last write of the task row.
LEMMA FinishInv ==
  ASSUME TypeOK, NEW t \in Tasks, TaskInv(t),
         \/ CommitMotion(t) \/ Promote(t) \/ SweepTemp(t) \/ MarkCancelled(t) \/ MarkFailed(t)
         \/ MarkCompleted(t)
  PROVE  TaskInv(t)'
  <1> USE MotionAssumption
      DEF TypeOK, QueueTypeOK, TaskInv, TempAgrees, ControlAgrees, VideoAgrees, LateAgrees, TempOf,
          KeepQueue, KeepData, SetRow, SetJob, Goto, EndAttempt, JobReturns, JobRaises,
          Live, Exists, Early, Holding, Working, Sweeping
  <1>1. CASE CommitMotion(t)
    BY <1>1 DEF CommitMotion, AfterInsert, Insertable
  <1>2. CASE Promote(t)
    BY <1>2 DEF Promote
  <1>3. CASE SweepTemp(t)
    BY <1>3 DEF SweepTemp
  <1>4. CASE MarkCancelled(t)
    BY <1>4, OutcomeColumns DEF MarkCancelled
  <1>5. CASE MarkFailed(t)
    BY <1>5, OutcomeColumns DEF MarkFailed, MarkOutcome
  <1>6. CASE MarkCompleted(t)
    <2>1. row[t] \in Row /\ Completed(row[t]).cancel = row[t].cancel
      BY DEF Completed, Row
    <2>2. QED
      BY <1>6, <2>1, OutcomeColumns DEF MarkCompleted, MarkOutcome
  <1>7. QED
    BY <1>1, <1>2, <1>3, <1>4, <1>5, <1>6

\* Faults: a lost reply excuses what it hides, a kill leaves its file to litter.
LEMMA WorkerFaultInv ==
  ASSUME TypeOK, NEW t \in Tasks, TaskInv(t), WorkerFault(t)
  PROVE  TaskInv(t)'
  <1> USE MotionAssumption
      DEF TypeOK, QueueTypeOK, TaskInv, TempAgrees, ControlAgrees, VideoAgrees, LateAgrees, TempOf,
          KeepData, SetRow, SetJob, Goto, EndAttempt, JobReturns, JobRaises, HandleError,
          Unprotected, Live, Exists, Early, Holding, Working, Sweeping
  <1>1. CASE DatabaseError(t)
    BY <1>1 DEF DatabaseError
  <1>2. CASE CommitReplyLost(t)
    <2>1. CASE pc[t] = "commit"
      BY <1>2, <2>1 DEF CommitReplyLost, Inserts, Insertable
    <2>2. CASE pc[t] # "commit"
      <3>1. row[t] \in Row /\ Completed(row[t]).cancel = row[t].cancel
        BY DEF Completed, Row
      <3>2. QED
        BY <1>2, <2>2, <3>1, OutcomeColumns DEF CommitReplyLost, RowWritten, Inserts
    <2>3. QED
      BY <2>1, <2>2
  <1>3. CASE WorkerCrash(t)
    BY <1>3 DEF WorkerCrash
  <1>4. CASE Interrupt(t)
    BY <1>4 DEF Interrupt, Inserts, Insertable, Steps
  <1>5. QED
    BY <1>1, <1>2, <1>3, <1>4 DEF WorkerFault

LEMMA StepInv == IndInv /\ [Next]_vars => IndInv'
  <1> SUFFICES ASSUME IndInv, [Next]_vars PROVE \A u \in Tasks : TaskInv(u)'
    BY StepType DEF IndInv
  <1>1. CASE UNCHANGED vars
    BY <1>1, UntouchedKeepsInv DEF IndInv, Untouched, vars, queueVars, jobVars
  <1>2. CASE DeleteParent
    BY <1>2, DeleteParentInv DEF IndInv
  <1>3. ASSUME NEW t \in Tasks, User(t) \/ TaskSide(t) \/ Attempt(t) \/ WorkerFault(t)
        PROVE  \A u \in Tasks : TaskInv(u)'
    <2>1. TaskInv(t)'
      BY <1>3, UserInv, TaskSideInv, PickupInv, FinishInv, WorkerFaultInv DEF IndInv, Attempt
    <2>2. \A u \in Tasks \ {t} : Untouched(u)
      BY <1>3, TaskSideFrame, AttemptFrame, WorkerFaultFrame DEF IndInv
    <2>3. QED
      BY <2>1, <2>2, UntouchedKeepsInv DEF IndInv
  <1>4. QED
    BY <1>1, <1>2, <1>3 DEF Next

LEMMA Invariance == Spec => []IndInv
  BY InitInv, StepInv, PTL DEF Spec

\* Task rows, requests, jobs, attempts, motions and files only hold the values the code
\* gives them.
THEOREM TypeCorrect == Spec => []TypeOK
  <1>1. IndInv => TypeOK
    BY DEF IndInv
  <1>2. QED
    BY <1>1, Invariance, PTL

\* A task that completed uncancelled has its video under the row's key, whatever failed
\* between commit and copy; a temporary file that stays has an explanation.
THEOREM StoreMatchesMotions == Spec => []FilesMatchMotions
  <1>1. IndInv => FilesMatchMotions
    BY DEF IndInv, TaskInv, VideoAgrees, TempAgrees, Holding, FilesMatchMotions,
           CompletedMotionPlays, NoTempLeft
  <1>2. QED
    BY <1>1, Invariance, PTL

\* A task tells the user what became of the motion.
THEOREM TaskTellsTheTruth == Spec => []OutcomeMatchesMotion
  <1>1. IndInv => OutcomeMatchesMotion
    BY DEF IndInv, TaskInv, VideoAgrees, OutcomeMatchesMotion
  <1>2. QED
    BY <1>1, Invariance, PTL

\* A motion lives under a deleted parent only if its task was under way at the deletion.
THEOREM LateMotionsAreExplained == Spec => []LateMotionsExplained
  <1>1. IndInv => LateMotionsExplained
    BY DEF IndInv, TaskInv, LateAgrees, LateMotionsExplained
  <1>2. QED
    BY <1>1, Invariance, PTL

-----------------------------------------------------------------------------
(* Names and slots.                                                        *)

\* How a step may change the motions: rows are deleted; a row gets a name, and a new one a
\* slot, that is free; or a row that is not there yet gets its type.
Deletes ==
  /\ kind' = kind
  /\ \A t \in Tasks : motion'[t] = motion[t] \/ motion'[t] = Deleted

TakesName(t, n) ==
  /\ kind' = kind /\ motion' = [motion EXCEPT ![t] = n]
  /\ ~NameTaken(n, t)
  /\ (Live(t) /\ kind[t] = Custom) \/ ~SlotTaken(kind[t], t)

ChoosesType(t) ==
  /\ motion' = motion /\ ~Live(t)
  /\ \A u \in Tasks \ {t} : kind'[u] = kind[u]
LEMMA MotionSteps ==
  ASSUME IndInv, [Next]_vars
  PROVE  Deletes \/ \E t \in Tasks : ChoosesType(t) \/ \E n \in Names : TakesName(t, n)
  <1>1. CASE motion' = motion /\ kind' = kind
    BY <1>1 DEF Deletes
  <1>2. CASE DeleteParent
    BY <1>2 DEF DeleteParent, Deletes
  <1>3. ASSUME NEW t \in Tasks, User(t)
        PROVE  Deletes \/ ChoosesType(t) \/ \E n \in Names : TakesName(t, n)
    <2>1. CASE DeleteMotion(t)
      BY <2>1 DEF DeleteMotion, Deletes, IndInv, TypeOK
    <2>2. ASSUME NEW n \in Names, NEW k \in Presets \cup {Custom}, AdmitMotion(t, n, k)
          PROVE  ChoosesType(t)
      BY <2>2, MotionAssumption
      DEF AdmitMotion, ChoosesType, Live, IndInv, TaskInv, ControlAgrees, TypeOK
    <2>3. ASSUME NEW n \in Names, RenameMotion(t, n) PROVE TakesName(t, n)
      BY <2>3 DEF RenameMotion, TakesName
    <2>4. QED
      BY <1>3, <2>1, <2>2, <2>3 DEF User
  <1>4. ASSUME NEW t \in Tasks, Inserts(t), kind' = kind,
               motion' = [motion EXCEPT ![t] = asked[t]]
        PROVE  \E n \in Names : TakesName(t, n)
    <2>1. asked[t] \in Names
      BY <1>4 DEF Inserts, IndInv, TaskInv, ControlAgrees
    <2>2. QED
      BY <1>4, <2>1 DEF Inserts, Insertable, TakesName
  <1>5. ASSUME NEW t \in Tasks, Attempt(t) \/ WorkerFault(t)
        PROVE  /\ kind' = kind
               /\ \/ motion' = motion
                  \/ Inserts(t) /\ motion' = [motion EXCEPT ![t] = asked[t]]
    <2>1. CASE CommitMotion(t)
      BY <2>1 DEF CommitMotion, Inserts
    <2>2. CASE Attempt(t) /\ ~CommitMotion(t)
      BY <2>2 DEF Attempt, StartAttempt, PickupOver, PickupCancelled, PickupLive, Claim, Lookup,
             ResolvePrompt, ReadParentImage, GenerateVideo, Stage, StoreTemp, Promote, SweepTemp,
             MarkCancelled, MarkFailed, MarkCompleted, MarkOutcome, KeepData
    <2>3. CASE WorkerFault(t)
      BY <2>3 DEF WorkerFault, DatabaseError, CommitReplyLost, WorkerCrash, Interrupt, KeepData
    <2>4. QED
      BY <1>5, <2>1, <2>2, <2>3
  <1>6. ASSUME NEW t \in Tasks, TaskSide(t) PROVE motion' = motion /\ kind' = kind
    BY <1>6 DEF TaskSide, jobVars
  <1>7. UNCHANGED vars => motion' = motion /\ kind' = kind
    BY DEF vars, jobVars
  <1>8. QED
    BY <1>1, <1>2, <1>3, <1>4, <1>5, <1>6, <1>7 DEF Next

\* Two live motions never share a name or a preset slot, whoever creates and renames at
\* the same time.
THEOREM SlotsAreExclusive == Spec => []SlotsExclusive
  <1>1. Init => SlotsExclusive
    BY MotionAssumption DEF Init, SlotsExclusive, Live
  <1>2. IndInv /\ SlotsExclusive /\ [Next]_vars => SlotsExclusive'
    <2> SUFFICES ASSUME IndInv, SlotsExclusive, [Next]_vars PROVE SlotsExclusive'
      OBVIOUS
    <2>1. CASE Deletes
      BY <2>1, MotionAssumption DEF Deletes, SlotsExclusive, Live
    <2>2. ASSUME NEW t \in Tasks, ChoosesType(t) PROVE SlotsExclusive'
      BY <2>2 DEF ChoosesType, SlotsExclusive, Live
    <2>3. ASSUME NEW t \in Tasks, NEW n \in Names, TakesName(t, n) PROVE SlotsExclusive'
      <3>1. \A u \in Tasks : motion'[u] = IF u = t THEN n ELSE motion[u]
        BY <2>3 DEF TakesName, IndInv, TypeOK
      <3>2. \A u \in Tasks : kind'[u] = kind[u] /\ kind[u] \in Presets \cup {Custom}
        BY <2>3 DEF TakesName, IndInv, TypeOK
      <3>3. \A u \in Tasks \ {t} : Live(u) =>
              motion[u] # n /\ (kind[u] = kind[t] => kind[t] = Custom)
        BY <2>3, <3>2 DEF TakesName, NameTaken, SlotTaken, SlotsExclusive
      <3>4. QED
        BY <3>1, <3>2, <3>3 DEF SlotsExclusive, Live
    <2>4. QED
      BY <2>1, <2>2, <2>3, MotionSteps
  <1>3. QED
    BY <1>1, <1>2, Invariance, PTL DEF Spec

-----------------------------------------------------------------------------
(* The life cycle of the tasks.                                            *)

\* An attempt writes failed or cancelled only over a running task, or over one about
\* which a reply was lost; it never finds its own task completed.
LEMMA WriterKnowsRow ==
  ASSUME IndInv, NEW t \in Tasks,
         pc[t] \in {"cancel", "recancel", "fail", "complete"}, row[t].status # "absent"
  PROVE  /\ row[t].status # "completed"
         /\ t \notin SettledTasks \/ row[t].status = "running"
  BY DEF IndInv, TypeOK, QueueTypeOK, TaskInv, ControlAgrees, SettledTasks, Early, Holding

\* Each outcome an attempt may write, with the reply lost or not.
LEMMA OutcomeRefines ==
  ASSUME IndInv, NEW t \in Tasks, pc[t] \in {"cancel", "recancel", "fail", "complete"},
         SetRow(t, RowWritten(t)), pc[t] = "complete" => CheckMutex(RowWritten(t)),
         api' = api, lost' = lost \/ lost' = lost \cup {t}
  PROVE  Refines \/ row' = row
  <1>1. TypeOK /\ QueueTypeOK /\ TaskInv(t) /\ row[t] \in Row
    BY DEF IndInv, TypeOK, QueueTypeOK
  <1>2. CASE row[t].status = "absent"
    <2>1. RowWritten(t) = row[t]
      BY <1>1, <1>2, OutcomeColumns DEF RowWritten
    <2>2. QED
      BY <1>1, <2>1 DEF SetRow, QueueTypeOK
  <1>3. CASE row[t].status # "absent" /\ pc[t] = "complete"
    <2>1. SetRow(t, Completed(row[t])) /\ CheckMutex(Completed(row[t]))
      BY <1>3 DEF RowWritten
    <2>2. row[t].status = "running"
      BY <1>1, <1>3, <2>1, OutcomeColumns DEF TaskInv, ControlAgrees
    <2>3. QED
      BY <1>1, <2>1, <2>2, CompletionRefines
  <1>4. CASE row[t].status # "absent" /\ pc[t] # "complete"
    <2>1. RowWritten(t) \in Row /\ RowWritten(t).status \in {"failed", "cancelled"}
      <3>1. CASE pc[t] = "fail"
        BY <1>1, <1>4, <3>1, OutcomeColumns, RowOperators DEF RowWritten
      <3>2. CASE pc[t] \in {"cancel", "recancel"}
        BY <1>1, <1>4, <3>2, OutcomeColumns, RowOperators DEF RowWritten
      <3>3. QED
        BY <1>4, <3>1, <3>2
    <2>2. QED
      BY <1>1, <1>4, <2>1, WriterKnowsRow, FailureRefines
  <1>5. QED
    BY <1>2, <1>3, <1>4

LEMMA AttemptRefines ==
  ASSUME IndInv, NEW t \in Tasks, Attempt(t)
  PROVE  Refines
  <1>1. QueueTypeOK
    BY DEF IndInv, TypeOK
  <1>2. api' = api /\ lost' = lost
    BY DEF Attempt, StartAttempt, Deliver, PickupOver, PickupCancelled, PickupLive, Claim, Lookup,
           ResolvePrompt, ReadParentImage, GenerateVideo, Stage, StoreTemp, CommitMotion,
           Promote, SweepTemp,
           MarkCancelled, MarkFailed, MarkCompleted, MarkOutcome, KeepQueue
  <1>3. CASE row' = row
    BY <1>2, <1>3, KeepRowStatus, KeepSettled DEF Refines
  <1>4. CASE Claim(t) /\ row' # row
    BY <1>1, <1>2, <1>4, ClaimRefines DEF Claim
  <1>5. CASE (MarkCancelled(t) \/ MarkFailed(t) \/ MarkCompleted(t)) /\ row' # row
    <2>1. /\ pc[t] \in {"cancel", "recancel", "fail", "complete"}
          /\ SetRow(t, RowWritten(t))
          /\ pc[t] = "complete" => CheckMutex(RowWritten(t))
      <3>1. CASE MarkCancelled(t)
        BY <3>1 DEF MarkCancelled, RowWritten
      <3>2. CASE MarkFailed(t) \/ MarkCompleted(t)
        BY <1>5, <3>2 DEF MarkFailed, MarkCompleted, MarkOutcome, RowWritten
      <3>3. QED
        BY <1>5, <3>1, <3>2
    <2>2. QED
      BY <1>2, <1>5, <2>1, OutcomeRefines
  <1>6. QED
    BY <1>3, <1>4, <1>5 DEF Attempt, StartAttempt, Deliver, PickupOver, PickupCancelled,
       PickupLive, Lookup, ResolvePrompt, ReadParentImage, GenerateVideo, Stage, StoreTemp,
       CommitMotion, Promote, SweepTemp, KeepQueue

LEMMA WorkerFaultRefines ==
  ASSUME IndInv, NEW t \in Tasks, WorkerFault(t)
  PROVE  Refines
  <1>1. CASE DatabaseError(t) \/ WorkerCrash(t)
    BY <1>1, KeepRowStatus, KeepSettled DEF DatabaseError, WorkerCrash, Refines
  <1>2. CASE row' = row /\ (lost' = lost \/ lost' = lost \cup {t}) /\ api' = api
    <2>1. TaskStatus' = TaskStatus
      BY <1>2, KeepRowStatus
    <2>2. SettledTasks' = SettledTasks \/ SettledTasks' = SettledTasks \ {t}
      BY <1>2 DEF SettledTasks
    <2>3. QED
      BY <2>1, <2>2 DEF Refines, Lifecycle!LifecycleNext, Lifecycle!Dispute
  <1>3. CASE CommitReplyLost(t) /\ row' # row
    BY <1>2, <1>3, OutcomeRefines DEF CommitReplyLost
  <1>4. QED
    BY <1>1, <1>2, <1>3 DEF WorkerFault, CommitReplyLost, Interrupt

\* Whatever happens to an motion job, its client sees the life cycle of the task API.
THEOREM ImplementsLifecycle == Spec => LifecycleSpec
  <1>1. Init => Lifecycle!LifecycleInit
    BY DEF Init, QueueInit, Absent, TaskStatus, SettledTasks, Lifecycle!LifecycleInit
  <1>2. IndInv /\ [Next]_vars => [Lifecycle!LifecycleNext]_(Lifecycle!lifecycleVars)
    <2> SUFFICES ASSUME IndInv, [Next]_vars PROVE Refines
      BY DEF Lifecycle!lifecycleVars, Refines
    <2>1. CASE UNCHANGED vars
      BY <2>1, KeepRowStatus, KeepSettled DEF vars, queueVars, Refines
    <2>2. ASSUME NEW t \in Tasks, User(t) PROVE Refines
      <3>1. TaskStatus' = TaskStatus
        BY <2>2, KeepRowStatus DEF User, DeleteMotion, AdmitMotion, RenameMotion, KeepQueue
      <3>2. SettledTasks' = SettledTasks
        BY <2>2 DEF User, DeleteMotion, AdmitMotion, RenameMotion, KeepQueue, SetApi,
               SettledTasks, IndInv, TypeOK, QueueTypeOK
      <3>3. QED
        BY <3>1, <3>2 DEF Refines
    <2>3. ASSUME NEW t \in Tasks, TaskSide(t) PROVE Refines
      BY <2>3, ServeRefines
      DEF TaskSide, Serve, RowMatchesRequest, IndInv, TypeOK, TaskInv, ControlAgrees
    <2>4. CASE DeleteParent
      BY <2>4, KeepRowStatus, KeepSettled DEF DeleteParent, KeepQueue, Refines
    <2>5. QED
      BY <2>1, <2>2, <2>3, <2>4, AttemptRefines, WorkerFaultRefines DEF Next
  <1>3. QED
    BY <1>1, <1>2, Invariance, PTL DEF Spec, LifecycleSpec, Lifecycle!LifecycleSpec
===============================================================================
