------------------------ MODULE CheckpointJob_proofs ------------------------
(***************************************************************************)
(* Proofs about CheckpointJob, for every number of tasks, sessions, tries  *)
(* and faults: type correctness, the safety invariants, and that an ended  *)
(* session gets no checkpoint.                                             *)
(***************************************************************************)
EXTENDS CheckpointJob, TaskQueue_proofs

-----------------------------------------------------------------------------
(* Type correctness.                                                       *)

LEMMA InitType == Init => TypeOK
  BY QueueInitType DEF Init, TypeOK

\* The request, the queue and the cleanup.
LEMMA ServiceType ==
  ASSUME TypeOK, NEW t \in Tasks, Service(t) \/ QueueSide(t)
  PROVE  TypeOK'
  <1>1. QueueTypeOK'
    BY ServeType DEF TypeOK, Service, QueueSide, Serve
  <1>2. QED
    BY <1>1 DEF TypeOK, Service, QueueSide, jobVars

LEMMA UserType ==
  ASSUME TypeOK, User
  PROVE  TypeOK'
  <1> USE DEF TypeOK, QueueTypeOK
  <1>1. ASSUME NEW t \in Tasks, NEW s \in Sessions, NEW n \in SeqNumbers,
               NEW source \in Tasks \cup {NoTask}, AdmitCheckpoint(t, s, n, source)
        PROVE  TypeOK'
    <2>1. payload' \in [Tasks -> Payloads \cup {NoPayload}]
      BY <1>1 DEF AdmitCheckpoint, Payloads
    <2>2. QED
      BY <1>1, <2>1 DEF AdmitCheckpoint, SetApi, ApiStates
  <1>2. ASSUME NEW t \in Tasks, SelectBase(t)
        PROVE  TypeOK'
    BY <1>2 DEF SelectBase, KeepQueue
  <1>3. ASSUME NEW s \in Sessions, AbandonSession(s)
        PROVE  TypeOK'
    BY <1>3 DEF AbandonSession, KeepQueue
  <1>4. QED
    BY <1>1, <1>2, <1>3 DEF User

\* Moving an attempt on keeps pc a function into the steps.
LEMMA GotoType ==
  ASSUME pc \in [Tasks -> Steps \cup {"idle"}], NEW t \in Tasks,
         NEW step \in Steps \cup {"idle"}, Goto(t, step)
  PROVE  pc' \in [Tasks -> Steps \cup {"idle"}]
  BY DEF Goto

\* The steps that touch neither the task row nor the store.
LEMMA ControlType ==
  ASSUME TypeOK, NEW t \in Tasks,
         \/ PickupOver(t) \/ PickupCancelled(t) \/ PickupLive(t) \/ Lookup(t)
         \/ ReconcilePrompt(t) \/ GenerateImage(t) \/ LockSession(t)
  PROVE  TypeOK'
  <1> USE DEF TypeOK, QueueTypeOK, KeepQueue, KeepData
  <1>1. pc' \in [Tasks -> Steps \cup {"idle"}]
    BY DEF PickupOver, PickupCancelled, PickupLive, Lookup, ReconcilePrompt,
           GenerateImage, LockSession, Goto, EndAttempt,
           Steps, Unprotected, Working, Storing
  <1>2. job' \in [Tasks -> JobStates]
    BY JobType DEF PickupOver, PickupCancelled, PickupLive, Lookup,
                   ReconcilePrompt, GenerateImage, LockSession
  <1>3. QED
    BY <1>1, <1>2 DEF PickupOver, PickupCancelled, PickupLive, Lookup,
                      ReconcilePrompt, GenerateImage, LockSession

\* The steps that write the store or the checkpoint table.
LEMMA StoreType ==
  ASSUME TypeOK, NEW t \in Tasks,
         StoreOutput(t) \/ CommitCheckpoint(t) \/ SweepFiles(t)
  PROVE  TypeOK'
  <1> USE DEF TypeOK, QueueTypeOK, KeepQueue, KeepRows
  <1>1. pc' \in [Tasks -> Steps \cup {"idle"}]
    BY DEF StoreOutput, CommitCheckpoint, SweepFiles, Goto, EndAttempt,
           Steps, Unprotected, Working, Storing, Sweeping
  <1>2. CASE StoreOutput(t)
    BY <1>1, <1>2 DEF StoreOutput
  <1>3. CASE CommitCheckpoint(t)
    BY <1>1, <1>3 DEF CommitCheckpoint
  <1>4. CASE SweepFiles(t)
    <2>1. faults' \in 0..MaxFaults
      BY <1>4, FaultType DEF SweepFiles
    <2>2. job' \in [Tasks -> JobStates]
      BY <1>4, JobType DEF SweepFiles
    <2>3. QED
      BY <1>1, <1>4, <2>1, <2>2 DEF SweepFiles
  <1>5. QED
    BY <1>2, <1>3, <1>4

\* The steps that write the task row.
LEMMA OutcomeType ==
  ASSUME TypeOK, NEW t \in Tasks,
         \/ Claim(t) \/ CancelSessionGone(t) \/ MarkCancelled(t)
         \/ MarkFailed(t) \/ MarkCompleted(t)
  PROVE  TypeOK'
  <1> USE DEF TypeOK, QueueTypeOK, KeepData
  <1>1. row' \in [Tasks -> Row]
    BY RowOperators DEF Claim, CancelSessionGone, MarkCancelled, MarkFailed,
                        MarkCompleted, MarkOutcome, SetRow
  <1>2. pc' \in [Tasks -> Steps \cup {"idle"}]
    BY DEF Claim, CancelSessionGone, MarkCancelled, MarkFailed, MarkCompleted,
           MarkOutcome, Goto, EndAttempt, Steps, Unprotected, Sweeping
  <1>3. job' \in [Tasks -> JobStates]
    BY JobType DEF Claim, CancelSessionGone, MarkCancelled, MarkFailed,
                   MarkCompleted, MarkOutcome
  <1>4. QED
    BY <1>1, <1>2, <1>3 DEF Claim, CancelSessionGone, MarkCancelled, MarkFailed,
                            MarkCompleted, MarkOutcome

LEMMA AttemptType ==
  ASSUME TypeOK, NEW t \in Tasks, StartAttempt(t) \/ Attempt(t)
  PROVE  TypeOK'
  <1>1. CASE StartAttempt(t)
    <2> USE DEF TypeOK, QueueTypeOK, KeepData
    <2>1. tries' \in [Tasks -> 0..MaxTries]
      BY <1>1, TaskQueueAssumption DEF StartAttempt, Deliver
    <2>2. QED
      BY <1>1, <2>1 DEF StartAttempt, Deliver, SetJob, JobStates, Goto, Steps, Unprotected
  <1>2. CASE Attempt(t)
    BY <1>2, ControlType, StoreType, OutcomeType DEF Attempt
  <1>3. QED
    BY <1>1, <1>2

\* An exception leaves the attempt at a step, and the job in a state, of the model.
LEMMA ErrorType ==
  ASSUME TypeOK, NEW t \in Tasks, HandleError(t)
  PROVE  /\ pc' \in [Tasks -> Steps \cup {"idle"}]
         /\ job' \in [Tasks -> JobStates]
  <1>1. pc' \in [Tasks -> Steps \cup {"idle"}]
    BY DEF TypeOK, HandleError, Goto, EndAttempt, Steps, Unprotected, Sweeping
  <1>2. job' \in [Tasks -> JobStates]
    BY JobType DEF TypeOK, QueueTypeOK, HandleError
  <1>3. QED
    BY <1>1, <1>2

LEMMA WorkerFaultType ==
  ASSUME TypeOK, NEW t \in Tasks, WorkerFault(t)
  PROVE  TypeOK'
  <1> USE DEF TypeOK, QueueTypeOK
  <1>1. CASE DatabaseError(t)
    BY <1>1, FaultType, ErrorType DEF DatabaseError, KeepData
  <1>2. CASE CommitReplyLost(t)
    <2>1. row' \in [Tasks -> Row]
      BY <1>2, RowOperators DEF CommitReplyLost, RowWritten, SetRow
    <2>2. QED
      BY <1>2, <2>1, FaultType, ErrorType DEF CommitReplyLost
  <1>3. CASE WorkerCrash(t)
    BY <1>3, FaultType
    DEF WorkerCrash, KeepRows, EndAttempt, Goto, SetJob, JobStates
  <1>4. CASE Interrupt(t)
    <2>1. pc' \in [Tasks -> Steps \cup {"idle"}] /\ job' \in [Tasks -> JobStates]
      BY <1>4 DEF Interrupt, EndAttempt, Goto, SetJob, JobStates
    <2>2. QED
      BY <1>4, <2>1, FaultType DEF Interrupt
  <1>5. QED
    BY <1>1, <1>2, <1>3, <1>4 DEF WorkerFault

LEMMA StepType == TypeOK /\ [Next]_vars => TypeOK'
  <1> SUFFICES ASSUME TypeOK, [Next]_vars PROVE TypeOK'
    OBVIOUS
  <1>1. CASE UNCHANGED vars
    BY <1>1 DEF TypeOK, QueueTypeOK, vars, queueVars, jobVars
  <1>2. CASE Next
    BY <1>2, UserType, ServiceType, AttemptType, WorkerFaultType DEF Next
  <1>3. QED
    BY <1>1, <1>2

\* Type correctness: the task rows, the requests, the jobs, the attempts and the
\* sessions only ever hold the values the code gives them.
THEOREM TypeCorrect == Spec => []TypeOK
  BY InitType, StepType, PTL DEF Spec

-----------------------------------------------------------------------------
(* Safety.  The inductive invariant says everything about one task at a    *)
(* time, so a step of a task has to keep it for that task, and to leave    *)
(* what it says about the others alone.                                    *)

StoreAgrees(t) ==
  /\ t \in checkpoints \ lost => t \in files
  /\ t \in files \ (checkpoints \cup litter) => pc[t] \in Storing \cup Sweeping

OutcomeAgrees(t) ==
  /\ row[t].status = "completed" => t \in checkpoints
  /\ row[t].status \in {"failed", "cancelled"} /\ t \notin lost => t \notin checkpoints
  /\ t \in checkpoints => pc[t] \notin {"reconcile", "generate", "store", "lock", "commit"}

TaskInv(t) == StepAgrees(t) /\ StoreAgrees(t) /\ OutcomeAgrees(t)

IndInv == TypeOK /\ \A t \in Tasks : TaskInv(t)

\* A step leaves everything TaskInv says about u alone.
Untouched(u) ==
  /\ row'[u] = row[u] /\ api'[u] = api[u] /\ job'[u] = job[u] /\ pc'[u] = pc[u]
  /\ payload'[u] = payload[u] /\ session' = session
  /\ u \in checkpoints' <=> u \in checkpoints
  /\ u \in files' <=> u \in files
  /\ u \in litter' <=> u \in litter
  /\ u \in lost' <=> u \in lost

LEMMA UntouchedKeepsInv ==
  ASSUME NEW u \in Tasks, TaskInv(u), Untouched(u)
  PROVE  TaskInv(u)'
  BY DEF TaskInv, StepAgrees, StoreAgrees, OutcomeAgrees, Untouched, SessionOf,
         Storing, Sweeping

LEMMA InitInv == Init => IndInv
  <1> SUFFICES ASSUME Init PROVE IndInv
    OBVIOUS
  <1>1. ASSUME NEW t \in Tasks PROVE TaskInv(t)
    BY DEF Init, QueueInit, Absent, TaskInv, StepAgrees, StoreAgrees, OutcomeAgrees,
           Storing, Sweeping
  <1>2. QED
    BY <1>1, InitType DEF IndInv

\* The steps of a task's request, its job and its attempts touch no other task.
LEMMA ServiceFrame ==
  ASSUME TypeOK, NEW t \in Tasks, Service(t) \/ QueueSide(t), NEW u \in Tasks \ {t}
  PROVE  Untouched(u)
  BY DEF TypeOK, QueueTypeOK, Untouched, jobVars, Service, QueueSide, SetRow, SetApi, SetJob,
         InsertTask, EnqueueJob, RejectTask, EnqueueFails, EnqueueReplyLost, ApiCrash,
         CancelTask, GiveUp, CleanupTerminalTask

LEMMA AttemptFrame ==
  ASSUME TypeOK, NEW t \in Tasks, StartAttempt(t) \/ Attempt(t), NEW u \in Tasks \ {t}
  PROVE  Untouched(u)
  <1> USE DEF TypeOK, QueueTypeOK, Untouched, SetRow, SetJob, Goto, EndAttempt,
              JobReturns, JobRaises, KeepQueue, KeepData, KeepRows
  <1>1. CASE StartAttempt(t) \/ PickupOver(t) \/ PickupCancelled(t) \/ PickupLive(t)
    BY <1>1 DEF StartAttempt, Deliver, PickupOver, PickupCancelled, PickupLive
  <1>2. CASE Claim(t) \/ Lookup(t) \/ ReconcilePrompt(t) \/ GenerateImage(t)
    BY <1>2 DEF Claim, Lookup, ReconcilePrompt, GenerateImage
  <1>3. CASE StoreOutput(t) \/ LockSession(t) \/ CommitCheckpoint(t) \/ SweepFiles(t)
    BY <1>3 DEF StoreOutput, LockSession, CommitCheckpoint, SweepFiles
  <1>4. CASE CancelSessionGone(t) \/ MarkCancelled(t) \/ MarkFailed(t) \/ MarkCompleted(t)
    BY <1>4 DEF CancelSessionGone, MarkCancelled, MarkFailed, MarkCompleted, MarkOutcome
  <1>5. QED
    BY <1>1, <1>2, <1>3, <1>4 DEF Attempt

LEMMA WorkerFaultFrame ==
  ASSUME TypeOK, NEW t \in Tasks, WorkerFault(t), NEW u \in Tasks \ {t}
  PROVE  Untouched(u)
  <1> USE DEF TypeOK, QueueTypeOK, Untouched, SetRow, SetJob, Goto, EndAttempt,
              JobReturns, JobRaises, KeepData, KeepRows, HandleError
  <1>1. CASE DatabaseError(t) \/ CommitReplyLost(t)
    BY <1>1 DEF DatabaseError, CommitReplyLost
  <1>2. CASE WorkerCrash(t) \/ Interrupt(t)
    BY <1>2 DEF WorkerCrash, Interrupt
  <1>3. QED
    BY <1>1, <1>2 DEF WorkerFault

\* The request: before the job exists there is no attempt and no checkpoint, and
\* afterwards the compensation runs only for a task about which a reply was lost.
LEMMA ServiceInv ==
  ASSUME TypeOK, NEW t \in Tasks, TaskInv(t), Service(t)
  PROVE  TaskInv(t)'
  <1> USE DEF TypeOK, QueueTypeOK, TaskInv, StepAgrees, StoreAgrees, OutcomeAgrees,
              jobVars, SetRow, SetApi, SetJob, SessionOf
  <1>1. CASE InsertTask(t)
    BY <1>1 DEF Service, InsertTask, Inserted, Absent
  <1>2. CASE EnqueueJob(t)
    BY <1>2 DEF Service, EnqueueJob
  <1>3. CASE RejectTask(t)
    <2>1. CASE row' = row
      BY <1>3, <2>1 DEF Service, RejectTask
    <2>2. CASE row' # row
      <3>1. row[t] \in Row /\ SetRow(t, Failed(row[t])) /\ CheckMutex(Failed(row[t]))
        BY <1>3, <2>2 DEF RejectTask
      <3>2. row[t].status # "absent"
        BY <2>2, <3>1, OutcomeColumns
      <3>3. row'[t].status = "failed" /\ row'[t].error /\ ~row'[t].result
        BY <3>1, <3>2, OutcomeColumns
      <3>4. QED
        BY <1>3, <3>3 DEF Service, RejectTask, Storing, Sweeping
    <2>3. QED
      BY <2>1, <2>2
  <1>4. QED
    BY <1>1, <1>2, <1>3 DEF Service

LEMMA QueueSideInv ==
  ASSUME TypeOK, NEW t \in Tasks, TaskInv(t), QueueSide(t)
  PROVE  TaskInv(t)'
  <1> USE DEF TypeOK, QueueTypeOK, TaskInv, StepAgrees, StoreAgrees, OutcomeAgrees,
              jobVars, SetRow, SetApi, SetJob, SessionOf
  <1>1. CASE EnqueueFails(t) \/ EnqueueReplyLost(t) \/ ApiCrash(t)
    BY <1>1 DEF QueueSide, EnqueueFails, EnqueueReplyLost, ApiCrash
  <1>2. CASE CancelTask(t)
    BY <1>2 DEF QueueSide, CancelTask, CancelRequested, Row
  <1>3. CASE GiveUp(t)
    BY <1>3 DEF QueueSide, GiveUp
  <1>4. CASE CleanupTerminalTask(t)
    BY <1>4 DEF QueueSide, CleanupTerminalTask, Absent, Storing, Sweeping
  <1>5. QED
    BY <1>1, <1>2, <1>3, <1>4 DEF QueueSide

\* Pickup to upload: the work is done only for a task without a checkpoint, and
\* only then may the attempt end in cancelled or failed.
LEMMA PickupInv ==
  ASSUME TypeOK, NEW t \in Tasks, TaskInv(t),
         \/ StartAttempt(t) \/ PickupOver(t) \/ PickupCancelled(t) \/ PickupLive(t)
         \/ Claim(t) \/ Lookup(t) \/ ReconcilePrompt(t) \/ GenerateImage(t)
         \/ StoreOutput(t)
  PROVE  TaskInv(t)'
  <1> USE DEF TypeOK, QueueTypeOK, TaskInv, StepAgrees, StoreAgrees, OutcomeAgrees,
              KeepQueue, KeepData, KeepRows, SetRow, SetJob, Goto, EndAttempt,
              JobReturns, SessionOf, Storing, Sweeping
  <1>1. CASE StartAttempt(t)
    BY <1>1 DEF StartAttempt, Deliver
  <1>2. CASE PickupOver(t)
    BY <1>2 DEF PickupOver
  <1>3. CASE PickupCancelled(t)
    BY <1>3 DEF PickupCancelled
  <1>4. CASE PickupLive(t)
    BY <1>4 DEF PickupLive
  <1>5. CASE Claim(t)
    BY <1>5 DEF Claim, Claimable, Claimed, Row
  <1>6. CASE Lookup(t)
    BY <1>6 DEF Lookup
  <1>7. CASE ReconcilePrompt(t) \/ GenerateImage(t)
    BY <1>7 DEF ReconcilePrompt, GenerateImage
  <1>8. CASE StoreOutput(t)
    BY <1>8 DEF StoreOutput
  <1>9. QED
    BY <1>1, <1>2, <1>3, <1>4, <1>5, <1>6, <1>7, <1>8

\* Session lock to the last write of the task row.
LEMMA FinishInv ==
  ASSUME TypeOK, NEW t \in Tasks, TaskInv(t),
         \/ LockSession(t) \/ CommitCheckpoint(t) \/ CancelSessionGone(t)
         \/ SweepFiles(t) \/ MarkCancelled(t) \/ MarkFailed(t) \/ MarkCompleted(t)
  PROVE  TaskInv(t)'
  <1> USE DEF TypeOK, QueueTypeOK, TaskInv, StepAgrees, StoreAgrees, OutcomeAgrees,
              KeepQueue, KeepData, KeepRows, SetRow, SetJob, Goto, EndAttempt,
              JobReturns, JobRaises, SessionOf, Storing, Sweeping
  <1>1. CASE LockSession(t)
    BY <1>1 DEF LockSession
  <1>2. CASE CommitCheckpoint(t)
    BY <1>2 DEF CommitCheckpoint
  <1>3. CASE CancelSessionGone(t)
    BY <1>3, OutcomeColumns DEF CancelSessionGone
  <1>4. CASE SweepFiles(t)
    BY <1>4 DEF SweepFiles
  <1>5. CASE MarkCancelled(t)
    BY <1>5, OutcomeColumns DEF MarkCancelled
  <1>6. CASE MarkFailed(t)
    BY <1>6, OutcomeColumns DEF MarkFailed, MarkOutcome
  <1>7. CASE MarkCompleted(t)
    BY <1>7, OutcomeColumns DEF MarkCompleted, MarkOutcome
  <1>8. QED
    BY <1>1, <1>2, <1>3, <1>4, <1>5, <1>6, <1>7

\* Faults: a lost reply excuses what it hides, a crash leaves its file to litter.
LEMMA WorkerFaultInv ==
  ASSUME TypeOK, NEW t \in Tasks, TaskInv(t), WorkerFault(t)
  PROVE  TaskInv(t)'
  <1> USE DEF TypeOK, QueueTypeOK, TaskInv, StepAgrees, StoreAgrees, OutcomeAgrees,
              KeepData, KeepRows, SetRow, SetJob, Goto, EndAttempt, JobReturns, JobRaises,
              HandleError, SessionOf, Unprotected, Working, Storing, Sweeping
  <1>1. CASE DatabaseError(t)
    BY <1>1 DEF DatabaseError
  <1>2. CASE CommitReplyLost(t)
    <2>1. CASE pc[t] = "commit"
      BY <1>2, <2>1 DEF CommitReplyLost
    <2>2. CASE pc[t] # "commit"
      BY <1>2, <2>2, OutcomeColumns DEF CommitReplyLost, RowWritten
    <2>3. QED
      BY <2>1, <2>2
  <1>3. CASE WorkerCrash(t)
    BY <1>3 DEF WorkerCrash
  <1>4. CASE Interrupt(t)
    BY <1>4 DEF Interrupt, Steps
  <1>5. QED
    BY <1>1, <1>2, <1>3, <1>4 DEF WorkerFault

\* Users: a session ends only while no attempt is between its status read and its
\* commit, and a task is admitted once.
LEMMA UserInv ==
  ASSUME IndInv, User
  PROVE  \A u \in Tasks : TaskInv(u)'
  <1> SUFFICES ASSUME NEW u \in Tasks PROVE TaskInv(u)'
    OBVIOUS
  <1>0. TypeOK /\ TaskInv(u)
    BY DEF IndInv
  <1> USE DEF TypeOK, QueueTypeOK, TaskInv, StepAgrees, StoreAgrees, OutcomeAgrees,
              KeepQueue, SetApi, SessionOf
  <1>1. ASSUME NEW t \in Tasks, NEW s \in Sessions, NEW n \in SeqNumbers,
               NEW source \in Tasks \cup {NoTask}, AdmitCheckpoint(t, s, n, source)
        PROVE  TaskInv(u)'
    <2>1. CASE u = t
      BY <1>0, <1>1, <2>1 DEF AdmitCheckpoint
    <2>2. CASE u # t
      BY <1>0, <1>1, <2>2 DEF AdmitCheckpoint
    <2>3. QED
      BY <2>1, <2>2
  <1>2. ASSUME NEW t \in Tasks, SelectBase(t)
        PROVE  TaskInv(u)'
    BY <1>0, <1>2 DEF SelectBase, SessionLocked
  <1>3. ASSUME NEW s \in Sessions, AbandonSession(s)
        PROVE  TaskInv(u)'
    BY <1>0, <1>3 DEF AbandonSession, SessionLocked
  <1>4. QED
    BY <1>1, <1>2, <1>3 DEF User

LEMMA StepInv == IndInv /\ [Next]_vars => IndInv'
  <1> SUFFICES ASSUME IndInv, [Next]_vars PROVE \A u \in Tasks : TaskInv(u)'
    BY StepType DEF IndInv
  <1>1. CASE UNCHANGED vars
    BY <1>1 DEF IndInv, TaskInv, StepAgrees, StoreAgrees, OutcomeAgrees, SessionOf,
                vars, queueVars, jobVars
  <1>2. CASE User
    BY <1>2, UserInv
  <1>3. ASSUME NEW t \in Tasks,
               \/ Service(t) \/ QueueSide(t) \/ StartAttempt(t) \/ Attempt(t)
               \/ WorkerFault(t)
        PROVE  \A u \in Tasks : TaskInv(u)'
    <2>1. TaskInv(t)'
      BY <1>3, ServiceInv, QueueSideInv, PickupInv, FinishInv, WorkerFaultInv
      DEF IndInv, Attempt
    <2>2. \A u \in Tasks \ {t} : Untouched(u)
      BY <1>3, ServiceFrame, AttemptFrame, WorkerFaultFrame DEF IndInv
    <2>3. QED
      BY <2>1, <2>2, UntouchedKeepsInv DEF IndInv
  <1>4. QED
    BY <1>1, <1>2, <1>3 DEF Next

LEMMA Invariance == Spec => []IndInv
  BY InitInv, StepInv, PTL DEF Spec

\* A committed checkpoint keeps its image, unless a reply about it was lost (the commit
\* and the except branch of create_checkpoint_job).
THEOREM RowsHaveFiles == Spec => []CommittedRowHasFile
  <1>1. IndInv => CommittedRowHasFile
    BY DEF IndInv, TypeOK, TaskInv, StoreAgrees, CommittedRowHasFile
  <1>2. QED
    BY <1>1, Invariance, PTL

\* No image is left without a row, but by a crash or a failed delete.
THEOREM FilesHaveRows == Spec => []NoOrphanFile
  <1>1. IndInv => NoOrphanFile
    BY DEF IndInv, TypeOK, TaskInv, StoreAgrees, NoOrphanFile
  <1>2. QED
    BY <1>1, Invariance, PTL

\* A task reports what became of its checkpoint.
THEOREM TaskTellsTheTruth == Spec => []OutcomeMatchesRow
  <1>1. IndInv => OutcomeMatchesRow
    BY DEF IndInv, TypeOK, TaskInv, OutcomeAgrees, OutcomeMatchesRow
  <1>2. QED
    BY <1>1, Invariance, PTL

\* No image is generated, and paid for, once the checkpoint is committed.
THEOREM NothingRegenerated == Spec => []NeverRegenerated
  <1>1. IndInv => NeverRegenerated
    BY DEF IndInv, TypeOK, TaskInv, OutcomeAgrees, NeverRegenerated
  <1>2. QED
    BY <1>1, Invariance, PTL

\* Row, queue and store are at every step as the attempt's code assumes.
THEOREM AttemptsAgree == Spec => []AttemptAgrees
  <1>1. IndInv => AttemptAgrees
    BY DEF IndInv, TaskInv, AttemptAgrees
  <1>2. QED
    BY <1>1, Invariance, PTL

-----------------------------------------------------------------------------
(* Ended sessions.  Only a commit adds a checkpoint, and the session row   *)
(* is locked and in_progress from the status read to the commit.           *)

LEMMA StepFreezes ==
  ASSUME IndInv, [Next]_vars, NEW t \in checkpoints' \ checkpoints
  PROVE  session[SessionOf(t)] = "in_progress"
  <1>1. t \in Tasks /\ pc[t] = "commit"
    <2>1. t \in Tasks
      BY StepType DEF IndInv, TypeOK
    <2>2. \A u \in Tasks : Service(u) \/ QueueSide(u) => checkpoints' = checkpoints
      BY DEF Service, QueueSide, jobVars
    <2>3. \A u \in Tasks : StartAttempt(u) \/ Attempt(u) =>
            checkpoints' = checkpoints \/ (pc[u] = "commit" /\ checkpoints' = checkpoints \cup {u})
      BY DEF StartAttempt, Attempt, PickupOver, PickupCancelled, PickupLive, Claim, Lookup,
             ReconcilePrompt, GenerateImage, StoreOutput, LockSession, CommitCheckpoint,
             CancelSessionGone, SweepFiles, MarkCancelled, MarkFailed, MarkCompleted,
             MarkOutcome, KeepData, KeepRows
    <2>4. \A u \in Tasks : WorkerFault(u) =>
            checkpoints' = checkpoints \/ (pc[u] = "commit" /\ checkpoints' = checkpoints \cup {u})
      BY DEF WorkerFault, DatabaseError, CommitReplyLost, WorkerCrash, Interrupt,
             KeepData, KeepRows
    <2>5. User \/ UNCHANGED vars => checkpoints' = checkpoints
      BY DEF User, AdmitCheckpoint, SelectBase, AbandonSession, vars, jobVars
    <2>6. QED
      BY <2>1, <2>2, <2>3, <2>4, <2>5 DEF Next
  <1>2. QED
    BY <1>1 DEF IndInv, TaskInv, StepAgrees

\* A session that was completed or abandoned gets no checkpoint from any worker.
THEOREM EndedSessionsAreFrozen == Spec => EndedSessionIsFrozen
  <1>1. IndInv /\ [Next]_vars
          => [\A t \in checkpoints' \ checkpoints : session[SessionOf(t)] = "in_progress"]_vars
    BY StepFreezes
  <1>2. QED
    BY <1>1, Invariance, PTL DEF Spec, EndedSessionIsFrozen

-----------------------------------------------------------------------------
(* Cancellation.  Once the flag is up and the attempt is not past its last *)
(* check, no attempt gets past one again: the flag goes only with the row, *)
(* and a row that is gone stops an attempt as well.                        *)

NoFlagWithoutRow == \A t \in Tasks : row[t].status = "absent" => ~row[t].cancel

Halted(t) ==
  /\ t \notin checkpoints
  /\ pc[t] \notin {"lock", "commit"}
  /\ api[t] \notin {"idle", "admitted"}
  /\ row[t].cancel \/ row[t].status = "absent"

\* What a step may make of a task's row.
RowMoves(t) ==
  \/ row'[t] \in {row[t], Absent, Completed(row[t]), Failed(row[t]), Cancelled(row[t])}
  \/ api[t] = "admitted" /\ row'[t] = Inserted
  \/ row[t].status # "absent" /\ row'[t] \in {Claimed(row[t]), CancelRequested(row[t])}

LEMMA StepMovesRow ==
  ASSUME TypeOK, Next, NEW t \in Tasks
  PROVE  RowMoves(t)
  <1> USE DEF TypeOK, QueueTypeOK, RowMoves, SetRow
  <1>1. CASE User
    BY <1>1 DEF User, AdmitCheckpoint, SelectBase, AbandonSession, KeepQueue
  <1>2. ASSUME NEW u \in Tasks,
               Service(u) \/ QueueSide(u) \/ StartAttempt(u) \/ Attempt(u) \/ WorkerFault(u)
        PROVE  RowMoves(t)
    <2>1. CASE u # t
      BY <1>2, <2>1, ServiceFrame, AttemptFrame, WorkerFaultFrame DEF Untouched
    <2>2. CASE u = t /\ (Service(u) \/ QueueSide(u))
      BY <2>2 DEF Service, QueueSide, InsertTask, EnqueueJob, RejectTask, EnqueueFails,
         EnqueueReplyLost, ApiCrash, CancelTask, GiveUp, CleanupTerminalTask
    <2>3. CASE u = t /\ (StartAttempt(u) \/ Attempt(u))
      BY <2>3 DEF StartAttempt, Deliver, Attempt, PickupOver, PickupCancelled, PickupLive, Claim,
         Claimable, Lookup, ReconcilePrompt, GenerateImage, StoreOutput, LockSession,
         CommitCheckpoint, CancelSessionGone, SweepFiles, MarkCancelled, MarkFailed,
         MarkCompleted, MarkOutcome, KeepQueue
    <2>4. CASE u = t /\ WorkerFault(u)
      BY <2>4 DEF WorkerFault, DatabaseError, CommitReplyLost, RowWritten, WorkerCrash, Interrupt
    <2>5. QED
      BY <1>2, <2>1, <2>2, <2>3, <2>4
  <1>3. QED
    BY <1>1, <1>2 DEF Next

LEMMA FlagColumns ==
  ASSUME NEW r \in Row
  PROVE  /\ \A q \in {Completed(r), Failed(r), Cancelled(r)} :
              q.cancel = r.cancel /\ (q.status = "absent" <=> r.status = "absent")
         /\ Claimed(r).cancel = r.cancel /\ Claimed(r).status = "running"
         /\ CancelRequested(r).cancel
         /\ CancelRequested(r).status = "absent" => r.status = "absent"
         /\ ~Absent.cancel /\ Absent.status = "absent" /\ Inserted.status = "queued"
  BY DEF Row, Terminal, Completed, Failed, Cancelled, Claimed, CancelRequested, Absent, Inserted

LEMMA FlagGoesWithRow ==
  ASSUME TypeOK, NoFlagWithoutRow, [Next]_vars
  PROVE  NoFlagWithoutRow'
  <1>1. ASSUME Next, NEW t \in Tasks PROVE row'[t].status = "absent" => ~row'[t].cancel
    <2>1. RowMoves(t) /\ row[t] \in Row
      BY <1>1, StepMovesRow DEF TypeOK, QueueTypeOK
    <2>2. QED
      BY <2>1, FlagColumns DEF RowMoves, NoFlagWithoutRow
  <1>2. CASE UNCHANGED vars
    BY <1>2 DEF vars, queueVars, NoFlagWithoutRow
  <1>3. QED
    BY <1>1, <1>2 DEF NoFlagWithoutRow

LEMMA HaltedStays ==
  ASSUME IndInv, [Next]_vars, NEW t \in Tasks, Halted(t)
  PROVE  Halted(t)'
  <1> TypeOK /\ StepAgrees(t)
    BY DEF IndInv, TaskInv
  <1>1. ASSUME Next PROVE row'[t].cancel \/ row'[t].status = "absent"
    <2>1. RowMoves(t) /\ row[t] \in Row
      BY <1>1, StepMovesRow DEF TypeOK, QueueTypeOK
    <2>2. QED
      BY <2>1, FlagColumns DEF RowMoves, Halted
  <1>2. CASE User
    BY <1>1, <1>2 DEF User, AdmitCheckpoint, SelectBase, AbandonSession, KeepQueue, SetApi,
       Halted, TypeOK, QueueTypeOK, Next
  <1>3. ASSUME NEW u \in Tasks \ {t},
               Service(u) \/ QueueSide(u) \/ StartAttempt(u) \/ Attempt(u) \/ WorkerFault(u)
        PROVE  Halted(t)'
    <2>1. Untouched(t)
      BY <1>3, ServiceFrame, AttemptFrame, WorkerFaultFrame
    <2>2. QED
      BY <2>1 DEF Untouched, Halted
  <1>4. CASE Service(t) \/ QueueSide(t)
    <2>1. api'[t] \notin {"idle", "admitted"} /\ UNCHANGED <<pc, checkpoints>>
      BY <1>4 DEF Service, QueueSide, InsertTask, EnqueueJob, RejectTask, EnqueueFails,
         EnqueueReplyLost, ApiCrash, CancelTask, GiveUp, CleanupTerminalTask, SetApi, jobVars,
         Halted, TypeOK, QueueTypeOK
    <2>2. QED
      BY <1>1, <1>4, <2>1 DEF Halted, Next
  <1>5. CASE StartAttempt(t) \/ Attempt(t)
    <2>1. api' = api
      BY <1>5 DEF StartAttempt, Deliver, Attempt, PickupOver, PickupCancelled, PickupLive, Claim,
         Lookup, ReconcilePrompt, GenerateImage, StoreOutput, LockSession,
         CommitCheckpoint, CancelSessionGone, SweepFiles, MarkCancelled, MarkFailed,
         MarkCompleted, MarkOutcome, KeepQueue
    <2>2. pc'[t] \notin {"lock", "commit"} /\ checkpoints' = checkpoints
      BY <1>5 DEF StartAttempt, Deliver, Attempt, PickupOver, PickupCancelled, PickupLive, Claim,
         Lookup, ReconcilePrompt, GenerateImage, StoreOutput, StopRequested, LockSession,
         CommitCheckpoint, CancelSessionGone, SweepFiles, MarkCancelled, MarkFailed,
         MarkCompleted, MarkOutcome, Goto, EndAttempt, KeepData, KeepRows, Halted, TypeOK
    <2>3. QED
      BY <1>1, <1>5, <2>1, <2>2 DEF Halted, Next
  <1>6. CASE WorkerFault(t)
    <2>1. UNCHANGED <<api, checkpoints>> /\ pc'[t] \notin {"lock", "commit"}
      BY <1>6 DEF WorkerFault, DatabaseError, CommitReplyLost, WorkerCrash, Interrupt, HandleError,
         Goto, EndAttempt, KeepData, KeepRows, Halted, TypeOK
    <2>2. QED
      BY <1>1, <1>6, <2>1 DEF Halted, Next
  <1>7. CASE UNCHANGED vars
    BY <1>7 DEF vars, queueVars, jobVars, Halted
  <1>8. QED
    BY <1>2, <1>3, <1>4, <1>5, <1>6, <1>7 DEF Next

\* Once a running task was asked to stop before its last check, it gets no checkpoint, in
\* that attempt or another (the cancel checks of run_create_checkpoint).
THEOREM CancellationsAreHonoured == Spec => CancelHonoured
  <1> SUFFICES ASSUME NEW t \in Tasks
               PROVE  Spec => [](row[t].cancel /\ t \notin checkpoints /\ pc[t] \notin {"lock", "commit"}
                                   => [](t \notin checkpoints))
    BY DEF CancelHonoured
  <1>1. Init => NoFlagWithoutRow
    BY DEF Init, QueueInit, Absent, NoFlagWithoutRow
  <1>2. IndInv /\ NoFlagWithoutRow /\ [Next]_vars => NoFlagWithoutRow'
    BY FlagGoesWithRow DEF IndInv
  <1>3. IndInv /\ NoFlagWithoutRow /\ row[t].cancel /\ t \notin checkpoints /\ pc[t] \notin {"lock", "commit"}
          => Halted(t)
    BY DEF IndInv, TaskInv, StepAgrees, NoFlagWithoutRow, Halted
  <1>4. IndInv /\ Halted(t) /\ [Next]_vars => Halted(t)'
    BY HaltedStays
  <1>5. Halted(t) => t \notin checkpoints
    BY DEF Halted
  <1>6. QED
    BY <1>1, <1>2, <1>3, <1>4, <1>5, Invariance, PTL DEF Spec

-----------------------------------------------------------------------------
(* The life cycle of the tasks.                                            *)

\* An attempt writes failed or cancelled only over a running task, or over one about
\* which a reply was lost; it never finds its own task completed.
LEMMA WriterKnowsRow ==
  ASSUME IndInv, NEW t \in Tasks,
         pc[t] \in {"cancel", "recancel", "fail", "gone", "complete"},
         row[t].status # "absent"
  PROVE  /\ row[t].status # "completed"
         /\ t \notin SettledTasks \/ row[t].status = "running"
  BY DEF IndInv, TypeOK, QueueTypeOK, TaskInv, StepAgrees, SettledTasks

\* Each outcome an attempt may write, with the reply lost or not.
LEMMA OutcomeRefines ==
  ASSUME IndInv, NEW t \in Tasks, pc[t] \in {"cancel", "recancel", "fail", "gone", "complete"},
         SetRow(t, RowWritten(t)), pc[t] = "complete" => CheckMutex(RowWritten(t)),
         api' = api, lost' = lost \/ lost' = lost \cup {t}
  PROVE  Refines \/ row' = row
  <1>1. TypeOK /\ QueueTypeOK /\ TaskInv(t) /\ row[t] \in Row
    BY DEF IndInv, TypeOK, QueueTypeOK
  <1>2. CASE row[t].status = "absent"
    <2>1. RowWritten(t) = row[t]
      BY <1>1, <1>2, OutcomeColumns DEF RowWritten
    <2>2. QED
      BY <1>1, <2>1 DEF SetRow, QueueTypeOK
  <1>3. CASE row[t].status # "absent" /\ pc[t] = "complete"
    <2>1. SetRow(t, Completed(row[t])) /\ CheckMutex(Completed(row[t]))
      BY <1>3 DEF RowWritten
    <2>2. row[t].status = "running"
      BY <1>1, <1>3, <2>1, OutcomeColumns DEF TaskInv, StepAgrees
    <2>3. QED
      BY <1>1, <2>1, <2>2, CompletionRefines
  <1>4. CASE row[t].status # "absent" /\ pc[t] # "complete"
    <2>1. RowWritten(t) \in Row /\ RowWritten(t).status \in {"failed", "cancelled"}
      <3>1. CASE pc[t] = "fail"
        BY <1>1, <1>4, <3>1, OutcomeColumns, RowOperators DEF RowWritten
      <3>2. CASE pc[t] \in {"cancel", "recancel", "gone"}
        <4>1. RowWritten(t) = Cancelled(row[t])
          BY <3>2 DEF RowWritten
        <4>2. Cancelled(row[t]) \in Row
          BY <1>1, RowOperators
        <4>3. Cancelled(row[t]).status = "cancelled"
          BY <1>1, <1>4, OutcomeColumns
        <4>4. QED
          BY <4>1, <4>2, <4>3
      <3>3. QED
        BY <1>4, <3>1, <3>2
    <2>2. QED
      BY <1>1, <1>4, <2>1, WriterKnowsRow, FailureRefines
  <1>5. QED
    BY <1>2, <1>3, <1>4

LEMMA AttemptRefines ==
  ASSUME IndInv, NEW t \in Tasks, StartAttempt(t) \/ Attempt(t)
  PROVE  Refines
  <1>1. QueueTypeOK
    BY DEF IndInv, TypeOK
  <1>2. api' = api /\ lost' = lost
    BY DEF StartAttempt, Deliver, Attempt, PickupOver, PickupCancelled, PickupLive, Claim,
           Lookup, ReconcilePrompt, GenerateImage, StoreOutput, LockSession,
           CommitCheckpoint, CancelSessionGone, SweepFiles, MarkCancelled, MarkFailed,
           MarkCompleted, MarkOutcome, KeepQueue
  <1>3. CASE row' = row
    BY <1>2, <1>3, KeepRowStatus, KeepSettled DEF Refines
  <1>4. CASE Claim(t) /\ row' # row
    BY <1>1, <1>2, <1>4, ClaimRefines DEF Claim
  <1>5. CASE /\ CancelSessionGone(t) \/ MarkCancelled(t) \/ MarkFailed(t) \/ MarkCompleted(t)
             /\ row' # row
    <2>1. /\ pc[t] \in {"cancel", "recancel", "fail", "gone", "complete"}
          /\ SetRow(t, RowWritten(t))
          /\ pc[t] = "complete" => CheckMutex(RowWritten(t))
      <3>1. CASE CancelSessionGone(t) \/ MarkCancelled(t)
        BY <3>1 DEF CancelSessionGone, MarkCancelled, RowWritten
      <3>2. CASE MarkFailed(t) \/ MarkCompleted(t)
        BY <1>5, <3>2 DEF MarkFailed, MarkCompleted, MarkOutcome, RowWritten
      <3>3. QED
        BY <1>5, <3>1, <3>2
    <2>2. QED
      BY <1>2, <1>5, <2>1, OutcomeRefines
  <1>6. QED
    BY <1>3, <1>4, <1>5 DEF StartAttempt, Deliver, Attempt, PickupOver, PickupCancelled,
       PickupLive, Lookup, ReconcilePrompt, GenerateImage, StoreOutput, LockSession,
       CommitCheckpoint, SweepFiles, KeepQueue

LEMMA WorkerFaultRefines ==
  ASSUME IndInv, NEW t \in Tasks, WorkerFault(t)
  PROVE  Refines
  <1>1. CASE DatabaseError(t) \/ WorkerCrash(t)
    BY <1>1, KeepRowStatus, KeepSettled DEF DatabaseError, WorkerCrash, Refines
  <1>2. CASE row' = row /\ (lost' = lost \/ lost' = lost \cup {t}) /\ api' = api
    <2>1. TaskStatus' = TaskStatus
      BY <1>2, KeepRowStatus
    <2>2. SettledTasks' = SettledTasks \/ SettledTasks' = SettledTasks \ {t}
      BY <1>2 DEF SettledTasks
    <2>3. QED
      BY <2>1, <2>2 DEF Refines, Lifecycle!LifecycleNext, Lifecycle!Dispute
  <1>3. CASE CommitReplyLost(t) /\ row' # row
    BY <1>2, <1>3, OutcomeRefines DEF CommitReplyLost
  <1>4. QED
    BY <1>1, <1>2, <1>3 DEF WorkerFault, CommitReplyLost, Interrupt

LEMMA UserRefines ==
  ASSUME TypeOK, User
  PROVE  Refines
  <1>1. TaskStatus' = TaskStatus
    BY KeepRowStatus DEF User, AdmitCheckpoint, SelectBase, AbandonSession, KeepQueue
  <1>2. SettledTasks' = SettledTasks
    BY DEF User, AdmitCheckpoint, SelectBase, AbandonSession, KeepQueue, SetApi,
           SettledTasks, TypeOK, QueueTypeOK
  <1>3. QED
    BY <1>1, <1>2 DEF Refines

\* The task API as a whole implements the life cycle it promises its clients.
THEOREM ImplementsLifecycle == Spec => LifecycleSpec
  <1>1. Init => Lifecycle!LifecycleInit
    BY DEF Init, QueueInit, Absent, TaskStatus, SettledTasks, Lifecycle!LifecycleInit
  <1>2. IndInv /\ [Next]_vars => [Lifecycle!LifecycleNext]_(Lifecycle!lifecycleVars)
    <2> SUFFICES ASSUME IndInv, [Next]_vars PROVE Refines
      BY DEF Lifecycle!lifecycleVars, Refines
    <2>1. CASE UNCHANGED vars
      BY <2>1, KeepRowStatus, KeepSettled DEF vars, queueVars, Refines
    <2>2. CASE User
      BY <2>2, UserRefines DEF IndInv
    <2>3. ASSUME NEW t \in Tasks, Service(t) \/ QueueSide(t) PROVE Refines
      BY <2>3, ServeRefines
      DEF Service, QueueSide, Serve, RowMatchesRequest, IndInv, TypeOK, TaskInv, StepAgrees
    <2>4. QED
      BY <2>1, <2>2, <2>3, AttemptRefines, WorkerFaultRefines DEF Next
  <1>3. QED
    BY <1>1, <1>2, Invariance, PTL DEF Spec, LifecycleSpec, Lifecycle!LifecycleSpec
=============================================================================
