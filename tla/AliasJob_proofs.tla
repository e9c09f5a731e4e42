---------------------------- MODULE AliasJob_proofs ----------------------------
(***************************************************************************)
(* Proofs about AliasJob, for any number of tasks, names, tries and        *)
(* faults: types, unique names, finality of a deletion, agreement of       *)
(* aliases, files and task rows, and the life cycle the task API promises. *)
(***************************************************************************)
EXTENDS AliasJob, TaskQueue_proofs

-----------------------------------------------------------------------------
(* Type correctness.                                                       *)

LEMMA InitType == Init => TypeOK
  BY QueueInitType DEF Init, TypeOK

LEMMA TaskSideType ==
  ASSUME TypeOK, NEW t \in Tasks, TaskSide(t)
  PROVE  TypeOK'
  <1>1. QueueTypeOK'
    BY ServeType DEF TypeOK, TaskSide, Serve
  <1>2. QED
    BY <1>1 DEF TypeOK, TaskSide, jobVars

LEMMA UserType ==
  ASSUME TypeOK, NEW t \in Tasks, User(t)
  PROVE  TypeOK'
  <1> USE DEF TypeOK, QueueTypeOK, KeepQueue
  <1>1. CASE DeleteAlias(t)
    BY <1>1 DEF DeleteAlias
  <1>2. ASSUME NEW n \in Names, AdmitAlias(t, n) PROVE TypeOK'
    BY <1>2 DEF AdmitAlias, SetApi, ApiStates
  <1>3. ASSUME NEW n \in Names, RenameAlias(t, n) PROVE TypeOK'
    BY <1>3 DEF RenameAlias
  <1>4. QED
    BY <1>1, <1>2, <1>3 DEF User

\* The steps that leave the task row alone.
LEMMA ControlType ==
  ASSUME TypeOK, NEW t \in Tasks,
         \/ StartAttempt(t) \/ PickupOver(t) \/ PickupCancelled(t) \/ PickupLive(t) \/ Lookup(t)
         \/ ReconcilePrompt(t) \/ EditImage(t) \/ StoreOutput(t) \/ CommitAlias(t) \/ SweepFiles(t)
  PROVE  TypeOK'
  <1> USE DEF TypeOK, QueueTypeOK, KeepQueue, KeepData
  <1>1. pc' \in [Tasks -> Steps \cup {"idle"}]
    BY DEF StartAttempt, PickupOver, PickupCancelled, PickupLive, Lookup, ReconcilePrompt,
           EditImage, Stage, StoreOutput, CommitAlias, SweepFiles, Goto, EndAttempt,
           Steps, Unprotected, Working, Sweeping
  <1>2. CASE StartAttempt(t)
    <2>1. tries' \in [Tasks -> 0..MaxTries]
      BY <1>2, TaskQueueAssumption DEF StartAttempt, Deliver
    <2>2. QED
      BY <1>1, <1>2, <2>1 DEF StartAttempt, Deliver, SetJob, JobStates
  <1>3. CASE PickupOver(t) \/ PickupCancelled(t) \/ PickupLive(t) \/ Lookup(t)
             \/ ReconcilePrompt(t) \/ EditImage(t)
    BY <1>1, <1>3, JobType
    DEF PickupOver, PickupCancelled, PickupLive, Lookup, ReconcilePrompt, EditImage, Stage
  <1>4. CASE StoreOutput(t)
    BY <1>1, <1>4 DEF StoreOutput
  <1>5. CASE CommitAlias(t)
    BY <1>1, <1>5 DEF CommitAlias
  <1>6. CASE SweepFiles(t)
    BY <1>1, <1>6, FaultType DEF SweepFiles
  <1>7. QED
    BY <1>2, <1>3, <1>4, <1>5, <1>6

\* The steps that write it.
LEMMA OutcomeType ==
  ASSUME TypeOK, NEW t \in Tasks,
         Claim(t) \/ MarkCancelled(t) \/ MarkFailed(t) \/ MarkCompleted(t)
  PROVE  TypeOK'
  <1> USE DEF TypeOK, QueueTypeOK, KeepData
  <1>1. row' \in [Tasks -> Row]
    BY RowOperators DEF Claim, MarkCancelled, MarkFailed, MarkCompleted, MarkOutcome, SetRow
  <1>2. pc' \in [Tasks -> Steps \cup {"idle"}]
    BY DEF Claim, MarkCancelled, MarkFailed, MarkCompleted, MarkOutcome, Goto, EndAttempt,
           Steps, Unprotected
  <1>3. job' \in [Tasks -> JobStates]
    BY JobType DEF Claim, MarkCancelled, MarkFailed, MarkCompleted, MarkOutcome
  <1>4. QED
    BY <1>1, <1>2, <1>3 DEF Claim, MarkCancelled, MarkFailed, MarkCompleted, MarkOutcome

\* An exception leaves the attempt at a step, and the job in a state, of the model.
LEMMA ErrorType ==
  ASSUME TypeOK, NEW t \in Tasks, HandleError(t)
  PROVE  /\ pc' \in [Tasks -> Steps \cup {"idle"}]
         /\ job' \in [Tasks -> JobStates]
  <1>1. pc' \in [Tasks -> Steps \cup {"idle"}]
    BY DEF TypeOK, HandleError, Goto, EndAttempt, Steps, Unprotected, Sweeping
  <1>2. job' \in [Tasks -> JobStates]
    BY JobType DEF TypeOK, QueueTypeOK, HandleError
  <1>3. QED
    BY <1>1, <1>2

LEMMA WorkerFaultType ==
  ASSUME TypeOK, NEW t \in Tasks, WorkerFault(t)
  PROVE  TypeOK'
  <1> USE DEF TypeOK, QueueTypeOK
  <1>1. CASE DatabaseError(t)
    BY <1>1, FaultType, ErrorType DEF DatabaseError, KeepData
  <1>2. CASE CommitReplyLost(t)
    <2>1. row' \in [Tasks -> Row]
      BY <1>2, RowOperators DEF CommitReplyLost, RowWritten, SetRow
    <2>2. QED
      BY <1>2, <2>1, FaultType, ErrorType DEF CommitReplyLost
  <1>3. CASE WorkerCrash(t)
    BY <1>3, FaultType DEF WorkerCrash, EndAttempt, Goto, SetJob, JobStates
  <1>4. CASE Interrupt(t)
    <2>1. pc' \in [Tasks -> Steps \cup {"idle"}] /\ job' \in [Tasks -> JobStates]
      BY <1>4 DEF Interrupt, EndAttempt, Goto, SetJob, JobStates
    <2>2. QED
      BY <1>4, <2>1, FaultType DEF Interrupt
  <1>5. QED
    BY <1>1, <1>2, <1>3, <1>4 DEF WorkerFault

LEMMA StepType == TypeOK /\ [Next]_vars => TypeOK'
  <1> SUFFICES ASSUME TypeOK, [Next]_vars PROVE TypeOK'
    OBVIOUS
  <1>1. CASE UNCHANGED vars
    BY <1>1 DEF TypeOK, QueueTypeOK, vars, queueVars, jobVars
  <1>2. CASE Next
    BY <1>2, UserType, TaskSideType, ControlType, OutcomeType, WorkerFaultType
    DEF Next, Attempt
  <1>3. QED
    BY <1>1, <1>2

\* Task rows, requests, jobs, attempts, aliases and files only hold the values the code
\* gives them.
THEOREM TypeCorrect == Spec => []TypeOK
  BY InitType, StepType, PTL DEF Spec

-----------------------------------------------------------------------------
(* Safety.  The inductive invariant says everything about one task at a    *)
(* time; what relates two of them, the names, follows from how a step may  *)
(* change the aliases.                                                     *)

StoreAgrees(t) ==
  /\ Live(t) /\ t \notin lost => t \in files
  /\ t \in files \ litter => alias[t] # Unborn \/ pc[t] \in {"commit"} \cup Sweeping

OutcomeAgrees(t) ==
  /\ row[t].status = "completed" => alias[t] # Unborn
  /\ row[t].status \in {"failed", "cancelled"} /\ t \notin lost => ~Live(t)
  /\ api[t] # "idle" => asked[t] \in Names

TaskInv(t) == StepAgrees(t) /\ StoreAgrees(t) /\ OutcomeAgrees(t)

IndInv == TypeOK /\ \A t \in Tasks : TaskInv(t)

\* A step leaves everything TaskInv says about u alone.
Untouched(u) ==
  /\ row'[u] = row[u] /\ api'[u] = api[u] /\ job'[u] = job[u] /\ pc'[u] = pc[u]
  /\ asked'[u] = asked[u] /\ alias'[u] = alias[u]
  /\ u \in files' <=> u \in files
  /\ u \in litter' <=> u \in litter
  /\ u \in lost' <=> u \in lost

LEMMA UntouchedKeepsInv ==
  ASSUME NEW u \in Tasks, TaskInv(u), Untouched(u)
  PROVE  TaskInv(u)'
  BY DEF TaskInv, StepAgrees, StoreAgrees, OutcomeAgrees, Untouched, Live, Sweeping

LEMMA InitInv == Init => IndInv
  <1> SUFFICES ASSUME Init PROVE IndInv
    OBVIOUS
  <1>1. ASSUME NEW t \in Tasks PROVE TaskInv(t)
    BY AliasAssumption
    DEF Init, QueueInit, Absent, TaskInv, StepAgrees, StoreAgrees, OutcomeAgrees, Live, Sweeping
  <1>2. QED
    BY <1>1, InitType DEF IndInv

\* The steps of a task touch no other task.
LEMMA TaskSideFrame ==
  ASSUME TypeOK, NEW t \in Tasks, TaskSide(t) \/ User(t), NEW u \in Tasks \ {t}
  PROVE  Untouched(u)
  BY DEF TypeOK, QueueTypeOK, Untouched, jobVars, TaskSide, SetRow, SetApi, SetJob,
         InsertTask, EnqueueJob, RejectTask, EnqueueFails, EnqueueReplyLost, ApiCrash,
         CancelTask, GiveUp, CleanupTerminalTask, User, DeleteAlias, AdmitAlias, RenameAlias,
         KeepQueue

LEMMA AttemptFrame ==
  ASSUME TypeOK, NEW t \in Tasks, Attempt(t), NEW u \in Tasks \ {t}
  PROVE  Untouched(u)
  <1> USE DEF TypeOK, QueueTypeOK, Untouched, SetRow, SetJob, Goto, EndAttempt,
              JobReturns, JobRaises, KeepQueue, KeepData
  <1>1. CASE StartAttempt(t) \/ PickupOver(t) \/ PickupCancelled(t) \/ PickupLive(t)
    BY <1>1 DEF StartAttempt, Deliver, PickupOver, PickupCancelled, PickupLive
  <1>2. CASE Claim(t) \/ Lookup(t) \/ ReconcilePrompt(t) \/ EditImage(t)
    BY <1>2 DEF Claim, Lookup, ReconcilePrompt, EditImage, Stage
  <1>3. CASE StoreOutput(t) \/ CommitAlias(t) \/ SweepFiles(t)
    BY <1>3 DEF StoreOutput, CommitAlias, SweepFiles
  <1>4. CASE MarkCancelled(t) \/ MarkFailed(t) \/ MarkCompleted(t)
    BY <1>4 DEF MarkCancelled, MarkFailed, MarkCompleted, MarkOutcome
  <1>5. QED
    BY <1>1, <1>2, <1>3, <1>4 DEF Attempt

LEMMA WorkerFaultFrame ==
  ASSUME TypeOK, NEW t \in Tasks, WorkerFault(t), NEW u \in Tasks \ {t}
  PROVE  Untouched(u)
  <1> USE DEF TypeOK, QueueTypeOK, Untouched, SetRow, SetJob, Goto, EndAttempt,
              JobReturns, JobRaises, KeepData, HandleError
  <1>1. CASE DatabaseError(t) \/ CommitReplyLost(t)
    BY <1>1 DEF DatabaseError, CommitReplyLost
  <1>2. CASE WorkerCrash(t) \/ Interrupt(t)
    BY <1>2 DEF WorkerCrash, Interrupt
  <1>3. QED
    BY <1>1, <1>2 DEF WorkerFault

\* The request: before the job exists there is no attempt and no alias, and afterwards the
\* compensation runs only for a task about which a reply was lost.
LEMMA TaskSideInv ==
  ASSUME TypeOK, NEW t \in Tasks, TaskInv(t), TaskSide(t)
  PROVE  TaskInv(t)'
  <1> USE AliasAssumption DEF TypeOK, QueueTypeOK, TaskInv, StepAgrees, StoreAgrees, OutcomeAgrees,
              jobVars, SetRow, SetApi, SetJob, Live
  <1>1. CASE InsertTask(t)
    BY <1>1 DEF TaskSide, InsertTask, Inserted, Absent
  <1>2. CASE EnqueueJob(t)
    BY <1>2 DEF TaskSide, EnqueueJob
  <1>3. CASE RejectTask(t)
    <2>1. CASE row' = row
      BY <1>3, <2>1 DEF TaskSide, RejectTask
    <2>2. CASE row' # row
      <3>1. row[t] \in Row /\ SetRow(t, Failed(row[t])) /\ CheckMutex(Failed(row[t]))
        BY <1>3, <2>2 DEF RejectTask
      <3>2. row[t].status # "absent"
        BY <2>2, <3>1, OutcomeColumns
      <3>3. row'[t].status = "failed" /\ row'[t].error /\ ~row'[t].result
        BY <3>1, <3>2, OutcomeColumns
      <3>4. QED
        BY <1>3, <3>3 DEF TaskSide, RejectTask, Sweeping
    <2>3. QED
      BY <2>1, <2>2
  <1>4. CASE EnqueueFails(t)
    BY <1>4 DEF TaskSide, EnqueueFails
  <1>5. CASE EnqueueReplyLost(t)
    BY <1>5 DEF TaskSide, EnqueueReplyLost
  <1>6. CASE ApiCrash(t)
    BY <1>6 DEF TaskSide, ApiCrash
  <1>7. CASE CancelTask(t)
    <2>1. /\ row'[t].status = IF row[t].status = "queued" THEN "cancelled" ELSE row[t].status
          /\ row'[t].result = row[t].result /\ row'[t].error = row[t].error
      BY <1>7 DEF CancelTask, CancelRequested, Row
    <2>2. QED
      BY <1>7, <2>1 DEF TaskSide, CancelTask, Sweeping
  <1>8. CASE GiveUp(t)
    BY <1>8 DEF TaskSide, GiveUp
  <1>9. CASE CleanupTerminalTask(t)
    BY <1>9 DEF TaskSide, CleanupTerminalTask, Absent, Terminal, Sweeping
  <1>10. QED
    BY <1>1, <1>2, <1>3, <1>4, <1>5, <1>6, <1>7, <1>8, <1>9 DEF TaskSide

LEMMA UserInv ==
  ASSUME TypeOK, NEW t \in Tasks, TaskInv(t), User(t)
  PROVE  TaskInv(t)'
  <1> USE AliasAssumption DEF TypeOK, QueueTypeOK, TaskInv, StepAgrees, StoreAgrees, OutcomeAgrees,
              KeepQueue, SetApi, Live
  <1>1. CASE DeleteAlias(t)
    BY <1>1 DEF DeleteAlias
  <1>2. ASSUME NEW n \in Names, AdmitAlias(t, n) PROVE TaskInv(t)'
    BY <1>2 DEF AdmitAlias
  <1>3. ASSUME NEW n \in Names, RenameAlias(t, n) PROVE TaskInv(t)'
    BY <1>3 DEF RenameAlias
  <1>4. QED
    BY <1>1, <1>2, <1>3 DEF User

\* Delivery to upload.
LEMMA PickupInv ==
  ASSUME TypeOK, NEW t \in Tasks, TaskInv(t),
         \/ StartAttempt(t) \/ PickupOver(t) \/ PickupCancelled(t) \/ PickupLive(t)
         \/ Claim(t) \/ Lookup(t) \/ ReconcilePrompt(t) \/ EditImage(t) \/ StoreOutput(t)
  PROVE  TaskInv(t)'
  <1> USE AliasAssumption DEF TypeOK, QueueTypeOK, TaskInv, StepAgrees, StoreAgrees, OutcomeAgrees,
              KeepQueue, KeepData, SetRow, SetJob, Goto, EndAttempt, JobReturns, Live, Sweeping
  <1>1. CASE StartAttempt(t)
    BY <1>1 DEF StartAttempt, Deliver
  <1>2. CASE PickupOver(t)
    BY <1>2 DEF PickupOver
  <1>3. CASE PickupCancelled(t)
    BY <1>3 DEF PickupCancelled
  <1>4. CASE PickupLive(t)
    BY <1>4 DEF PickupLive
  <1>5. CASE Claim(t)
    BY <1>5 DEF Claim, Claimable, Claimed, Row
  <1>6. CASE Lookup(t)
    BY <1>6 DEF Lookup
  <1>7. CASE ReconcilePrompt(t) \/ EditImage(t)
    BY <1>7 DEF ReconcilePrompt, EditImage, Stage
  <1>8. CASE StoreOutput(t)
    BY <1>8 DEF StoreOutput
  <1>9. QED
    BY <1>1, <1>2, <1>3, <1>4, <1>5, <1>6, <1>7, <1>8

\* Commit to the last write of the task row.
LEMMA FinishInv ==
  ASSUME TypeOK, NEW t \in Tasks, TaskInv(t),
         \/ CommitAlias(t) \/ SweepFiles(t) \/ MarkCancelled(t) \/ MarkFailed(t)
         \/ MarkCompleted(t)
  PROVE  TaskInv(t)'
  <1> USE AliasAssumption DEF TypeOK, QueueTypeOK, TaskInv, StepAgrees, StoreAgrees, OutcomeAgrees,
              KeepQueue, KeepData, SetRow, SetJob, Goto, EndAttempt, JobReturns, JobRaises,
              Live, Sweeping
  <1>1. CASE CommitAlias(t)
    BY <1>1 DEF CommitAlias, Insertable
  <1>2. CASE SweepFiles(t)
    BY <1>2 DEF SweepFiles
  <1>3. CASE MarkCancelled(t)
    BY <1>3, OutcomeColumns DEF MarkCancelled
  <1>4. CASE MarkFailed(t)
    BY <1>4, OutcomeColumns DEF MarkFailed, MarkOutcome
  <1>5. CASE MarkCompleted(t)
    BY <1>5, OutcomeColumns DEF MarkCompleted, MarkOutcome
  <1>6. QED
    BY <1>1, <1>2, <1>3, <1>4, <1>5

\* Faults: a lost reply excuses what it hides, a crash leaves its file to litter.
LEMMA WorkerFaultInv ==
  ASSUME TypeOK, NEW t \in Tasks, TaskInv(t), WorkerFault(t)
  PROVE  TaskInv(t)'
  <1> USE AliasAssumption DEF TypeOK, QueueTypeOK, TaskInv, StepAgrees, StoreAgrees, OutcomeAgrees,
              KeepData, SetRow, SetJob, Goto, EndAttempt, JobReturns, JobRaises,
              HandleError, Unprotected, Working, Sweeping, Live
  <1>1. CASE DatabaseError(t)
    BY <1>1 DEF DatabaseError
  <1>2. CASE CommitReplyLost(t)
    <2>1. CASE pc[t] = "commit"
      BY <1>2, <2>1 DEF CommitReplyLost, Insertable
    <2>2. CASE pc[t] # "commit"
      BY <1>2, <2>2, OutcomeColumns DEF CommitReplyLost, RowWritten
    <2>3. QED
      BY <2>1, <2>2
  <1>3. CASE WorkerCrash(t)
    BY <1>3 DEF WorkerCrash
  <1>4. CASE Interrupt(t)
    BY <1>4 DEF Interrupt, Insertable, Steps
  <1>5. QED
    BY <1>1, <1>2, <1>3, <1>4 DEF WorkerFault

LEMMA StepInv == IndInv /\ [Next]_vars => IndInv'
  <1> SUFFICES ASSUME IndInv, [Next]_vars PROVE \A u \in Tasks : TaskInv(u)'
    BY StepType DEF IndInv
  <1>1. CASE UNCHANGED vars
    BY <1>1 DEF IndInv, TaskInv, StepAgrees, StoreAgrees, OutcomeAgrees, Live,
                vars, queueVars, jobVars
  <1>2. ASSUME NEW t \in Tasks, User(t) \/ TaskSide(t) \/ Attempt(t) \/ WorkerFault(t)
        PROVE  \A u \in Tasks : TaskInv(u)'
    <2>1. TaskInv(t)'
      BY <1>2, UserInv, TaskSideInv, PickupInv, FinishInv, WorkerFaultInv DEF IndInv, Attempt
    <2>2. \A u \in Tasks \ {t} : Untouched(u)
      BY <1>2, TaskSideFrame, AttemptFrame, WorkerFaultFrame DEF IndInv
    <2>3. QED
      BY <2>1, <2>2, UntouchedKeepsInv DEF IndInv
  <1>3. QED
    BY <1>1, <1>2 DEF Next

LEMMA Invariance == Spec => []IndInv
  BY InitInv, StepInv, PTL DEF Spec

\* The file of a live alias is there, and a file has its alias or an explanation.
THEOREM StoreMatchesAliases == Spec => []FilesMatchAliases
  <1>1. IndInv => FilesMatchAliases
    BY DEF IndInv, TypeOK, TaskInv, StoreAgrees, FilesMatchAliases, LiveAliasHasFile,
           NoOrphanFile
  <1>2. QED
    BY <1>1, Invariance, PTL

\* A task tells the user what became of the alias.
THEOREM TaskTellsTheTruth == Spec => []OutcomeMatchesAlias
  <1>1. IndInv => OutcomeMatchesAlias
    BY DEF IndInv, TaskInv, OutcomeAgrees, OutcomeMatchesAlias
  <1>2. QED
    BY <1>1, Invariance, PTL

\* Row, queue, aliases and store are at every step as the attempt's code assumes, and no
\* attempt pays for an image while an earlier attempt's alias is there.
THEOREM AttemptsAgree == Spec => []AttemptAgrees
  <1>1. IndInv => AttemptAgrees
    BY DEF IndInv, TaskInv, AttemptAgrees
  <1>2. QED
    BY <1>1, Invariance, PTL

-----------------------------------------------------------------------------
(* Names.                                                                  *)

\* How a step may change the aliases: a row that is not deleted gets a name that is free, or
\* a live one is deleted.
AliasStep(t, n) ==
  /\ alias' = [alias EXCEPT ![t] = n]
  /\ \/ n \in Names /\ ~NameTaken(n, t) /\ (Live(t) \/ alias[t] = Unborn)
     \/ n = Deleted /\ Live(t)

LEMMA AliasSteps ==
  ASSUME IndInv, [Next]_vars
  PROVE  alias' = alias \/ \E t \in Tasks : \E n : AliasStep(t, n)
  <1>1. ASSUME NEW t \in Tasks, User(t)
        PROVE  alias' = alias \/ \E n : AliasStep(t, n)
    BY <1>1 DEF User, DeleteAlias, AdmitAlias, RenameAlias, AliasStep
  <1>2. ASSUME NEW t \in Tasks, pc[t] = "commit", Insertable(t),
               alias' = [alias EXCEPT ![t] = asked[t]]
        PROVE  AliasStep(t, asked[t])
    <2>1. asked[t] \in Names
      BY <1>2 DEF IndInv, TaskInv, StepAgrees, OutcomeAgrees
    <2>2. QED
      BY <1>2, <2>1 DEF Insertable, AliasStep
  <1>3. ASSUME NEW t \in Tasks, Attempt(t) \/ WorkerFault(t)
        PROVE  alias' = alias \/ AliasStep(t, asked[t])
    <2>1. alias' = alias \/ (pc[t] = "commit" /\ Insertable(t)
                             /\ alias' = [alias EXCEPT ![t] = asked[t]])
      BY <1>3 DEF Attempt, StartAttempt, PickupOver, PickupCancelled, PickupLive, Claim, Lookup,
             ReconcilePrompt, EditImage, Stage, StoreOutput, CommitAlias, SweepFiles,
             MarkCancelled, MarkFailed, MarkCompleted, MarkOutcome, KeepData,
             WorkerFault, DatabaseError, CommitReplyLost, WorkerCrash, Interrupt
    <2>2. QED
      BY <1>2, <2>1
  <1>4. ASSUME NEW t \in Tasks, TaskSide(t) PROVE alias' = alias
    BY <1>4 DEF TaskSide, jobVars
  <1>5. UNCHANGED vars => alias' = alias
    BY DEF vars, jobVars
  <1>6. QED
    BY <1>1, <1>3, <1>4, <1>5 DEF Next

\* Two live aliases never share a name, whoever creates and renames at the same time.
THEOREM NamesAreUnique == Spec => []UniqueNames
  <1>1. Init => UniqueNames
    BY AliasAssumption DEF Init, UniqueNames, Live
  <1>2. IndInv /\ UniqueNames /\ [Next]_vars => UniqueNames'
    <2> SUFFICES ASSUME IndInv, UniqueNames, [Next]_vars PROVE UniqueNames'
      OBVIOUS
    <2>1. CASE alias' = alias
      BY <2>1 DEF UniqueNames, Live
    <2>2. ASSUME NEW t \in Tasks, NEW n, AliasStep(t, n) PROVE UniqueNames'
      BY <2>2, AliasAssumption DEF AliasStep, UniqueNames, Live, NameTaken, IndInv, TypeOK
    <2>3. QED
      BY <2>1, <2>2, AliasSteps
  <1>3. QED
    BY <1>1, <1>2, Invariance, PTL DEF Spec

\* No retry brings a deleted alias back.
THEOREM DeletionsAreFinal == Spec => DeletionIsFinal
  <1>1. IndInv /\ [Next]_vars => [\A t \in Tasks : alias[t] = Deleted => alias'[t] = Deleted]_vars
    <2> SUFFICES ASSUME IndInv, [Next]_vars, NEW t \in Tasks, alias[t] = Deleted
                 PROVE  alias'[t] = Deleted
      OBVIOUS
    <2>1. ASSUME NEW u \in Tasks, NEW n, AliasStep(u, n) PROVE alias'[t] = Deleted
      BY <2>1, AliasAssumption DEF AliasStep, Live, IndInv, TypeOK
    <2>2. QED
      BY <2>1, AliasSteps
  <1>2. QED
    BY <1>1, Invariance, PTL DEF Spec, DeletionIsFinal

-----------------------------------------------------------------------------
(* The life cycle of the tasks.                                            *)

\* An attempt writes failed or cancelled only over a running task, or over one about
\* which a reply was lost; it never finds its own task completed.
LEMMA WriterKnowsRow ==
  ASSUME IndInv, NEW t \in Tasks,
         pc[t] \in {"cancel", "recancel", "fail", "complete"}, row[t].status # "absent"
  PROVE  /\ row[t].status # "completed"
         /\ t \notin SettledTasks \/ row[t].status = "running"
  BY DEF IndInv, TypeOK, QueueTypeOK, TaskInv, StepAgrees, SettledTasks

\* Each outcome an attempt may write, with the reply lost or not.
LEMMA OutcomeRefines ==
  ASSUME IndInv, NEW t \in Tasks, pc[t] \in {"cancel", "recancel", "fail", "complete"},
         SetRow(t, RowWritten(t)), pc[t] = "complete" => CheckMutex(RowWritten(t)),
         api' = api, lost' = lost \/ lost' = lost \cup {t}
  PROVE  Refines \/ row' = row
  <1>1. TypeOK /\ QueueTypeOK /\ TaskInv(t) /\ row[t] \in Row
    BY DEF IndInv, TypeOK, QueueTypeOK
  <1>2. CASE row[t].status = "absent"
    <2>1. RowWritten(t) = row[t]
      BY <1>1, <1>2, OutcomeColumns DEF RowWritten
    <2>2. QED
      BY <1>1, <2>1 DEF SetRow, QueueTypeOK
  <1>3. CASE row[t].status # "absent" /\ pc[t] = "complete"
    <2>1. SetRow(t, Completed(row[t])) /\ CheckMutex(Completed(row[t]))
      BY <1>3 DEF RowWritten
    <2>2. row[t].status = "running"
      BY <1>1, <1>3, <2>1, OutcomeColumns DEF TaskInv, StepAgrees
    <2>3. QED
      BY <1>1, <2>1, <2>2, CompletionRefines
  <1>4. CASE row[t].status # "absent" /\ pc[t] # "complete"
    <2>1. RowWritten(t) \in Row /\ RowWritten(t).status \in {"failed", "cancelled"}
      <3>1. CASE pc[t] = "fail"
        BY <1>1, <1>4, <3>1, OutcomeColumns, RowOperators DEF RowWritten
      <3>2. CASE pc[t] \in {"cancel", "recancel"}
        BY <1>1, <1>4, <3>2, OutcomeColumns, RowOperators DEF RowWritten
      <3>3. QED
        BY <1>4, <3>1, <3>2
    <2>2. QED
      BY <1>1, <1>4, <2>1, WriterKnowsRow, FailureRefines
  <1>5. QED
    BY <1>2, <1>3, <1>4

LEMMA AttemptRefines ==
  ASSUME IndInv, NEW t \in Tasks, Attempt(t)
  PROVE  Refines
  <1>1. QueueTypeOK
    BY DEF IndInv, TypeOK
  <1>2. api' = api /\ lost' = lost
    BY DEF Attempt, StartAttempt, Deliver, PickupOver, PickupCancelled, PickupLive, Claim, Lookup,
           ReconcilePrompt, EditImage, Stage, StoreOutput, CommitAlias, SweepFiles,
           MarkCancelled, MarkFailed, MarkCompleted, MarkOutcome, KeepQueue
  <1>3. CASE row' = row
    BY <1>2, <1>3, KeepRowStatus, KeepSettled DEF Refines
  <1>4. CASE Claim(t) /\ row' # row
    BY <1>1, <1>2, <1>4, ClaimRefines DEF Claim
  <1>5. CASE (MarkCancelled(t) \/ MarkFailed(t) \/ MarkCompleted(t)) /\ row' # row
    <2>1. /\ pc[t] \in {"cancel", "recancel", "fail", "complete"}
          /\ SetRow(t, RowWritten(t))
          /\ pc[t] = "complete" => CheckMutex(RowWritten(t))
      <3>1. CASE MarkCancelled(t)
        BY <3>1 DEF MarkCancelled, RowWritten
      <3>2. CASE MarkFailed(t) \/ MarkCompleted(t)
        BY <1>5, <3>2 DEF MarkFailed, MarkCompleted, MarkOutcome, RowWritten
      <3>3. QED
        BY <1>5, <3>1, <3>2
    <2>2. QED
      BY <1>2, <1>5, <2>1, OutcomeRefines
  <1>6. QED
    BY <1>3, <1>4, <1>5 DEF Attempt, StartAttempt, Deliver, PickupOver, PickupCancelled,
       PickupLive, Lookup, ReconcilePrompt, EditImage, Stage, StoreOutput, CommitAlias,
       SweepFiles, KeepQueue

LEMMA WorkerFaultRefines ==
  ASSUME IndInv, NEW t \in Tasks, WorkerFault(t)
  PROVE  Refines
  <1>1. CASE DatabaseError(t) \/ WorkerCrash(t)
    BY <1>1, KeepRowStatus, KeepSettled DEF DatabaseError, WorkerCrash, Refines
  <1>2. CASE row' = row /\ (lost' = lost \/ lost' = lost \cup {t}) /\ api' = api
    <2>1. TaskStatus' = TaskStatus
      BY <1>2, KeepRowStatus
    <2>2. SettledTasks' = SettledTasks \/ SettledTasks' = SettledTasks \ {t}
      BY <1>2 DEF SettledTasks
    <2>3. QED
      BY <2>1, <2>2 DEF Refines, Lifecycle!LifecycleNext, Lifecycle!Dispute
  <1>3. CASE CommitReplyLost(t) /\ row' # row
    BY <1>2, <1>3, OutcomeRefines DEF CommitReplyLost
  <1>4. QED
    BY <1>1, <1>2, <1>3 DEF WorkerFault, CommitReplyLost, Interrupt

\* Whatever happens to an alias job, its client sees the life cycle of the task API.
THEOREM ImplementsLifecycle == Spec => LifecycleSpec
  <1>1. Init => Lifecycle!LifecycleInit
    BY DEF Init, QueueInit, Absent, TaskStatus, SettledTasks, Lifecycle!LifecycleInit
  <1>2. IndInv /\ [Next]_vars => [Lifecycle!LifecycleNext]_(Lifecycle!lifecycleVars)
    <2> SUFFICES ASSUME IndInv, [Next]_vars PROVE Refines
      BY DEF Lifecycle!lifecycleVars, Refines
    <2>1. CASE UNCHANGED vars
      BY <2>1, KeepRowStatus, KeepSettled DEF vars, queueVars, Refines
    <2>2. ASSUME NEW t \in Tasks, User(t) PROVE Refines
      <3>1. TaskStatus' = TaskStatus
        BY <2>2, KeepRowStatus DEF User, DeleteAlias, AdmitAlias, RenameAlias, KeepQueue
      <3>2. SettledTasks' = SettledTasks
        BY <2>2 DEF User, DeleteAlias, AdmitAlias, RenameAlias, KeepQueue, SetApi,
               SettledTasks, IndInv, TypeOK, QueueTypeOK
      <3>3. QED
        BY <3>1, <3>2 DEF Refines
    <2>3. ASSUME NEW t \in Tasks, TaskSide(t) PROVE Refines
      BY <2>3, ServeRefines
      DEF TaskSide, Serve, RowMatchesRequest, IndInv, TypeOK, TaskInv, StepAgrees
    <2>4. QED
      BY <2>1, <2>2, <2>3, AttemptRefines, WorkerFaultRefines DEF Next
  <1>3. QED
    BY <1>1, <1>2, Invariance, PTL DEF Spec, LifecycleSpec, Lifecycle!LifecycleSpec
===============================================================================
