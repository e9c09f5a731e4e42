--------------------------- MODULE TaskQueue_proofs ---------------------------
(***************************************************************************)
(* Lemmas about the task rows and the queue that the proofs about the job  *)
(* modules share: types, what an outcome changes of a row, and which step  *)
(* of the task API's life cycle a write amounts to; and what the life      *)
(* cycle that every job implements is worth to a client.                   *)
(***************************************************************************)
EXTENDS TaskQueue, TLAPS

\* The repository functions map rows to rows.
LEMMA RowOperators ==
  ASSUME NEW r \in Row
  PROVE  /\ Claimed(r) \in Row
         /\ Completed(r) \in Row
         /\ Failed(r) \in Row
         /\ Cancelled(r) \in Row
         /\ CancelRequested(r) \in Row
  BY DEF Row, Claimed, Completed, Failed, Cancelled, CancelRequested, Terminal

\* create_task's row, and the row that is not there.
LEMMA RowConstants == Absent \in Row /\ Inserted \in Row
  BY DEF Row, Absent, Inserted, Terminal

\* What an outcome written to a row changes of the columns the invariants read.
LEMMA OutcomeColumns ==
  ASSUME NEW r \in Row
  PROVE  /\ Completed(r).status = IF r.status = "absent" THEN "absent" ELSE "completed"
         /\ r.status # "absent" => Completed(r).result
         /\ r.status = "absent" => Completed(r) = r /\ Failed(r) = r /\ Cancelled(r) = r
         /\ Failed(r).status = IF r.status = "absent" THEN "absent" ELSE "failed"
         /\ Failed(r).result = r.result
         /\ r.status # "absent" => Failed(r).error
         /\ r.status # "absent" /\ CheckMutex(Failed(r)) => ~Failed(r).result
         /\ r.status # "absent" /\ CheckMutex(Completed(r)) => ~r.error
         /\ Cancelled(r).status = IF r.status = "absent" THEN "absent" ELSE "cancelled"
         /\ Cancelled(r).result = r.result
  BY DEF Row, Completed, Failed, Cancelled, CheckMutex, Terminal

LEMMA FaultType ==
  ASSUME NEW kind, faults \in 0..MaxFaults, Fault(kind)
  PROVE  faults' \in 0..MaxFaults
  BY TaskQueueAssumption DEF Fault

LEMMA JobType ==
  ASSUME job \in [Tasks -> JobStates], NEW t \in Tasks, JobReturns(t) \/ JobRaises(t)
  PROVE  job' \in [Tasks -> JobStates]
  BY DEF JobReturns, JobRaises, SetJob, JobStates

LEMMA QueueInitType == QueueInit => QueueTypeOK
  BY RowConstants, TaskQueueAssumption DEF QueueInit, QueueTypeOK, ApiStates, JobStates

\* The service's side of a task.
Serve(t) ==
  \/ InsertTask(t) \/ EnqueueJob(t) \/ RejectTask(t)
  \/ EnqueueFails(t) \/ EnqueueReplyLost(t) \/ ApiCrash(t)
  \/ CancelTask(t) \/ GiveUp(t) \/ CleanupTerminalTask(t)

LEMMA ServeType ==
  ASSUME QueueTypeOK, NEW t \in Tasks, Serve(t)
  PROVE  QueueTypeOK'
  <1> USE DEF QueueTypeOK
  <1>1. CASE InsertTask(t)
    BY <1>1, RowConstants DEF InsertTask, SetRow, SetApi, ApiStates
  <1>2. CASE EnqueueJob(t)
    BY <1>2 DEF EnqueueJob, SetJob, SetApi, ApiStates, JobStates
  <1>3. CASE RejectTask(t)
    <2>1. row' \in [Tasks -> Row]
      BY <1>3, RowOperators DEF RejectTask, SetRow
    <2>2. QED
      BY <2>1, <1>3 DEF RejectTask, SetApi, ApiStates
  <1>4. CASE EnqueueFails(t)
    BY <1>4, FaultType DEF EnqueueFails, SetApi, ApiStates
  <1>5. CASE EnqueueReplyLost(t)
    BY <1>5, FaultType DEF EnqueueReplyLost, SetApi, SetJob, ApiStates, JobStates
  <1>6. CASE ApiCrash(t)
    BY <1>6, FaultType DEF ApiCrash, SetApi, ApiStates
  <1>7. CASE CancelTask(t)
    <2>1. row' \in [Tasks -> Row]
      BY <1>7, RowOperators DEF CancelTask, SetRow
    <2>2. QED
      BY <2>1, <1>7 DEF CancelTask, SetJob, JobStates
  <1>8. CASE GiveUp(t)
    BY <1>8 DEF GiveUp, SetJob, JobStates
  <1>9. CASE CleanupTerminalTask(t)
    BY <1>9, RowConstants DEF CleanupTerminalTask, SetRow
  <1>10. QED
    BY <1>1, <1>2, <1>3, <1>4, <1>5, <1>6, <1>7, <1>8, <1>9 DEF Serve

-----------------------------------------------------------------------------
(* The task API's life cycle.  Every step changes the status of one task   *)
(* at most.                                                                *)

\* A step of the life cycle, or none.
Refines == Lifecycle!LifecycleNext \/ (TaskStatus' = TaskStatus /\ SettledTasks' = SettledTasks)

LEMMA SetRowStatus ==
  ASSUME QueueTypeOK, NEW t \in Tasks, NEW r \in Row, SetRow(t, r), NEW s, s = r.status
  PROVE  Lifecycle!Becomes(t, s)
  BY DEF QueueTypeOK, SetRow, TaskStatus, Lifecycle!Becomes

LEMMA KeepRowStatus ==
  ASSUME row' = row
  PROVE  TaskStatus' = TaskStatus
  BY DEF TaskStatus

LEMMA KeepSettled ==
  ASSUME api' = api, lost' = lost
  PROVE  SettledTasks' = SettledTasks
  BY DEF SettledTasks

LEMMA StatusOfTask == \A t \in Tasks : TaskStatus[t] = row[t].status
  BY DEF TaskStatus

\* A worker's write of failed or cancelled over a task that is not finished, or that the
\* client may not rely on; with its reply lost, or not.
LEMMA FailureRefines ==
  ASSUME QueueTypeOK, NEW t \in Tasks, NEW r \in Row, SetRow(t, r), api' = api,
         r.status \in {"failed", "cancelled"},
         row[t].status \notin {"absent", "completed"},
         \/ lost' = lost \cup {t}
         \/ lost' = lost /\ (t \notin SettledTasks \/ row[t].status = "running")
  PROVE  Refines
  <1>1. Lifecycle!Becomes(t, r.status)
    BY SetRowStatus
  <1>2. row[t].status \in {"queued", "running", "failed", "cancelled"}
    BY DEF QueueTypeOK, Row, Terminal
  <1>3. CASE lost' = lost \cup {t}
    <2>1. SettledTasks' = SettledTasks \ {t}
      BY <1>3 DEF SettledTasks
    <2>2. QED
      BY <1>1, <1>2, <2>1, StatusOfTask
      DEF Refines, Lifecycle!LifecycleNext, Lifecycle!Dispute, Lifecycle!Terminal
  <1>4. CASE lost' = lost /\ (t \notin SettledTasks \/ row[t].status = "running")
    <2>1. SettledTasks' = SettledTasks
      BY <1>4, KeepSettled
    <2>2. Lifecycle!Override(t) \/ Lifecycle!Finish(t)
      BY <1>1, <1>2, <1>4, <2>1, StatusOfTask
      DEF Lifecycle!Override, Lifecycle!Finish, Lifecycle!Terminal
    <2>3. QED
      BY <2>2 DEF Refines, Lifecycle!LifecycleNext
  <1>5. QED
    BY <1>3, <1>4

\* A worker's write of completed over a running task.
LEMMA CompletionRefines ==
  ASSUME QueueTypeOK, NEW t \in Tasks, SetRow(t, Completed(row[t])), api' = api,
         row[t].status = "running",
         lost' = lost \/ lost' = lost \cup {t}
  PROVE  Refines
  <1>1. Completed(row[t]) \in Row /\ Completed(row[t]).status = "completed"
    <2>1. row[t] \in Row
      BY DEF QueueTypeOK
    <2>2. QED
      BY <2>1, OutcomeColumns, RowOperators
  <1>2. Lifecycle!Becomes(t, "completed")
    BY <1>1, SetRowStatus
  <1>3. SettledTasks' = SettledTasks \/ SettledTasks' = SettledTasks \ {t}
    <2>1. CASE lost' = lost
      BY <2>1, KeepSettled
    <2>2. CASE lost' = lost \cup {t}
      BY <2>2 DEF SettledTasks
    <2>3. QED
      BY <2>1, <2>2
  <1>4. Lifecycle!Finish(t) \/ Lifecycle!Dispute(t)
    BY <1>2, <1>3, StatusOfTask DEF Lifecycle!Finish, Lifecycle!Dispute, Lifecycle!Terminal
  <1>5. QED
    BY <1>4 DEF Refines, Lifecycle!LifecycleNext

\* transition_queued_to_running.
LEMMA ClaimRefines ==
  ASSUME QueueTypeOK, NEW t \in Tasks, Claimable(row[t]), SetRow(t, Claimed(row[t])),
         api' = api, lost' = lost
  PROVE  Refines
  <1>1. Claimed(row[t]) \in Row /\ Claimed(row[t]).status = "running"
    BY RowOperators DEF QueueTypeOK, Claimed, Row
  <1>2. Lifecycle!Becomes(t, "running")
    BY <1>1, SetRowStatus
  <1>3. TaskStatus[t] = "queued" /\ SettledTasks' = SettledTasks
    BY StatusOfTask, KeepSettled DEF Claimable
  <1>4. QED
    BY <1>2, <1>3 DEF Refines, Lifecycle!LifecycleNext, Lifecycle!Start

\* What the service relies on when it writes the row.
RowMatchesRequest(t) ==
  /\ api[t] \in {"idle", "admitted"} => row[t].status = "absent"
  /\ api[t] = "inserted" => row[t].status # "absent"
  /\ row[t].result <=> row[t].status = "completed"

LEMMA ServeRefines ==
  ASSUME QueueTypeOK, NEW t \in Tasks, RowMatchesRequest(t), Serve(t)
  PROVE  Refines
  <1>0. row[t] \in Row
    BY DEF QueueTypeOK
  <1>1. CASE InsertTask(t)
    <2>1. Lifecycle!Becomes(t, "queued")
      BY <1>1, RowConstants, SetRowStatus DEF InsertTask, Inserted, Absent
    <2>2. TaskStatus[t] = "absent"
      BY <1>1, StatusOfTask DEF InsertTask, RowMatchesRequest
    <2>3. SettledTasks' = SettledTasks
      BY <1>1 DEF InsertTask, SetApi, SettledTasks, QueueTypeOK
    <2>4. QED
      BY <2>1, <2>2, <2>3 DEF Refines, Lifecycle!LifecycleNext, Lifecycle!Create
  <1>2. CASE EnqueueJob(t)
    <2>1. TaskStatus' = TaskStatus /\ TaskStatus[t] # "absent"
      BY <1>2, KeepRowStatus, StatusOfTask DEF EnqueueJob, RowMatchesRequest
    <2>2. SettledTasks' = SettledTasks \cup {t} \/ SettledTasks' = SettledTasks
      BY <1>2 DEF EnqueueJob, SetApi, SettledTasks, QueueTypeOK
    <2>3. QED
      BY <2>1, <2>2 DEF Refines, Lifecycle!LifecycleNext, Lifecycle!Return
  <1>3. CASE RejectTask(t)
    <2>1. SettledTasks' = SettledTasks /\ t \notin SettledTasks
      BY <1>3 DEF RejectTask, SetApi, SettledTasks, QueueTypeOK
    <2>2. CASE row' = row
      BY <2>1, <2>2, KeepRowStatus DEF Refines
    <2>3. CASE row' # row
      <3>1. SetRow(t, Failed(row[t])) /\ CheckMutex(Failed(row[t])) /\ Failed(row[t]) # row[t]
        BY <1>3, <2>3 DEF RejectTask, SetRow, QueueTypeOK
      <3>2. row[t].status # "absent"
        BY <1>0, <3>1, OutcomeColumns
      <3>3. row[t].status \in {"queued", "running", "failed", "cancelled"}
        BY <1>0, <3>1, <3>2, OutcomeColumns DEF RowMatchesRequest, Row, Terminal
      <3>4. Lifecycle!Becomes(t, "failed")
        <4>1. Failed(row[t]) \in Row /\ Failed(row[t]).status = "failed"
          BY <1>0, <3>2, OutcomeColumns, RowOperators
        <4>2. QED
          BY <3>1, <4>1, SetRowStatus
      <3>5. QED
        BY <2>1, <3>3, <3>4, StatusOfTask
        DEF Refines, Lifecycle!LifecycleNext, Lifecycle!Override
    <2>4. QED
      BY <2>2, <2>3
  <1>4. CASE EnqueueFails(t) \/ EnqueueReplyLost(t) \/ ApiCrash(t)
    <2>1. TaskStatus' = TaskStatus
      BY <1>4, KeepRowStatus DEF EnqueueFails, EnqueueReplyLost, ApiCrash
    <2>2. SettledTasks' = SettledTasks
      BY <1>4 DEF EnqueueFails, EnqueueReplyLost, ApiCrash, SetApi, SettledTasks, QueueTypeOK
    <2>3. QED
      BY <2>1, <2>2 DEF Refines
  <1>5. CASE CancelTask(t)
    <2>1. SettledTasks' = SettledTasks
      BY <1>5, KeepSettled DEF CancelTask
    <2>2. Lifecycle!Becomes(t, CancelRequested(row[t]).status)
      BY <1>0, <1>5, SetRowStatus, RowOperators DEF CancelTask
    <2>3. CASE row[t].status = "queued"
      <3>1. CancelRequested(row[t]).status = "cancelled"
        BY <1>0, <2>3 DEF CancelRequested, Row
      <3>2. QED
        BY <2>1, <2>2, <2>3, <3>1, StatusOfTask
        DEF Refines, Lifecycle!LifecycleNext, Lifecycle!CancelQueued
    <2>4. CASE row[t].status = "running"
      <3>1. CancelRequested(row[t]).status = TaskStatus[t]
        BY <1>0, <2>4, StatusOfTask DEF CancelRequested, Row
      <3>2. TaskStatus' = TaskStatus
        BY <2>2, <3>1 DEF Lifecycle!Becomes, TaskStatus
      <3>3. QED
        BY <2>1, <3>2 DEF Refines
    <2>5. QED
      BY <1>5, <2>3, <2>4 DEF CancelTask
  <1>6. CASE GiveUp(t)
    BY <1>6, KeepRowStatus, KeepSettled DEF GiveUp, Refines
  <1>7. CASE CleanupTerminalTask(t)
    <2>1. Lifecycle!Becomes(t, "absent") /\ SettledTasks' = SettledTasks
      BY <1>7, SetRowStatus, RowConstants, KeepSettled DEF CleanupTerminalTask, Absent
    <2>2. TaskStatus[t] \in Terminal
      BY <1>7, StatusOfTask DEF CleanupTerminalTask
    <2>3. QED
      BY <2>1, <2>2
      DEF Refines, Lifecycle!LifecycleNext, Lifecycle!Expire, Lifecycle!Terminal, Terminal
  <1>8. QED
    BY <1>1, <1>2, <1>3, <1>4, <1>5, <1>6, <1>7 DEF Serve

-----------------------------------------------------------------------------
(* What a client may conclude from the life cycle, and so from whatever    *)
(* implements it.                                                          *)

LEMMA LifecycleStepType ==
  ASSUME Lifecycle!LifecycleTypeOK, Lifecycle!LifecycleNext
  PROVE  Lifecycle!LifecycleTypeOK'
  <1> USE DEF Lifecycle!LifecycleTypeOK, Lifecycle!Live, Lifecycle!Terminal, Lifecycle!Becomes
  <1>1. ASSUME NEW t \in Tasks,
               \/ Lifecycle!Create(t) \/ Lifecycle!Start(t) \/ Lifecycle!Finish(t)
               \/ Lifecycle!CancelQueued(t)
        PROVE  Lifecycle!LifecycleTypeOK'
    BY <1>1 DEF Lifecycle!Create, Lifecycle!Start, Lifecycle!Finish, Lifecycle!CancelQueued
  <1>2. ASSUME NEW t \in Tasks,
               \/ Lifecycle!Override(t) \/ Lifecycle!Expire(t) \/ Lifecycle!Return(t)
               \/ Lifecycle!Dispute(t)
        PROVE  Lifecycle!LifecycleTypeOK'
    BY <1>2 DEF Lifecycle!Override, Lifecycle!Expire, Lifecycle!Return, Lifecycle!Dispute
  <1>3. QED
    BY <1>1, <1>2 DEF Lifecycle!LifecycleNext

\* Statuses are statuses of tasks.
THEOREM LifecycleTypeCorrect == LifecycleSpec => []Lifecycle!LifecycleTypeOK
  <1>1. Lifecycle!LifecycleInit => Lifecycle!LifecycleTypeOK
    BY DEF Lifecycle!LifecycleInit, Lifecycle!LifecycleTypeOK
  <1>2. Lifecycle!LifecycleTypeOK /\ UNCHANGED Lifecycle!lifecycleVars
          => Lifecycle!LifecycleTypeOK'
    BY DEF Lifecycle!LifecycleTypeOK, Lifecycle!lifecycleVars
  <1>3. QED
    BY <1>1, <1>2, LifecycleStepType, PTL DEF LifecycleSpec, Lifecycle!LifecycleSpec

\* What a step of the life cycle does to a task that ended.
LEMMA LifecycleStep ==
  ASSUME Lifecycle!LifecycleTypeOK, Lifecycle!LifecycleNext, NEW t \in Tasks
  PROVE  /\ TaskStatus[t] = "completed" => TaskStatus'[t] \in {"completed", "absent"}
         /\ TaskStatus[t] \in Lifecycle!Terminal /\ t \in SettledTasks /\ t \in SettledTasks'
              => TaskStatus'[t] \in {TaskStatus[t], "absent"}
  <1> USE DEF Lifecycle!LifecycleTypeOK, Lifecycle!Becomes, Lifecycle!Terminal
  <1>1. ASSUME NEW u \in Tasks,
               \/ Lifecycle!Create(u) \/ Lifecycle!Start(u) \/ Lifecycle!Finish(u)
               \/ Lifecycle!CancelQueued(u) \/ Lifecycle!Expire(u) \/ Lifecycle!Return(u)
        PROVE  TaskStatus[t] \in Lifecycle!Terminal
                 => TaskStatus'[t] \in {TaskStatus[t], "absent"}
    BY <1>1 DEF Lifecycle!Create, Lifecycle!Start, Lifecycle!Finish, Lifecycle!CancelQueued,
                Lifecycle!Expire, Lifecycle!Return
  <1>2. ASSUME NEW u \in Tasks, Lifecycle!Override(u)
        PROVE  TaskStatus'[t] # TaskStatus[t]
                 => t \notin SettledTasks /\ TaskStatus[t] # "completed"
    BY <1>2 DEF Lifecycle!Override
  <1>3. ASSUME NEW u \in Tasks, Lifecycle!Dispute(u)
        PROVE  TaskStatus'[t] # TaskStatus[t]
                 => t \notin SettledTasks' /\ TaskStatus[t] # "completed"
    BY <1>3 DEF Lifecycle!Dispute
  <1>4. QED
    BY <1>1, <1>2, <1>3 DEF Lifecycle!LifecycleNext

\* A settled task that ended keeps its status until its row is deleted: a client
\* that polled a terminal status need not poll again.
THEOREM SettledStaysFinal == LifecycleSpec => Lifecycle!SettledIsFinal
  <1>1. Lifecycle!LifecycleTypeOK /\ [Lifecycle!LifecycleNext]_(Lifecycle!lifecycleVars)
          => [\A t \in SettledTasks :
                TaskStatus[t] \in Lifecycle!Terminal /\ t \in SettledTasks'
                  => TaskStatus'[t] \in {TaskStatus[t], "absent"}]_(Lifecycle!lifecycleVars)
    BY LifecycleStep DEF SettledTasks
  <1>2. QED
    BY <1>1, LifecycleTypeCorrect, PTL
    DEF LifecycleSpec, Lifecycle!LifecycleSpec, Lifecycle!SettledIsFinal

\* A completed task stays completed even while its creation is still in doubt: the
\* compensation of a failed enqueue cannot turn a delivered result into a failure.
THEOREM CompletedStaysFinal == LifecycleSpec => Lifecycle!CompletedIsFinal
  <1>1. Lifecycle!LifecycleTypeOK /\ [Lifecycle!LifecycleNext]_(Lifecycle!lifecycleVars)
          => [\A t \in Tasks : TaskStatus[t] = "completed"
                => TaskStatus'[t] \in {"completed", "absent"}]_(Lifecycle!lifecycleVars)
    BY LifecycleStep
  <1>2. QED
    BY <1>1, LifecycleTypeCorrect, PTL
    DEF LifecycleSpec, Lifecycle!LifecycleSpec, Lifecycle!CompletedIsFinal
===============================================================================
