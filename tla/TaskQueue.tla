------------------------------ MODULE TaskQueue ------------------------------
(***************************************************************************)
(* The task service and the arq queue, independent of what a job does:     *)
(* create_task inserts the row, commits, and only then enqueues the job;   *)
(* cancel_task runs against the row under a row lock; arq delivers a job   *)
(* at least once, at most MaxTries times, one attempt at a time.  The      *)
(* modules of the individual jobs conjoin these actions with their own     *)
(* state.                                                                  *)
(*                                                                         *)
(* arq is not part of the repository.  It is modelled as the code relies   *)
(* on it: a job whose worker died or shut down is delivered again, a job   *)
(* that timed out is not (arq_worker.py:31-35), a job whose function       *)
(* returned is done, and a job whose function raised is delivered again    *)
(* (create_checkpoint.py:818) unless the fault "drop" is allowed, when     *)
(* arq may also count it as done.                                          *)
(*                                                                         *)
(* Faults are steps of the environment.  FaultKinds says which may happen  *)
(* in an instance, MaxFaults bounds how many.                              *)
(***************************************************************************)
EXTENDS TaskRow, Naturals

CONSTANTS Tasks,       \* task ids; the arq job id is the task id
          MaxTries,    \* WorkerSettings.max_tries
          FaultKinds,  \* kinds of fault that may happen
          MaxFaults    \* bound on the faults of a behaviour

AllFaultKinds ==
  {"enqueue",       \* Redis refuses the job
   "lost_enqueue",  \* Redis takes the job, and the caller sees an error
   "api_crash",     \* the API process dies in the middle of create_task
   "db",            \* a statement or a commit of a worker fails
   "lost_commit",   \* a commit is durable, and the worker sees an error
   "crash",         \* a worker process is killed
   "shutdown",      \* a worker is stopped: CancelledError, delivered again
   "timeout",       \* arq's job_timeout: CancelledError, not delivered again
   "drop",          \* a job that raised is not delivered again
   "storage"}       \* deleting a file fails

ASSUME TaskQueueAssumption ==
  /\ MaxTries \in Nat \ {0}
  /\ MaxFaults \in Nat
  /\ FaultKinds \subseteq AllFaultKinds

VARIABLES row,     \* [Tasks -> Row]: the tasks table
          api,     \* [Tasks -> where create_task is, for the request that owns t]
          job,     \* [Tasks -> state of the arq job]
          tries,   \* [Tasks -> deliveries so far]
          faults,  \* number of faults so far (bounds the model)
          lost     \* tasks about which some reply was lost (history)

queueVars == <<row, api, job, tries, faults, lost>>

ApiStates == {"idle", "admitted", "inserted", "rejected",   \* still running
              "returned", "raised", "crashed"}              \* over
JobStates == {"none", "ready", "active", "gone"}

QueueTypeOK ==
  /\ row \in [Tasks -> Row]
  /\ api \in [Tasks -> ApiStates]
  /\ job \in [Tasks -> JobStates]
  /\ tries \in [Tasks -> 0..MaxTries]
  /\ faults \in 0..MaxFaults
  /\ lost \subseteq Tasks

QueueInit ==
  /\ row = [t \in Tasks |-> Absent]
  /\ api = [t \in Tasks |-> "idle"]
  /\ job = [t \in Tasks |-> "none"]
  /\ tries = [t \in Tasks |-> 0]
  /\ faults = 0
  /\ lost = {}

-----------------------------------------------------------------------------
\* Vocabulary of the actions.
Fault(kind) ==
  /\ kind \in FaultKinds
  /\ faults < MaxFaults
  /\ faults' = faults + 1

SetRow(t, r) == row' = [row EXCEPT ![t] = r]
SetApi(t, a) == api' = [api EXCEPT ![t] = a]
SetJob(t, j) == job' = [job EXCEPT ![t] = j]

\* The job function returned, or raised.
JobReturns(t) == SetJob(t, "gone")
JobRaises(t) ==
  \/ SetJob(t, "ready")
  \/ "drop" \in FaultKinds /\ SetJob(t, "gone")

-----------------------------------------------------------------------------
\* create_task: INSERT and COMMIT first, enqueue afterwards.
InsertTask(t) ==
  /\ api[t] = "admitted"
  /\ SetRow(t, Inserted)
  /\ SetApi(t, "inserted")
  /\ UNCHANGED <<job, tries, faults, lost>>

EnqueueJob(t) ==
  /\ api[t] = "inserted"
  /\ SetJob(t, "ready")
  /\ SetApi(t, "returned")
  /\ UNCHANGED <<row, tries, faults, lost>>

EnqueueFails(t) ==
  /\ api[t] = "inserted"
  /\ Fault("enqueue")
  /\ SetApi(t, "rejected")
  /\ UNCHANGED <<row, job, tries, lost>>

EnqueueReplyLost(t) ==
  /\ api[t] = "inserted"
  /\ Fault("lost_enqueue")
  /\ SetJob(t, "ready")
  /\ SetApi(t, "rejected")
  /\ lost' = lost \cup {t}
  /\ UNCHANGED <<row, tries>>

\* The except branch: mark_failed whatever the row says now.  A row that holds a
\* result by now fails the CHECK: the request ends in an error, the row stays.
RejectTask(t) ==
  /\ api[t] = "rejected"
  /\ SetApi(t, "raised")
  /\ SetRow(t, IF CheckMutex(Failed(row[t])) THEN Failed(row[t]) ELSE row[t])
  /\ UNCHANGED <<job, tries, faults, lost>>

ApiCrash(t) ==
  /\ api[t] \in {"admitted", "inserted", "rejected"}
  /\ Fault("api_crash")
  /\ SetApi(t, "crashed")
  /\ UNCHANGED <<row, job, tries, lost>>

\* The outcomes that change the row; on a terminal row cancel_task only reports.
\* The abort of a queued job is best effort: the job may stay in the queue.
CancelTask(t) ==
  /\ row[t].status \in {"queued", "running"}
  /\ SetRow(t, CancelRequested(row[t]))
  /\ \/ UNCHANGED job
     \/ row[t].status = "queued" /\ job[t] = "ready" /\ SetJob(t, "gone")
  /\ UNCHANGED <<api, tries, faults, lost>>

-----------------------------------------------------------------------------
\* Variant: max_tries is not applied.
DeliverForever(t) ==
  /\ job[t] = "ready"
  /\ SetJob(t, "active")
  /\ tries' = [tries EXCEPT ![t] = @ + 1]
  /\ UNCHANGED <<row, api, faults, lost>>

\* arq's poll loop; the in-progress key keeps a second attempt away.
Deliver(t) ==
  /\ job[t] = "ready"
  /\ tries[t] < MaxTries
  /\ SetJob(t, "active")
  /\ tries' = [tries EXCEPT ![t] = @ + 1]
  /\ UNCHANGED <<row, api, faults, lost>>

GiveUp(t) ==
  /\ job[t] = "ready"
  /\ tries[t] = MaxTries
  /\ SetJob(t, "gone")
  /\ UNCHANGED <<row, api, tries, faults, lost>>

\* The hourly cron deletes rows that ended more than 24 hours ago: longer than
\* any attempt (job_timeout) and any request lives.
CleanupTerminalTask(t) ==
  /\ row[t].status \in Terminal
  /\ job[t] # "active"
  /\ api[t] \in {"returned", "raised", "crashed"}
  /\ SetRow(t, Absent)
  /\ UNCHANGED <<api, job, tries, faults, lost>>

-----------------------------------------------------------------------------
\* What a client can see of a task, and when it may rely on it.
TaskStatus == [t \in Tasks |-> row[t].status]
SettledTasks == {t \in Tasks \ lost : api[t] = "returned"}

Lifecycle == INSTANCE TaskLifecycle WITH status <- TaskStatus, settled <- SettledTasks

\* A client that was given the task id sees the task API's life cycle: create_task,
\* cancel_task, the cleanup and whatever job module adds to them implement TaskLifecycle.
LifecycleSpec == Lifecycle!LifecycleSpec
=============================================================================
