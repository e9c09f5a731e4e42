---------------------------- MODULE TaskLifecycle ----------------------------
(***************************************************************************)
(* What the task API promises to a client, with no worker, queue or        *)
(* storage in sight: the state machine of planning/backend/task-queue.md   *)
(* as the code keeps it.  A task is SETTLED INTO the client's view once    *)
(* create_task has returned its id and no reply of the database or of      *)
(* Redis about it was lost; for such a task a terminal status is final.    *)
(* Before that, the compensation of a failed enqueue may still overwrite   *)
(* it - but never a completed one.                                         *)
(***************************************************************************)
EXTENDS TaskRow

CONSTANT Tasks

VARIABLES status,   \* [Tasks -> status of the row, "absent" when there is none]
          settled   \* tasks whose terminal status is final

lifecycleVars == <<status, settled>>

Live == {"queued", "running"}

LifecycleTypeOK ==
  /\ status \in [Tasks -> {"absent"} \cup Live \cup Terminal]
  /\ settled \subseteq Tasks

LifecycleInit ==
  /\ status = [t \in Tasks |-> "absent"]
  /\ settled = {}

-----------------------------------------------------------------------------
Becomes(t, s) == status' = [status EXCEPT ![t] = s]

Create(t) == status[t] = "absent" /\ Becomes(t, "queued") /\ UNCHANGED settled

Start(t) == status[t] = "queued" /\ Becomes(t, "running") /\ UNCHANGED settled

Finish(t) ==
  /\ status[t] = "running"
  /\ \E s \in Terminal : Becomes(t, s)
  /\ UNCHANGED settled

CancelQueued(t) ==
  status[t] = "queued" /\ Becomes(t, "cancelled") /\ UNCHANGED settled

\* A task the client may not rely on yet can be written over, unless it completed.
Override(t) ==
  /\ t \notin settled
  /\ status[t] \in {"queued", "running", "failed", "cancelled"}
  /\ \E s \in {"failed", "cancelled"} : Becomes(t, s)
  /\ UNCHANGED settled

Expire(t) == status[t] \in Terminal /\ Becomes(t, "absent") /\ UNCHANGED settled

\* create_task returns the id.
Return(t) ==
  /\ status[t] # "absent"
  /\ settled' = settled \cup {t}
  /\ UNCHANGED status

\* A reply about the task is lost, possibly as the task's row is written.
Dispute(t) ==
  /\ settled' = settled \ {t}
  /\ \/ UNCHANGED status
     \/ status[t] = "running" /\ \E s \in Terminal : Becomes(t, s)
     \/ /\ status[t] \in {"queued", "failed", "cancelled"}
        /\ \E s \in {"failed", "cancelled"} : Becomes(t, s)

LifecycleNext ==
  \E t \in Tasks :
    \/ Create(t) \/ Start(t) \/ Finish(t) \/ CancelQueued(t)
    \/ Override(t) \/ Expire(t) \/ Return(t) \/ Dispute(t)

LifecycleSpec == LifecycleInit /\ [][LifecycleNext]_lifecycleVars

-----------------------------------------------------------------------------
\* A settled task that ended keeps its status until the row is deleted.
SettledIsFinal ==
  [][\A t \in settled : status[t] \in Terminal /\ t \in settled'
                          => status'[t] \in {status[t], "absent"}]_lifecycleVars

\* Nothing ever overwrites a completed task, settled or not.
CompletedIsFinal ==
  [][\A t \in Tasks : status[t] = "completed"
                        => status'[t] \in {"completed", "absent"}]_lifecycleVars
=============================================================================
