------------------------------ MODULE CreateTool ------------------------------
(***************************************************************************)
(* The MCP tool character.create: create the character and its session,    *)
(* upload references, enqueue checkpoints one after the other and poll     *)
(* each, select the last as the Base; any exception abandons the session,  *)
(* best effort.  The user and the worker act meanwhile, through the same   *)
(* services.                                                               *)
(*                                                                         *)
(* The worker is what CheckpointJob shows of it: a task ends completed     *)
(* with its checkpoint in a session in progress, failed, cancelled, or     *)
(* never.                                                                  *)
(***************************************************************************)
EXTENDS Uploads

CONSTANT CheckpointCount  \* checkpoint_count of the call

ASSUME CheckpointCountAssumption == CheckpointCount \in Nat \ {0}

VARIABLES task,    \* [Calls -> status of the call's current checkpoint task]
          made,    \* [Calls -> checkpoints asked for so far]
          usable,  \* calls whose session has a committed checkpoint
          chooser, \* [Calls -> who selected the Base] (history)
          excused  \* calls whose abandon could not reach the session (history)

toolVars == <<task, made, usable, chooser, excused>>
vars == <<characterVars, uploadVars, toolVars>>

ToolSteps == {"handle", "upload", "enqueue", "wait", "select", "detail", "abandon"}

TypeOK ==
  /\ CharactersTypeOK
  /\ UploadsTypeOK
  /\ step \in [Calls -> CreationSteps \cup ToolSteps]
  /\ task \in [Calls -> {"none", "active", "completed", "failed", "cancelled"}]
  /\ made \in [Calls -> 0..CheckpointCount]
  /\ usable \subseteq Calls /\ excused \subseteq Calls
  /\ chooser \in [Calls -> {"nobody", "tool", "user"}]

Init ==
  /\ CharactersInit
  /\ UploadsInit
  /\ task = [c \in Calls |-> "none"]
  /\ made = [c \in Calls |-> 0]
  /\ usable = {} /\ excused = {}
  /\ chooser = [c \in Calls |-> "nobody"]

-----------------------------------------------------------------------------
IsTool(c) == kind[c] \in {"tool", "tool_ref"}

KeepCharacters == UNCHANGED <<kind, name, slug, rounds, life, edit, images, arrivals>>
SetTask(c, s) == task' = [task EXCEPT ![c] = s]

\* The recovery handle; from here on every exception abandons the session.
SendHandle(c) ==
  /\ step[c] = "handle"
  /\ Goto(c, IF kind[c] = "tool_ref" THEN "upload" ELSE "enqueue")
  /\ KeepCharacters
  /\ UNCHANGED <<reply, session, faults, lost, uploadVars, toolVars>>

\* _upload_reference_images stores without a gate, or refuses what it was given.
ToolUpload(c) ==
  /\ step[c] = "upload"
  /\ \/ upload[c] = "idle" /\ SetUpload(c, "put") /\ UNCHANGED step
     \/ upload[c] = "idle" /\ Goto(c, "abandon") /\ UNCHANGED upload
     \/ upload[c] = "kept" /\ Goto(c, "enqueue") /\ UNCHANGED upload
     \/ upload[c] = "refused" /\ Goto(c, "abandon") /\ UNCHANGED upload
  /\ KeepCharacters
  /\ UNCHANGED <<reply, session, faults, lost, media, blobs, uploaded, strays, unsure, toolVars>>

\* enqueue_checkpoint; a task that Redis refuses is failed by create_task.
EnqueueCheckpoint(c) ==
  /\ step[c] = "enqueue"
  /\ \/ /\ Writable(c, "reference")
        /\ SetTask(c, "active")
        /\ made' = [made EXCEPT ![c] = @ + 1]
        /\ Goto(c, "wait")
        /\ UNCHANGED faults
     \/ ~Writable(c, "reference") /\ Goto(c, "abandon") /\ UNCHANGED <<task, made, faults>>
     \/ /\ Writable(c, "reference")
        /\ Fault("send")
        /\ SetTask(c, "failed")
        /\ Goto(c, "abandon")
        /\ UNCHANGED made
  /\ KeepCharacters
  /\ UNCHANGED <<reply, session, lost, uploadVars, usable, chooser, excused>>

\* _wait_for_checkpoint_task: the deadline counts only for a task still under way.
PollTask(c) ==
  /\ step[c] = "wait"
  /\ Goto(c, IF task[c] # "completed" THEN "abandon"
             ELSE IF made[c] < CheckpointCount THEN "enqueue" ELSE "select")
  /\ KeepCharacters
  /\ UNCHANGED <<reply, session, faults, lost, uploadVars, toolVars>>

\* select_base under the lock of the session row; its commit may fail, or only seem to.
SelectBase(c) ==
  /\ step[c] = "select"
  /\ IF Writable(c, "reference")
     THEN \/ /\ session' = [session EXCEPT ![c] = "completed"]
             /\ chooser' = [chooser EXCEPT ![c] = "tool"]
             /\ \/ Goto(c, "detail") /\ UNCHANGED <<faults, lost>>
                \/ Fault("lost_commit") /\ Goto(c, "abandon") /\ lost' = lost \cup {c}
          \/ Fault("db") /\ Goto(c, "abandon") /\ UNCHANGED <<session, chooser, lost>>
     ELSE Goto(c, "abandon") /\ UNCHANGED <<session, chooser, faults, lost>>
  /\ KeepCharacters
  /\ UNCHANGED <<reply, uploadVars, task, made, usable, excused>>

ReturnDetail(c) ==
  /\ step[c] = "detail"
  /\ Answer(c, "ok")
  /\ KeepCharacters
  /\ UNCHANGED <<session, faults, lost, uploadVars, toolVars>>

\* Variant: only an AgentErrorException abandons the session.
ToolFailsUnhandled(c) ==
  /\ step[c] \in ToolSteps \ {"abandon"}
  /\ upload[c] \notin {"put", "insert", "sweep"}
  /\ Fault("send")
  /\ Answer(c, "error")
  /\ lost' = IF step[c] = "detail" THEN lost \cup {c} ELSE lost
  /\ KeepCharacters
  /\ UNCHANGED <<session, uploadVars, toolVars>>

\* A progress send, a query or a DTO raises.
ToolFails(c) ==
  /\ step[c] \in ToolSteps \ {"abandon"}
  /\ step[c] = "upload" => upload[c] \notin {"put", "insert", "sweep"}
  /\ Fault("send")
  /\ Goto(c, "abandon")
  /\ lost' = IF step[c] = "detail" THEN lost \cup {c} ELSE lost
  /\ KeepCharacters
  /\ UNCHANGED <<reply, session, uploadVars, toolVars>>

\* Variant: abandon whatever the session is.
AbandonBlindly(c) ==
  /\ step[c] = "abandon"
  /\ Answer(c, "error")
  /\ session' = [session EXCEPT ![c] = "abandoned"]
  /\ KeepCharacters
  /\ UNCHANGED <<faults, excused, lost, uploadVars, task, made, usable, chooser>>

\* _abandon_session_quietly; a deleted character hides its session from it.
AbandonQuietly(c) ==
  /\ step[c] = "abandon"
  /\ Answer(c, "error")
  /\ \/ /\ Live(c)
        /\ session' = IF session[c] = "in_progress" THEN [session EXCEPT ![c] = "abandoned"] ELSE session
        /\ UNCHANGED <<faults, excused>>
     \/ /\ \/ ~Live(c) /\ UNCHANGED faults
           \/ Live(c) /\ Fault("db")
        /\ excused' = excused \cup {c}
        /\ UNCHANGED session
  /\ KeepCharacters
  /\ UNCHANGED <<lost, uploadVars, task, made, usable, chooser>>

\* The client goes away and the tool is cancelled, which `except Exception` does not
\* catch, or the process dies.  Only an upload past its put cleans up.
ToolCut(c) ==
  /\ step[c] \in ToolSteps
  /\ Answer(c, "cut")
  /\ \/ /\ Fault("disconnect")
        /\ IF step[c] = "upload" /\ upload[c] \in {"put", "insert"}
           THEN SetUpload(c, IF upload[c] = "put" THEN "refused" ELSE "sweep")
           ELSE UNCHANGED upload
        /\ UNCHANGED <<media, blobs, uploaded, strays, unsure>>
     \/ Fault("crash") /\ IF step[c] = "upload" THEN UploadStops(c) ELSE UNCHANGED uploadVars
  /\ KeepCharacters
  /\ UNCHANGED <<session, lost, toolVars>>

-----------------------------------------------------------------------------
(* The worker and the user.                                                *)

\* The checkpoint commits under the session lock; otherwise the task is cancelled.
TaskEnds(c) ==
  /\ task[c] = "active"
  /\ \/ session[c] = "in_progress" /\ SetTask(c, "completed") /\ usable' = usable \cup {c}
     \/ SetTask(c, "failed") /\ UNCHANGED usable
     \/ SetTask(c, "cancelled") /\ UNCHANGED usable
  /\ KeepCharacters
  /\ UNCHANGED <<step, reply, session, faults, lost, uploadVars, made, chooser, excused>>

UserEndsSession(c) ==
  /\ Writable(c, "reference")
  /\ \/ session' = [session EXCEPT ![c] = "abandoned"] /\ UNCHANGED chooser
     \/ /\ c \in usable \/ kind[c] = "fork"
        /\ session' = [session EXCEPT ![c] = "completed"]
        /\ chooser' = [chooser EXCEPT ![c] = "user"]
  /\ KeepCharacters
  /\ UNCHANGED <<step, reply, faults, lost, uploadVars, task, made, usable, excused>>

UserUploads(c) ==
  /\ c \in Uploaders /\ ~IsTool(c)
  /\ \E m \in {"reference", "mask"} : BeginUpload(c, m)
  /\ KeepCharacters
  /\ UNCHANGED <<step, reply, session, lost, toolVars>>

UploadRuns(c) ==
  /\ UploadStep(c) \/ (~IsTool(c) /\ UploadCrash(c))
  /\ KeepCharacters
  /\ UNCHANGED <<step, reply, session, lost, toolVars>>

-----------------------------------------------------------------------------
Tool(c) ==
  \/ SendHandle(c) \/ ToolUpload(c) \/ EnqueueCheckpoint(c) \/ PollTask(c)
  \/ SelectBase(c) \/ ReturnDetail(c) \/ AbandonQuietly(c)

ToolFault(c) == ToolFails(c) \/ ToolCut(c)

Others(c) == TaskEnds(c) \/ UserEndsSession(c) \/ UserUploads(c) \/ UploadRuns(c)

CharacterSide(c) == (Create(c) \/ Edit(c)) /\ UNCHANGED <<uploadVars, toolVars>>

Next == \E c \in Calls : CharacterSide(c) \/ Tool(c) \/ ToolFault(c) \/ Others(c)

Spec == Init /\ [][Next]_vars

-----------------------------------------------------------------------------
\* character.create tells the truth: an ok answer has its Base, an error answer neither
\* a Base the tool selected, unless that answer was lost, nor a session in progress,
\* unless the abandon could not reach it ("a failed run leaves no in-progress session
\* behind", mcp/tools/character.py).
ToolAnswerTrue ==
  \A c \in Calls : IsTool(c) =>
    /\ reply[c] = "ok" => session[c] = "completed" /\ chooser[c] = "tool"
    /\ reply[c] = "error" /\ c \notin lost => chooser[c] # "tool"
    /\ reply[c] = "error" /\ c \notin lost \cup excused => session[c] # "in_progress"

\* A Base is the end of its session: whoever selected it, no abandon of a failed tool
\* and no user takes it back.
BaseEndsSession ==
  \A c \in Calls : chooser[c] # "nobody" <=> session[c] = "completed"
=============================================================================
