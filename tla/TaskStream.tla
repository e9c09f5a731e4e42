------------------------------ MODULE TaskStream ------------------------------
(***************************************************************************)
(* The event stream of one task, from the handlers that write its row and  *)
(* then publish what they wrote, through the channel of Redis and the      *)
(* generator of GET /v1/tasks/{id}/stream, to the hook useTaskStream of    *)
(* the page.  The row is the one TaskLifecycle describes, for a task whose *)
(* id the page was given; publishing is best effort and comes after the    *)
(* commit, so a crash in between loses the event.                          *)
(*                                                                         *)
(* A listener that has gone may keep its subscription a while: it reads a  *)
(* channel of its own and shows nothing, so it is left out, and so are the *)
(* keepalives.                                                             *)
(***************************************************************************)
EXTENDS TaskLifecycle, Naturals, Sequences

CONSTANTS Watched,    \* the task of this stream
          MaxChannel  \* events a channel holds before the model waits for the reader

ASSUME TaskStreamAssumption == Watched \in Tasks /\ MaxChannel \in Nat \ {0}

VARIABLES ended,   \* the first terminal status the row had, "none" before (history)
          unsent,  \* [Publishers -> what was committed and is still to be published]
          missed,  \* statuses whose publication failed (history)
          server,  \* where the generator is
          channel, \* what it has to send: the snapshot, and events since its subscription
          hook,    \* the controller of the hook
          bearer,  \* the token in the header of the subscription is good
          renewed, \* the token in the store is good
          shown    \* the status the page shows, "aborted" for SSE_ABORTED

streamVars ==
  <<lifecycleVars, ended, unsent, missed, server, channel, hook, bearer, renewed, shown>>

\* A job and a request to cancel write and publish independently.
Publishers == {"worker", "api"}

StreamTypeOK ==
  /\ LifecycleTypeOK
  /\ ended \in Terminal \cup {"none"}
  /\ unsent \in [Publishers -> {"none", "running"} \cup Terminal]
  /\ missed \subseteq {"running"} \cup Terminal
  /\ server \in {"none", "subscribing", "snapshot", "send", "loop"}
  /\ channel \in Seq(Live \cup Terminal) /\ Len(channel) <= MaxChannel + 1
  /\ hook \in {"idle", "connecting", "open", "stuck"}
  /\ bearer \in BOOLEAN /\ renewed \in BOOLEAN
  /\ shown \in {"none", "aborted"} \cup Live \cup Terminal
  \* A generator runs exactly while the hook has its stream open.
  /\ hook = "open" <=> server # "none"
  /\ server \in {"none", "subscribing"} => channel = <<>>

\* The page is given the id of a task while its row is queued.
StreamInit ==
  /\ status = [t \in Tasks |-> IF t = Watched THEN "queued" ELSE "absent"]
  /\ settled = {Watched}
  /\ ended = "none" /\ missed = {}
  /\ unsent = [p \in Publishers |-> "none"]
  /\ server = "none" /\ channel = <<>>
  /\ hook = "idle" /\ shown = "none"
  /\ bearer = TRUE /\ renewed = TRUE

-----------------------------------------------------------------------------
\* What a read of the row, in a session of its own, finds.
TheRow == status[Watched]

KeepRow == UNCHANGED <<lifecycleVars, ended>>
KeepEvents == UNCHANGED <<unsent, missed>>
KeepServer == UNCHANGED <<server, channel>>
KeepPage == UNCHANGED <<hook, bearer, renewed, shown>>

\* What a handler commits is what it goes on to publish.
Owes(p) == unsent[p] = "none" /\ unsent' = [unsent EXCEPT ![p] = status'[Watched]]

\* Variant: the generator subscribes after it has read the row.
ListeningLate == server = "loop"

\* Redis hands a message to those who have subscribed, and to nobody else.
Listening == server \in {"snapshot", "send", "loop"}

Broadcast(s) ==
  /\ Len(channel) < MaxChannel
  /\ channel' = IF Listening THEN Append(channel, s) ELSE channel
  /\ UNCHANGED server

-----------------------------------------------------------------------------
(* The writers of the row.                                                 *)

\* A job claims its task, and ends it.
WorkerWrites ==
  /\ Start(Watched) \/ Finish(Watched)
  /\ ended' = IF status'[Watched] \in Terminal THEN status'[Watched] ELSE ended
  /\ Owes("worker")
  /\ UNCHANGED missed /\ KeepServer /\ KeepPage

\* cancel_task ends a queued task, and flags one that is running.
CancelWrites ==
  /\ \/ CancelQueued(Watched) /\ ended' = "cancelled"
     \/ TheRow = "running" /\ KeepRow
  /\ Owes("api")
  /\ UNCHANGED missed /\ KeepServer /\ KeepPage

\* The ticks of progress_publisher, and the event of a job delivered again.
Progress ==
  /\ TheRow = "running" /\ unsent["worker"] = "none"
  /\ Broadcast("running")
  /\ KeepRow /\ KeepEvents /\ KeepPage

\* publish_task_event, after the commit.
Publish(p) ==
  /\ unsent[p] # "none"
  /\ Broadcast(unsent[p])
  /\ unsent' = [unsent EXCEPT ![p] = "none"]
  /\ KeepRow /\ UNCHANGED missed /\ KeepPage

\* Redis is away, or the process dies first: nobody publishes it again.
PublishFails(p) ==
  /\ unsent[p] # "none"
  /\ missed' = missed \cup {unsent[p]}
  /\ unsent' = [unsent EXCEPT ![p] = "none"]
  /\ KeepRow /\ KeepServer /\ KeepPage

\* The hourly cleanup deletes the row once the task is old.
CleanUp ==
  /\ Expire(Watched)
  /\ UNCHANGED ended /\ KeepEvents /\ KeepServer /\ KeepPage

-----------------------------------------------------------------------------
(* The page and the generator.                                             *)

KeepWriters == KeepRow /\ KeepEvents

\* subscribe does nothing while there is a controller; the header keeps the token of now.
Subscribe ==
  /\ hook = "idle"
  /\ hook' = "connecting" /\ bearer' = renewed
  /\ UNCHANGED <<renewed, shown>> /\ KeepWriters /\ KeepServer

CloseServer == server' = "none" /\ channel' = <<>>

\* handleEvent: a terminal event ends the subscription and stays on the page.
Show(s) ==
  /\ shown' = s
  /\ hook' = IF s \in Terminal \cup {"aborted"} THEN "idle" ELSE hook
  /\ UNCHANGED <<bearer, renewed>>

\* stream_task checks the token and the row before it starts the generator.
Connect ==
  /\ hook = "connecting" /\ bearer /\ TheRow # "absent"
  /\ hook' = "open" /\ server' = "subscribing"
  /\ UNCHANGED <<channel, bearer, renewed, shown>> /\ KeepWriters

\* 401 for the token, 404 for the row, or an error of the server: onopen throws, onerror
\* surfaces SSE_ABORTED as a failed event.
Rejected ==
  /\ hook = "connecting"
  /\ Show("aborted")
  /\ KeepWriters /\ KeepServer

SubscribeChannel ==
  /\ server = "subscribing"
  /\ server' = "snapshot"
  /\ UNCHANGED channel /\ KeepWriters /\ KeepPage

\* The generator reads the row, to send it ahead of every event.
Snapshot ==
  /\ server = "snapshot" /\ TheRow # "absent"
  /\ channel' = <<TheRow>> \o channel
  /\ server' = "send"
  /\ KeepWriters /\ KeepPage

\* The row went between the route's check and the snapshot.  The stream closes without an
\* event; fetchEventSource is done, and the controller stays in the map.
SnapshotGone ==
  /\ server = "snapshot" /\ TheRow = "absent"
  /\ CloseServer /\ hook' = "stuck"
  /\ UNCHANGED <<bearer, renewed, shown>> /\ KeepWriters

\* A frame reaches the page; a terminal one is the last.
Forward ==
  /\ server \in {"send", "loop"} /\ channel # <<>>
  /\ Show(Head(channel))
  /\ IF Head(channel) \in Terminal
     THEN CloseServer
     ELSE channel' = Tail(channel) /\ server' = "loop"
  /\ KeepWriters

\* The connection breaks, with what it carried: fetchEventSource asks again, with the
\* headers it was given.
Break ==
  /\ server # "none"
  /\ CloseServer /\ hook' = "connecting"
  /\ UNCHANGED <<bearer, renewed, shown>> /\ KeepWriters

\* unsubscribe, or the page goes away: abort, forget the event.
Leave ==
  /\ hook # "idle" \/ shown # "none"
  /\ hook' = "idle" /\ shown' = "none" /\ CloseServer
  /\ UNCHANGED <<bearer, renewed>> /\ KeepWriters

\* The token of the store expires, no later than one captured earlier; apiFetch renews it.
TokenAges ==
  /\ \/ bearer' = FALSE /\ renewed' \in {renewed, FALSE}
     \/ renewed' = TRUE /\ UNCHANGED bearer
  /\ UNCHANGED <<hook, shown>> /\ KeepWriters /\ KeepServer

StreamNext ==
  \/ WorkerWrites \/ CancelWrites \/ Progress \/ CleanUp
  \/ \E p \in Publishers : Publish(p) \/ PublishFails(p)
  \/ Subscribe \/ Connect \/ Rejected \/ SubscribeChannel
  \/ Snapshot \/ SnapshotGone \/ Forward \/ Break \/ Leave \/ TokenAges

-----------------------------------------------------------------------------
\* What the page calls an outcome is the outcome; a generator that waits while the task has
\* ended has the event coming, unless its publication failed; and a subscription goes
\* silent only over a row that was deleted.
TerminalReachesPage ==
  /\ shown \in Terminal => shown = ended
  /\ server = "loop" /\ ended # "none"
       => \/ ended \in missed
          \/ \E p \in Publishers : unsent[p] = ended
          \/ \E i \in 1..Len(channel) : channel[i] = ended
  /\ hook = "stuck" => TheRow = "absent" /\ ended # "none"
===============================================================================
