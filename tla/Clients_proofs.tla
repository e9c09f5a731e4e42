---------------------------- MODULE Clients_proofs ----------------------------
(***************************************************************************)
(* Proofs about Clients, part by part: for any number of tasks, tabs,      *)
(* requests, images, batches, sessions, checks, keys and tokens.           *)
(***************************************************************************)
EXTENDS Clients, FiniteSetTheorems, TLAPS

-----------------------------------------------------------------------------
(* The event stream.                                                       *)

Carries(q, x) == \E i \in 1..Len(q) : q[i] = x

LEMMA EmptyCarries == \A x : ~Carries(<<>>, x)
  BY DEF Carries

LEMMA AppendCarries ==
  ASSUME NEW S, NEW q \in Seq(S), NEW y \in S, NEW x
  PROVE  /\ Append(q, y) \in Seq(S) /\ Len(Append(q, y)) = Len(q) + 1
         /\ Carries(Append(q, y), x) <=> Carries(q, x) \/ x = y
  BY DEF Carries

LEMMA PrependCarries ==
  ASSUME NEW S, NEW q \in Seq(S), NEW y \in S, NEW x
  PROVE  /\ <<y>> \o q \in Seq(S) /\ Len(<<y>> \o q) = Len(q) + 1
         /\ Carries(<<y>> \o q, x) <=> Carries(q, x) \/ x = y
  <1> DEFINE p == <<y>> \o q
  <1>1. p \in Seq(S) /\ Len(p) = Len(q) + 1
    OBVIOUS
  <1>2. p[1] = y /\ \A i \in 1..Len(q) : p[i + 1] = q[i]
    OBVIOUS
  <1> HIDE DEF p
  <1>3. ASSUME Carries(q, x) \/ x = y PROVE Carries(p, x)
    <2>1. ASSUME NEW i \in 1..Len(q), q[i] = x PROVE Carries(p, x)
      <3>1. i + 1 \in 1..Len(p) /\ p[i + 1] = x
        BY <1>1, <1>2, <2>1
      <3>2. QED
        BY <3>1 DEF Carries
    <2>2. ASSUME x = y PROVE Carries(p, x)
      <3>1. 1 \in 1..Len(p)
        BY <1>1
      <3>2. QED
        BY <1>2, <2>2, <3>1 DEF Carries
    <2>3. QED
      BY <1>3, <2>1, <2>2 DEF Carries
  <1>4. ASSUME Carries(p, x), x # y PROVE Carries(q, x)
    <2>1. PICK i \in 1..Len(p) : p[i] = x
      BY <1>4 DEF Carries
    <2>2. i - 1 \in 1..Len(q) /\ q[i - 1] = x
      BY <1>1, <1>2, <1>4, <2>1
    <2>3. QED
      BY <2>2 DEF Carries
  <1>5. QED
    BY <1>1, <1>3, <1>4 DEF p

LEMMA TailCarries ==
  ASSUME NEW S, NEW q \in Seq(S), q # <<>>, NEW x
  PROVE  /\ Tail(q) \in Seq(S) /\ Len(Tail(q)) = Len(q) - 1
         /\ Head(q) \in S /\ Carries(q, Head(q))
         /\ Carries(Tail(q), x) => Carries(q, x)
         /\ Carries(q, x) => Carries(Tail(q), x) \/ x = Head(q)
  <1> DEFINE p == Tail(q)
  <1>1. /\ p \in Seq(S) /\ Len(p) = Len(q) - 1 /\ Len(q) >= 1
        /\ Head(q) = q[1] /\ Head(q) \in S
        /\ \A i \in 1..Len(p) : p[i] = q[i + 1]
    OBVIOUS
  <1>2. Carries(q, Head(q))
    BY <1>1 DEF Carries
  <1>3. Carries(p, x) => Carries(q, x)
    BY <1>1 DEF Carries
  <1>4. ASSUME Carries(q, x), x # Head(q) PROVE Carries(p, x)
    <2>1. PICK i \in 1..Len(q) : q[i] = x
      BY <1>4 DEF Carries
    <2>2. i - 1 \in 1..Len(p) /\ p[i - 1] = x
      BY <1>1, <1>4, <2>1
    <2>3. QED
      BY <2>2 DEF Carries
  <1>5. QED
    BY <1>1, <1>2, <1>3, <1>4

Statuses == Live \cup Terminal

LEMMA StatusCases ==
  /\ \A s : s \in Statuses <=> s \in {"queued", "running"} \/ s \in Terminal
  BY DEF Statuses, Live

\* What the type invariant says of the channel.
ChannelOK(q) == q \in Seq(Live \cup Terminal) /\ Len(q) <= MaxChannel + 1

LEMMA ChannelCases ==
  /\ ChannelOK(<<>>)
  /\ \A q : ChannelOK(q) => q \in Seq(Statuses) /\ Len(q) \in Nat
  /\ \A q \in Seq(Statuses) : Len(q) <= MaxChannel + 1 => ChannelOK(q)
  BY TaskStreamAssumption DEF ChannelOK, Statuses

\* The row, what its writers still publish, what is on its way and what the page shows
\* agree on how the task ended, and the outcome is not lost between snapshot and page.
StreamInv ==
  /\ StreamTypeOK
  /\ server = "snapshot" => Len(channel) <= MaxChannel
  /\ TheRow \in Terminal => ended = TheRow
  /\ TheRow \in {"queued", "running"} => ended = "none"
  /\ TheRow = "absent" => ended # "none"
  /\ \A p \in Publishers : unsent[p] \in Terminal => unsent[p] = ended
  /\ \A s \in Terminal : Carries(channel, s) => s = ended
  /\ shown \in Terminal => shown = ended
  /\ server \in {"send", "loop"} /\ ended # "none"
       => \/ ended \in missed
          \/ \E p \in Publishers : unsent[p] = ended
          \/ Carries(channel, ended)
  /\ hook = "stuck" => TheRow = "absent"

LEMMA StreamInitInv == StreamInit => StreamInv
  BY TaskStreamAssumption, EmptyCarries
  DEF StreamInit, StreamInv, StreamTypeOK, LifecycleTypeOK, TheRow, Terminal, Live, Publishers

\* The writers of the row.
LEMMA WritersInv ==
  ASSUME StreamInv, WorkerWrites \/ CancelWrites
  PROVE  StreamInv'
  <1> USE TaskStreamAssumption
      DEF StreamInv, TheRow, Terminal, Live, Publishers, Owes, KeepServer, KeepPage
  <1>1. CASE WorkerWrites
    <2>1. \/ TheRow = "queued" /\ TheRow' = "running" /\ ended' = ended
          \/ TheRow = "running" /\ TheRow' \in Terminal /\ ended' = TheRow'
      BY <1>1 DEF WorkerWrites, Start, Finish, Becomes, StreamTypeOK, LifecycleTypeOK
    <2>2. StreamTypeOK'
      BY <1>1, <2>1
      DEF StreamTypeOK, LifecycleTypeOK, WorkerWrites, Start, Finish, Becomes
    <2>3. unsent["worker"] = "none" /\ unsent' = [unsent EXCEPT !["worker"] = TheRow']
      BY <1>1 DEF WorkerWrites
    <2>4. ended = "none"
      BY <2>1
    <2>5. QED
      BY <1>1, <2>1, <2>2, <2>3, <2>4 DEF WorkerWrites, StreamTypeOK
  <1>2. CASE CancelWrites
    <2>1. \/ TheRow = "queued" /\ TheRow' = "cancelled" /\ ended' = "cancelled"
          \/ TheRow = "running" /\ TheRow' = "running" /\ ended' = ended
      BY <1>2 DEF CancelWrites, CancelQueued, Becomes, StreamTypeOK, LifecycleTypeOK, KeepRow,
                  lifecycleVars
    <2>2. StreamTypeOK'
      BY <1>2, <2>1
      DEF StreamTypeOK, LifecycleTypeOK, CancelWrites, CancelQueued, Becomes, KeepRow,
          lifecycleVars
    <2>3. unsent["api"] = "none" /\ unsent' = [unsent EXCEPT !["api"] = TheRow']
      BY <1>2 DEF CancelWrites
    <2>4. ended = "none"
      BY <2>1
    <2>5. QED
      BY <1>2, <2>1, <2>2, <2>3, <2>4 DEF CancelWrites, StreamTypeOK
  <1>3. QED
    BY <1>1, <1>2

\* What is published reaches a generator that listens, after what it has already.
LEMMA BroadcastInv ==
  ASSUME StreamInv, KeepRow, KeepPage,
         \/ Progress
         \/ \E p \in Publishers : Publish(p)
  PROVE  StreamInv'
  <1> USE DEF KeepRow, KeepPage, lifecycleVars, TheRow
  <1>1. PICK s \in Statuses :
          /\ Broadcast(s)
          /\ s \in Terminal => s = ended
          /\ \/ UNCHANGED <<unsent, missed>>
             \/ /\ UNCHANGED missed
                /\ \E p \in Publishers : unsent[p] = s /\ unsent' = [unsent EXCEPT ![p] = "none"]
    BY DEF Progress, Publish, KeepEvents, StreamInv, StreamTypeOK, Statuses, Live, Terminal
  <1>2. channel \in Seq(Statuses)
    BY DEF StreamInv, StreamTypeOK, Statuses
  <1>3. CASE Listening
    <2>1. /\ channel' = Append(channel, s) /\ server' = server /\ Len(channel) < MaxChannel
          /\ server \in {"snapshot", "send", "loop"}
      BY <1>1, <1>3 DEF Broadcast, Listening
    <2>2. /\ channel' \in Seq(Statuses) /\ Len(channel') = Len(channel) + 1
          /\ \A x : Carries(channel', x) <=> Carries(channel, x) \/ x = s
      BY <1>2, <2>1, AppendCarries
    <2>3. Len(channel) \in Nat
      BY <1>2
    <2>4. StreamTypeOK'
      <3>1. unsent' \in [Publishers -> {"none", "running"} \cup Terminal]
        BY <1>1 DEF StreamInv, StreamTypeOK
      <3>2. missed' = missed
        BY <1>1
      <3>3. Len(channel') <= MaxChannel + 1
        BY <2>1, <2>2, <2>3, TaskStreamAssumption
      <3>4. QED
        BY <2>1, <2>2, <3>1, <3>2, <3>3 DEF StreamInv, StreamTypeOK, LifecycleTypeOK, Statuses
    <2>5. server' = "snapshot" => Len(channel') <= MaxChannel
      BY <2>1, <2>2, <2>3, TaskStreamAssumption
    <2>6. \A p \in Publishers : unsent'[p] \in Terminal => unsent'[p] = ended'
      BY <1>1 DEF StreamInv, StreamTypeOK, Terminal
    <2>7. \A x \in Terminal : Carries(channel', x) => x = ended'
      BY <1>1, <2>2 DEF StreamInv
    <2>8. server' \in {"send", "loop"} /\ ended' # "none"
            => \/ ended' \in missed'
               \/ \E p \in Publishers : unsent'[p] = ended'
               \/ Carries(channel', ended')
      BY <1>1, <2>1, <2>2 DEF StreamInv, StreamTypeOK
    <2>9. QED
      BY <2>4, <2>5, <2>6, <2>7, <2>8 DEF StreamInv
  <1>4. CASE ~Listening
    <2>1. UNCHANGED <<channel, server>> /\ server \notin {"snapshot", "send", "loop"}
      BY <1>1, <1>4 DEF Broadcast, Listening
    <2>2. StreamTypeOK'
      BY <1>1, <2>1 DEF StreamInv, StreamTypeOK, LifecycleTypeOK
    <2>3. \A p \in Publishers : unsent'[p] \in Terminal => unsent'[p] = ended'
      BY <1>1 DEF StreamInv, StreamTypeOK, Terminal
    <2>4. QED
      BY <2>1, <2>2, <2>3 DEF StreamInv
  <1>5. QED
    BY <1>3, <1>4

\* A publication that fails is recorded.
LEMMA PublishFailsInv ==
  ASSUME StreamInv, NEW p \in Publishers, PublishFails(p)
  PROVE  StreamInv'
  <1> USE DEF PublishFails, KeepRow, KeepServer, KeepPage, lifecycleVars, TheRow
  <1>1. StreamTypeOK'
    <2>1. unsent[p] \in {"running"} \cup Terminal
      BY DEF StreamInv, StreamTypeOK
    <2>2. /\ unsent' \in [Publishers -> {"none", "running"} \cup Terminal]
          /\ missed' \subseteq {"running"} \cup Terminal
      BY <2>1 DEF StreamInv, StreamTypeOK
    <2>3. LifecycleTypeOK'
      BY DEF StreamInv, StreamTypeOK, LifecycleTypeOK
    <2>4. QED
      BY <2>2, <2>3 DEF StreamInv, StreamTypeOK
  <1>2. \A q \in Publishers : unsent'[q] \in Terminal => unsent'[q] = ended'
    BY DEF StreamInv, StreamTypeOK, Terminal
  <1>3. server' \in {"send", "loop"} /\ ended' # "none"
          => \/ ended' \in missed'
             \/ \E q \in Publishers : unsent'[q] = ended'
             \/ Carries(channel', ended')
    BY DEF StreamInv, StreamTypeOK
  <1>4. QED
    BY <1>1, <1>2, <1>3 DEF StreamInv

LEMMA CleanUpInv ==
  ASSUME StreamInv, CleanUp
  PROVE  StreamInv'
  <1> USE TaskStreamAssumption
      DEF CleanUp, KeepEvents, KeepServer, KeepPage, Expire, Becomes, TheRow, StreamInv
  <1>1. TheRow \in Terminal /\ TheRow' = "absent"
    BY DEF StreamTypeOK, LifecycleTypeOK
  <1>2. ended # "none"
    BY <1>1 DEF Terminal
  <1>3. StreamTypeOK'
    BY DEF StreamTypeOK, LifecycleTypeOK
  <1>4. QED
    BY <1>1, <1>2, <1>3 DEF Terminal

\* The steps of the page and of the generator that deliver nothing.
LEMMA PageInv ==
  ASSUME StreamInv,
         \/ Subscribe \/ Connect \/ Rejected \/ SubscribeChannel \/ SnapshotGone \/ Break \/ Leave
         \/ TokenAges
  PROVE  StreamInv'
  <1> USE DEF KeepWriters, KeepRow, KeepEvents, KeepServer, KeepPage, CloseServer, lifecycleVars,
              TheRow
  <1>1. UNCHANGED <<status, settled, ended, unsent, missed>>
    BY DEF Subscribe, Connect, Rejected, SubscribeChannel, SnapshotGone, Break, Leave, TokenAges
  <1>2. \/ UNCHANGED channel
        \/ channel' = <<>>
    BY DEF Subscribe, Connect, Rejected, SubscribeChannel, SnapshotGone, Break, Leave, TokenAges
  <1>3. ChannelOK(channel')
    <2>1. ChannelOK(channel)
      BY DEF StreamInv, StreamTypeOK, ChannelOK
    <2>2. QED
      BY <1>2, <2>1, ChannelCases
  <1>4. StreamTypeOK'
    <2>1. /\ hook' \in {"idle", "connecting", "open", "stuck"}
          /\ server' \in {"none", "subscribing", "snapshot", "send", "loop"}
          /\ hook' = "open" <=> server' # "none"
          /\ server' \in {"none", "subscribing"} => channel' = <<>>
      BY DEF StreamInv, StreamTypeOK, Subscribe, Connect, Rejected, Show, SubscribeChannel,
             SnapshotGone, Break, Leave, TokenAges
    <2>2. /\ shown' \in {"none", "aborted"} \cup Live \cup Terminal
          /\ bearer' \in BOOLEAN /\ renewed' \in BOOLEAN
      BY DEF StreamInv, StreamTypeOK, Subscribe, Connect, Rejected, Show, SubscribeChannel,
             SnapshotGone, Break, Leave, TokenAges
    <2>3. QED
      BY <1>1, <1>3, <2>1, <2>2 DEF StreamInv, StreamTypeOK, LifecycleTypeOK, ChannelOK
  <1>5. server' = "snapshot" => Len(channel') <= MaxChannel
    <2>1. server' = "snapshot" /\ server' # server => channel' = <<>>
      BY DEF StreamInv, StreamTypeOK, Subscribe, Connect, Rejected, SubscribeChannel,
             SnapshotGone, Break, Leave, TokenAges
    <2>2. channel' = <<>> => Len(channel') <= MaxChannel
      BY TaskStreamAssumption
    <2>3. QED
      BY <1>2, <2>1, <2>2 DEF StreamInv
  <1>6. \A s \in Terminal : Carries(channel', s) => s = ended'
    BY <1>1, <1>2, EmptyCarries DEF StreamInv
  <1>7. shown' \in {shown, "none", "aborted"}
    BY DEF Subscribe, Connect, Rejected, Show, SubscribeChannel, SnapshotGone, Break, Leave,
           TokenAges
  <1>8. server' \in {"send", "loop"} => UNCHANGED <<server, channel>>
    BY DEF Subscribe, Connect, Rejected, SubscribeChannel, SnapshotGone, Break, Leave, TokenAges
  <1>9. hook' = "stuck" => TheRow = "absent"
    BY DEF StreamInv, Subscribe, Connect, Rejected, Show, SubscribeChannel, SnapshotGone, Break,
           Leave, TokenAges
  <1>10. QED
    BY <1>1, <1>4, <1>5, <1>6, <1>7, <1>8, <1>9 DEF StreamInv, Terminal

LEMMA SnapshotInv ==
  ASSUME StreamInv, Snapshot
  PROVE  StreamInv'
  <1> USE DEF Snapshot, KeepWriters, KeepRow, KeepEvents, KeepPage, lifecycleVars, TheRow
  <1>1. channel \in Seq(Statuses) /\ TheRow \in Statuses
    BY TaskStreamAssumption
    DEF StreamInv, StreamTypeOK, LifecycleTypeOK, Statuses
  <1>2. /\ channel' \in Seq(Statuses) /\ Len(channel') = Len(channel) + 1
        /\ \A x : Carries(channel', x) <=> Carries(channel, x) \/ x = TheRow
    BY <1>1, PrependCarries
  <1>3. StreamTypeOK'
    <2>1. ChannelOK(channel')
      <3>1. Len(channel) <= MaxChannel /\ Len(channel) \in Nat
        BY <1>1 DEF StreamInv
      <3>2. Len(channel') <= MaxChannel + 1
        BY <1>2, <3>1, TaskStreamAssumption
      <3>3. QED
        BY <1>2, <3>2, ChannelCases
    <2>2. QED
      BY <2>1 DEF StreamInv, StreamTypeOK, LifecycleTypeOK, ChannelOK
  <1>4. ended # "none" => TheRow = ended
    BY <1>1, StatusCases DEF StreamInv
  <1>5. QED
    BY <1>2, <1>3, <1>4 DEF StreamInv

LEMMA ForwardInv ==
  ASSUME StreamInv, Forward
  PROVE  StreamInv'
  <1> USE DEF Forward, Show, CloseServer, KeepWriters, KeepRow, KeepEvents, lifecycleVars, TheRow
  <1>1. channel \in Seq(Statuses) /\ channel # <<>>
    BY DEF StreamInv, StreamTypeOK, Statuses, Live
  <1>2. /\ Tail(channel) \in Seq(Statuses) /\ Len(Tail(channel)) = Len(channel) - 1
        /\ Head(channel) \in Statuses /\ Carries(channel, Head(channel))
        /\ \A x : /\ Carries(Tail(channel), x) => Carries(channel, x)
                  /\ Carries(channel, x) => Carries(Tail(channel), x) \/ x = Head(channel)
    BY <1>1, TailCarries
  <1>3. CASE Head(channel) \in Terminal
    <2>1. /\ server' = "none" /\ channel' = <<>> /\ hook' = "idle" /\ shown' = Head(channel)
      BY <1>3
    <2>2. StreamTypeOK'
      <3>1. ChannelOK(channel')
        BY <2>1, ChannelCases
      <3>2. QED
        BY <1>3, <2>1, <3>1 DEF StreamInv, StreamTypeOK, LifecycleTypeOK, ChannelOK
    <2>3. Head(channel) = ended
      BY <1>2, <1>3 DEF StreamInv
    <2>4. QED
      BY <2>1, <2>2, <2>3, EmptyCarries DEF StreamInv
  <1>4. CASE Head(channel) \notin Terminal
    <2>1. /\ server' = "loop" /\ channel' = Tail(channel) /\ hook' = hook
          /\ shown' = Head(channel) /\ Head(channel) \in {"queued", "running"}
      BY <1>2, <1>4, StatusCases
    <2>2. StreamTypeOK'
      <3>1. ChannelOK(channel') /\ server # "none"
        BY <1>1, <1>2, <2>1, ChannelCases, TaskStreamAssumption
        DEF StreamInv, StreamTypeOK, ChannelOK
      <3>2. QED
        BY <1>2, <2>1, <3>1 DEF StreamInv, StreamTypeOK, LifecycleTypeOK, ChannelOK, Live
    <2>3. ended # "none" => ended # Head(channel)
      BY <1>4 DEF StreamInv, StreamTypeOK
    <2>4. QED
      BY <1>2, <1>4, <2>1, <2>2, <2>3 DEF StreamInv
  <1>5. QED
    BY <1>3, <1>4

LEMMA StreamStepInv == StreamInv /\ [StreamNext]_streamVars => StreamInv'
  <1> SUFFICES ASSUME StreamInv, [StreamNext]_streamVars PROVE StreamInv'
    OBVIOUS
  <1>1. CASE UNCHANGED streamVars
    BY <1>1 DEF streamVars, lifecycleVars, StreamInv, StreamTypeOK, LifecycleTypeOK, TheRow
  <1>2. CASE StreamNext
    <2>1. CASE Progress
      BY <2>1, BroadcastInv DEF Progress
    <2>2. ASSUME NEW p \in Publishers, Publish(p) PROVE StreamInv'
      BY <2>2, BroadcastInv DEF Publish
    <2>3. QED
      BY <1>2, <2>1, <2>2, WritersInv, PublishFailsInv, CleanUpInv, PageInv, SnapshotInv,
         ForwardInv DEF StreamNext
  <1>3. QED
    BY <1>1, <1>2

\* In the specification of all four parts the stream makes its own steps or none.
LEMMA StreamInvariance == Spec => []StreamInv
  <1>1. Init => StreamInv
    BY StreamInitInv DEF Init
  <1>2. StreamInv /\ [Next]_vars => StreamInv'
    BY StreamStepInv DEF Next, vars, Streaming, Browsing, Uploading, Authenticating
  <1>3. QED
    BY <1>1, <1>2, PTL DEF Spec

\* What the page calls an outcome is the outcome, and a generator that waits on an ended
\* task has the event coming, unless its publication failed.
THEOREM OutcomeReachesPage == Spec => []TerminalReachesPage
  <1>1. StreamInv => TerminalReachesPage
    BY DEF StreamInv, TerminalReachesPage, Carries
  <1>2. QED
    BY <1>1, StreamInvariance, PTL

-----------------------------------------------------------------------------
(* The reference images of a page.                                         *)

\* An image is in one place only: waiting in one batch, being uploaded, or settled.
ImageInv(i) ==
  /\ item[i] = "ready" => origin[i] = current
  /\ item[i] \in {"ready", "error"} => uploading[i] = "none"
  /\ item[i] = "uploading" => uploading[i] \in {"none", current}
  /\ item[i] = "uploading" /\ i \notin unstarted
       => \/ uploading[i] = current
          \/ \E b \in Batches : i \in batch[b].accepted /\ batch[b].session = current
  /\ current = "gone" => item[i] = "none"
  /\ \A b \in Batches :
       /\ i \in batch[b].todo
            => uploading[i] = "none" /\ item[i] = "none" /\ i \notin batch[b].accepted
       /\ i \in batch[b].accepted => uploading[i] = "none" /\ item[i] \in {"none", "uploading"}
       /\ i \in batch[b].todo \cup batch[b].accepted =>
            \A d \in Batches \ {b} : i \notin batch[d].todo \cup batch[d].accepted

Limit == IsFiniteSet(Items) /\ Cardinality(Items) <= MaxImages

UploadInv == UploadTypeOK /\ Limit /\ \A i \in Images : ImageInv(i)

LEMMA UploadInitInv == UploadInit => UploadInv
  <1> SUFFICES ASSUME UploadInit PROVE UploadInv
    OBVIOUS
  <1> USE ReferenceUploadAssumption DEF UploadInit
  <1>1. current \in Sessions
    OBVIOUS
  <1>2. Items = {} /\ Unsettled = {}
    BY DEF Items, Unsettled
  <1>3. UploadTypeOK
    BY <1>1, <1>2 DEF UploadTypeOK, NoBatch
  <1>4. Limit
    BY <1>2, FS_EmptySet DEF Limit
  <1>5. \A i \in Images : ImageInv(i)
    BY <1>1 DEF ImageInv, NoBatch
  <1>6. QED
    BY <1>3, <1>4, <1>5 DEF UploadInv

\* Fewer items are within the limit too.
LEMMA FewerItems ==
  ASSUME UploadInv, Items' \subseteq Items
  PROVE  Limit'
  <1>1. IsFiniteSet(Items') /\ Cardinality(Items') <= Cardinality(Items)
    BY FS_Subset DEF UploadInv, Limit
  <1>2. Cardinality(Items) \in Nat /\ Cardinality(Items') \in Nat
    BY <1>1, FS_CardinalityType DEF UploadInv, Limit
  <1>3. QED
    BY <1>1, <1>2, ReferenceUploadAssumption DEF UploadInv, Limit

LEMMA AddFilesInv ==
  ASSUME UploadInv, NEW b \in Batches, AddFiles(b)
  PROVE  UploadInv'
  <1> USE DEF UploadInv, AddFiles, KeepItems
  <1>1. PICK files \in SUBSET Images :
          /\ \A i \in files : Unused(i)
          /\ Proceed(b, files, {}, current)
    OBVIOUS
  <1>2. current \in Sessions /\ batch[b] = NoBatch /\ batch \in [Batches ->
          [todo : SUBSET Images, accepted : SUBSET Images, session : Sessions \cup {"none"}]]
    BY DEF UploadTypeOK
  <1>3. /\ uploading' = uploading
        /\ \/ batch' = [batch EXCEPT ![b] = NoBatch]
           \/ batch' = [batch EXCEPT ![b] =
                          [todo |-> files, accepted |-> {}, session |-> current]]
    BY <1>1 DEF Proceed, UploadTypeOK
  <1>4. UploadTypeOK'
    BY <1>2, <1>3 DEF UploadTypeOK, Items, Unsettled, NoBatch
  <1>5. Limit'
    BY FewerItems DEF Items
  <1>6. \A i \in Images : ImageInv(i)'
    BY <1>1, <1>2, <1>3 DEF ImageInv, NoBatch, Unused
  <1>7. QED
    BY <1>4, <1>5, <1>6

\* The batch goes on in the session it was started for: it waits for the next file, or
\* what it accepted starts.
LEMMA ValidatedInv ==
  ASSUME UploadInv, NEW b \in Batches, NEW i \in Images, Validated(b, i)
  PROVE  UploadInv'
  <1> USE DEF UploadInv, Validated, KeepItems
  <1> DEFINE now == batch[b]
             rest == now.todo \ {i}
  <1>1. /\ now \in [todo : SUBSET Images, accepted : SUBSET Images,
                    session : Sessions \cup {"none"}]
        /\ i \in now.todo /\ item[i] = "none" /\ uploading[i] = "none" /\ i \notin now.accepted
        /\ batch \in [Batches -> [todo : SUBSET Images, accepted : SUBSET Images,
                                  session : Sessions \cup {"none"}]]
        /\ uploading \in [Images -> Sessions \cup {"none"}]
        /\ item \in [Images -> {"none", "uploading", "ready", "error"}]
    BY DEF UploadTypeOK, ImageInv
  <1>2. CASE Stale(now.session) /\ UNCHANGED <<item, slots, previews>> /\ Ends(b)
    <2>1. batch' = [batch EXCEPT ![b] = NoBatch] /\ uploading' = uploading
      BY <1>2 DEF Ends
    <2>2. UploadTypeOK'
      BY <1>1, <1>2, <2>1 DEF UploadTypeOK, Items, Unsettled, NoBatch
    <2>3. Limit'
      BY <1>2, FewerItems DEF Items
    <2>4. now.session # current
      BY <1>2 DEF Stale
    <2>5. \A j \in Images : ImageInv(j)'
      BY <1>1, <1>2, <2>1, <2>4 DEF ImageInv, NoBatch
    <2>6. QED
      BY <2>2, <2>3, <2>5
  <1>3. ASSUME ~Stale(now.session), NEW accepted, accepted \in {now.accepted, now.accepted \cup {i}},
               Proceed(b, rest, accepted, now.session),
               \/ accepted = now.accepted /\ UNCHANGED <<item, slots, previews>>
               \/ /\ accepted = now.accepted \cup {i} /\ ~Full(slots)
                  /\ SetItem(i, "uploading") /\ slots' = slots \cup {i}
                  /\ previews' = previews \cup {i}
        PROVE  UploadInv'
    <2>1. now.session = current /\ current' = current /\ current \in Sessions
      BY <1>1, <1>3, ReferenceUploadAssumption DEF Stale, UploadTypeOK
    <2>2. \/ /\ batch' = [batch EXCEPT ![b] = NoBatch]
             /\ uploading' = [j \in Images |-> IF j \in accepted THEN current ELSE uploading[j]]
          \/ /\ batch' = [batch EXCEPT ![b] =
                            [todo |-> rest, accepted |-> accepted, session |-> current]]
             /\ uploading' = uploading
      BY <1>3, <2>1 DEF Proceed
    <2>3. /\ item' \in [Images -> {"none", "uploading", "ready", "error"}]
          /\ \A j \in Images : \/ item'[j] = item[j]
                               \/ j = i /\ i \in accepted /\ item'[j] = "uploading"
      BY <1>1, <1>3 DEF SetItem
    <2>4. UploadTypeOK'
      <3>1. slots' = Items' /\ previews' = Unsettled'
        BY <1>1, <1>3 DEF UploadTypeOK, Items, Unsettled, SetItem
      <3>2. QED
        BY <1>1, <1>3, <2>1, <2>2, <2>3, <3>1 DEF UploadTypeOK, NoBatch
    <2>5. Limit'
      <3>1. CASE UNCHANGED item
        BY <3>1, FewerItems DEF Items
      <3>2. CASE ~Full(slots) /\ SetItem(i, "uploading")
        <4>1. Items' = Items \cup {i} /\ i \notin Items
          BY <1>1, <3>2 DEF Items, SetItem
        <4>2. ~(Cardinality(Items) >= MaxImages) /\ Cardinality(Items) \in Nat
          BY <3>2, FS_CardinalityType DEF Full, UploadTypeOK, Limit
        <4>3. /\ IsFiniteSet(Items \cup {i})
              /\ Cardinality(Items \cup {i}) = Cardinality(Items) + 1
          BY <4>1, FS_AddElement DEF Limit
        <4>4. Cardinality(Items) + 1 <= MaxImages
          BY <4>2, ReferenceUploadAssumption
        <4>5. QED
          BY <4>1, <4>3, <4>4 DEF Limit
      <3>3. QED
        BY <1>3, <3>1, <3>2
    <2>6. \A j \in Images : ImageInv(j)'
      <3> SUFFICES ASSUME NEW j \in Images PROVE ImageInv(j)'
        OBVIOUS
      <3>1. ImageInv(j)
        OBVIOUS
      <3>2. CASE j \in rest \/ j \in accepted
        <4>1. /\ \A d \in Batches \ {b} : j \notin batch[d].todo \cup batch[d].accepted
              /\ uploading[j] = "none" /\ item[j] \in {"none", "uploading"}
              /\ j \in rest => item[j] = "none" /\ j # i /\ j \notin accepted
          BY <1>1, <1>3, <3>1, <3>2 DEF ImageInv
        <4>2. CASE batch' = [batch EXCEPT ![b] = NoBatch]
          BY <1>1, <1>3, <2>1, <2>2, <2>3, <3>1, <3>2, <4>1, <4>2, ReferenceUploadAssumption, SMTT(30)
          DEF ImageInv, NoBatch
        <4>3. CASE /\ batch' = [batch EXCEPT ![b] =
                                  [todo |-> rest, accepted |-> accepted, session |-> current]]
                   /\ uploading' = uploading
          BY <1>1, <1>3, <2>1, <2>3, <3>1, <3>2, <4>1, <4>3, ReferenceUploadAssumption, SMTT(30)
          DEF ImageInv, NoBatch
        <4>4. QED
          BY <2>2, <4>2, <4>3
      <3>3. CASE ~(j \in rest \/ j \in accepted)
        <4>1. uploading'[j] = uploading[j] /\ item'[j] = item[j] /\ j \notin now.accepted
          BY <1>1, <1>3, <2>2, <2>3, <3>3
        <4>2. QED
          BY <1>1, <1>3, <2>1, <2>2, <3>1, <3>3, <4>1, SMTT(30) DEF ImageInv, NoBatch
      <3>4. QED
        BY <3>2, <3>3
    <2>7. QED
      BY <2>4, <2>5, <2>6
  <1>4. QED
    BY <1>2, <1>3

LEMMA UnreadableInv ==
  ASSUME UploadInv, NEW b \in Batches, Unreadable(b)
  PROVE  UploadInv'
  <1> USE DEF UploadInv, Unreadable, KeepItems, Ends
  <1>1. UploadTypeOK'
    BY DEF UploadTypeOK, Items, Unsettled, NoBatch
  <1>2. Limit'
    BY FewerItems DEF Items
  <1>3. \A j \in Images : ImageInv(j)'
    BY DEF ImageInv, NoBatch, UploadTypeOK
  <1>4. QED
    BY <1>1, <1>2, <1>3

\* An answer settles the item of the session it was asked for, and no other.
LEMMA AnswerInv ==
  ASSUME UploadInv, NEW i \in Images, UploadDone(i) \/ UploadFails(i)
  PROVE  UploadInv'
  <1> USE DEF UploadInv, UploadDone, UploadFails, KeepItems, Settles, SetItem, Stale
  <1>1. item[i] \in {"none", "uploading"} /\ uploading[i] # "none"
    BY DEF UploadTypeOK, ImageInv
  <1>2. UploadTypeOK'
    BY <1>1 DEF UploadTypeOK, Items, Unsettled
  <1>3. Limit'
    BY FewerItems DEF Items, UploadTypeOK
  <1>4. \A b \in Batches : i \notin batch[b].todo \cup batch[b].accepted
    BY <1>1 DEF ImageInv
  <1>5. \A j \in Images : ImageInv(j)'
    BY <1>1, <1>4 DEF ImageInv, UploadTypeOK
  <1>6. QED
    BY <1>2, <1>3, <1>5

LEMMA ItemInv ==
  ASSUME UploadInv, NEW i \in Images, Retry(i) \/ Remove(i)
  PROVE  UploadInv'
  <1> USE DEF UploadInv, Retry, Remove, SetItem
  <1>1. UploadTypeOK'
    BY DEF UploadTypeOK, Items, Unsettled, ImageInv
  <1>2. Limit'
    BY FewerItems DEF Items, UploadTypeOK
  <1>3. \A j \in Images : ImageInv(j)'
    BY DEF ImageInv, UploadTypeOK
  <1>4. QED
    BY <1>1, <1>2, <1>3

LEMMA ClearInv ==
  ASSUME UploadInv, ResetPanel \/ ChangeSession \/ Unmount
  PROVE  UploadInv'
  <1> USE DEF UploadInv, ResetPanel, ChangeSession, Unmount, Clear
  <1>1. UploadTypeOK'
    BY DEF UploadTypeOK, Items, Unsettled
  <1>2. Limit'
    BY FewerItems DEF Items
  <1>3. \A j \in Images : ImageInv(j)'
    BY DEF ImageInv
  <1>4. QED
    BY <1>1, <1>2, <1>3

LEMMA UploadStepInv == UploadInv /\ [UploadNext]_uploadVars => UploadInv'
  <1>1. ASSUME UploadInv, UNCHANGED uploadVars PROVE UploadInv'
    BY <1>1 DEF uploadVars, UploadInv, UploadTypeOK, Items, Unsettled, Limit, ImageInv
  <1>2. ASSUME UploadInv, NEW b \in Batches, NEW i \in Images, Validated(b, i) PROVE UploadInv'
    BY <1>2, ValidatedInv
  <1>3. QED
    BY <1>1, <1>2, AddFilesInv, UnreadableInv, AnswerInv, ItemInv, ClearInv DEF UploadNext

LEMMA UploadInvariance == Spec => []UploadInv
  <1>1. Init => UploadInv
    BY UploadInitInv DEF Init
  <1>2. UploadInv /\ [Next]_vars => UploadInv'
    BY UploadStepInv DEF Next, vars, Streaming, Browsing, Uploading, Authenticating
  <1>3. QED
    BY <1>1, <1>2, PTL DEF Spec

\* A submit sends at most MaxImages ids, all of the session it goes to, and no item waits
\* for an upload that nobody started.
THEOREM SubmittedReferencesBelong == Spec => []ReferencesBelong
  <1>1. UploadInv => ReferencesBelong
    BY DEF UploadInv, Limit, ImageInv, ReferencesBelong
  <1>2. QED
    BY <1>1, UploadInvariance, PTL

-----------------------------------------------------------------------------
(* Recognising callers.                                                    *)

Steps == {"idle", "legacy", "key", "missed", "stale", "fetch", "claims", "lookup", "insert"}

KeysInv ==
  /\ signing \in Keys /\ published \subseteq 1..signing /\ cached \subseteq 1..signing
  /\ fresh \in BOOLEAN /\ misses \in 0..MaxMisses
  /\ token \in [Checks -> Token] /\ step \in [Checks -> Steps]
  /\ \A c, d \in Checks : step[c] = "fetch" /\ step[d] = "fetch" => c = d
  /\ \A c \in Checks : step[c] = "legacy" => token[c].caller = "user"

\* The constraint on users.email leaves a caller one row of each spelling.
RowsInv ==
  /\ users \in [Callers -> SUBSET (Spellings \X {1})]
  /\ known \in [Callers -> SUBSET Rows]
  /\ \A p \in Callers : known[p] \subseteq users[p]

ApiInv == KeysInv /\ RowsInv

LEMMA NoTokenIsToken == NoToken \in Token
  BY ApiAuthAssumption DEF Token, NoToken, Callers, Issuers

LEMMA ApiInitInv == ApiInit => ApiInv
  <1> SUFFICES ASSUME ApiInit PROVE ApiInv
    OBVIOUS
  <1>1. 1 \in Keys /\ 0 \in 0..MaxMisses
    BY ApiAuthAssumption DEF Keys
  <1>2. /\ step = [c \in Checks |-> "idle"] /\ token = [c \in Checks |-> NoToken]
        /\ step \in [Checks -> Steps] /\ token \in [Checks -> Token]
    BY NoTokenIsToken DEF ApiInit, Steps
  <1>3. KeysInv
    <2>1. fresh \in BOOLEAN
      BY DEF ApiInit
    <2>2. /\ signing \in Keys /\ published \subseteq 1..signing /\ cached \subseteq 1..signing
          /\ misses \in 0..MaxMisses
      BY <1>1 DEF ApiInit
    <2>3. /\ \A c, d \in Checks : step[c] = "fetch" /\ step[d] = "fetch" => c = d
          /\ \A c \in Checks : step[c] = "legacy" => token[c].caller = "user"
      BY <1>2
    <2>4. QED
      BY <1>2, <2>1, <2>2, <2>3 DEF KeysInv
  <1>4. RowsInv
    BY DEF ApiInit, RowsInv
  <1>5. QED
    BY <1>3, <1>4 DEF ApiInv

LEMMA GoInv ==
  ASSUME KeysInv, NEW c \in Checks, NEW s \in Steps \ {"legacy"}, Go(c, s), s # "fetch" \/ LockFree
  PROVE  /\ token' \in [Checks -> Token] /\ step' \in [Checks -> Steps]
         /\ \A d, e \in Checks : step'[d] = "fetch" /\ step'[e] = "fetch" => d = e
         /\ \A d \in Checks : step'[d] = "legacy" => token'[d].caller = "user"
  BY DEF KeysInv, Go, LockFree

LEMMA EndInv ==
  ASSUME KeysInv, NEW c \in Checks, End(c)
  PROVE  /\ token' \in [Checks -> Token] /\ step' \in [Checks -> Steps]
         /\ \A d, e \in Checks : step'[d] = "fetch" /\ step'[e] = "fetch" => d = e
         /\ \A d \in Checks : step'[d] = "legacy" => token'[d].caller = "user"
  BY NoTokenIsToken DEF KeysInv, End, Steps

LEMMA ArriveInv ==
  ASSUME ApiInv, NEW c \in Checks, Arrive(c)
  PROVE  ApiInv'
  <1>1. PICK t \in Token : /\ token' = [token EXCEPT ![c] = t]
                           /\ step' = [step EXCEPT ![c] = Dispatch(t)]
    BY DEF Arrive
  <1>2. /\ Dispatch(t) \in {"legacy", "key"}
        /\ Dispatch(t) = "legacy" => t.caller = "user"
    BY DEF Token, Dispatch
  <1>3. RowsInv'
    BY DEF ApiInv, RowsInv, Arrive, KeepUsers
  <1>4. KeysInv'
    BY <1>1, <1>2 DEF ApiInv, KeysInv, Arrive, KeepKeys, KeepCache, Steps
  <1>5. QED
    BY <1>3, <1>4 DEF ApiInv

LEMMA KeyStepInv ==
  ASSUME ApiInv, NEW c \in Checks,
         LookForKey(c) \/ MissedKey(c) \/ StaleEntry(c) \/ Fetch(c)
  PROVE  ApiInv'
  <1> USE DEF ApiInv
  <1>1. RowsInv'
    BY DEF RowsInv, LookForKey, MissedKey, StaleEntry, Fetch, KeepUsers
  <1>2. /\ token' \in [Checks -> Token] /\ step' \in [Checks -> Steps]
        /\ \A d, e \in Checks : step'[d] = "fetch" /\ step'[e] = "fetch" => d = e
        /\ \A d \in Checks : step'[d] = "legacy" => token'[d].caller = "user"
    <2>1. CASE End(c)
      BY <2>1, EndInv
    <2>2. CASE \E s \in Steps \ {"fetch", "legacy"} : Go(c, s)
      BY <2>2, GoInv
    <2>3. CASE LockFree /\ Go(c, "fetch")
      BY <2>3, GoInv DEF Steps
    <2>4. QED
      BY <2>1, <2>2, <2>3 DEF LookForKey, MissedKey, StaleEntry, Fetch, Steps
  <1>3. /\ cached' \subseteq 1..signing /\ fresh' \in BOOLEAN
        /\ signing' = signing /\ published' = published
    BY DEF KeysInv, LookForKey, MissedKey, StaleEntry, Fetch, KeepKeys, KeepCache
  <1>4. misses' \in 0..MaxMisses
    BY ApiAuthAssumption DEF KeysInv, LookForKey, MissedKey, StaleEntry, Fetch, KeepCache
  <1>5. QED
    BY <1>1, <1>2, <1>3, <1>4 DEF KeysInv

LEMMA AcceptInv ==
  ASSUME RowsInv, NEW c \in Checks, token[c].caller \in Callers,
         NEW row \in users[token[c].caller], Accept(c, row), UNCHANGED users
  PROVE  RowsInv'
  BY DEF RowsInv, Accept, Rows

LEMMA AddRowInv ==
  ASSUME RowsInv, NEW p \in Callers, NEW s \in Spellings, ~Clash(p, s), AddRow(p, s)
  PROVE  /\ users' \in [Callers -> SUBSET (Spellings \X {1})]
         /\ \A q \in Callers : users[q] \subseteq users'[q]
         /\ <<s, Cardinality(Spelled(p, s)) + 1>> \in users'[p] \cap Rows
  <1>1. Cardinality(Spelled(p, s)) + 1 = 1
    BY FS_EmptySet DEF Clash
  <1>2. QED
    BY <1>1 DEF AddRow, RowsInv, Rows

LEMMA AccountStepInv ==
  ASSUME ApiInv, NEW c \in Checks,
         \/ LegacyRefused(c) \/ LegacyAccepted(c) \/ ClaimsRefused(c) \/ AgentEnds(c)
         \/ ClaimsAccepted(c) \/ LookUpUser(c) \/ LookUpAgent(c) \/ Provision(c)
  PROVE  ApiInv'
  <1> USE DEF ApiInv
  <1>1. token[c].caller \in Callers /\ "user" \in Callers
    BY DEF KeysInv, Token, Callers
  <1>2. (\E s \in {"lookup", "insert"} : Go(c, s)) \/ End(c)
    BY DEF LegacyRefused, LegacyAccepted, ClaimsRefused, AgentEnds, ClaimsAccepted,
           LookUpUser, LookUpAgent, Provision, TakeMine, NotAllowed, Accept
  <1>3. KeysInv'
    <2>1. UNCHANGED <<signing, published, cached, fresh, misses>>
      BY DEF LegacyRefused, LegacyAccepted, ClaimsRefused, AgentEnds, ClaimsAccepted,
             LookUpUser, LookUpAgent, Provision, KeepKeys, KeepCache
    <2>2. QED
      BY <1>2, <2>1, GoInv, EndInv DEF KeysInv, Steps
  <1>4. CASE KeepUsers
    BY <1>3, <1>4 DEF RowsInv, KeepUsers
  <1>5. CASE \E row \in Mine(c) : Accept(c, row) /\ UNCHANGED users
    BY <1>1, <1>3, <1>5, AcceptInv DEF Mine
  <1>6. CASE LegacyAccepted(c)
    <2>1. token[c].caller = "user"
      BY <1>6 DEF LegacyAccepted, KeysInv
    <2>2. QED
      BY <1>1, <1>3, <1>6, <2>1, AcceptInv DEF LegacyAccepted
  <1>7. CASE Provision(c)
    <2> DEFINE p == token[c].caller
    <2>1. CASE \E row \in Spelled(p, "lower") : Accept(c, row) /\ UNCHANGED users
      BY <1>1, <1>3, <2>1, AcceptInv DEF Spelled
    <2>2. CASE /\ ~Clash(p, "lower") /\ AddRow(p, "lower")
               /\ Accept(c, <<"lower", Cardinality(Spelled(p, "lower")) + 1>>)
      <3>1. "lower" \in Spellings
        BY DEF Spellings
      <3>2. /\ users' \in [Callers -> SUBSET (Spellings \X {1})]
            /\ \A q \in Callers : users[q] \subseteq users'[q]
            /\ <<"lower", Cardinality(Spelled(p, "lower")) + 1>> \in users'[p] \cap Rows
        BY <1>1, <2>2, <3>1, AddRowInv
      <3>3. QED
        BY <1>1, <1>3, <2>2, <3>2 DEF RowsInv, Accept
    <2>3. QED
      BY <1>7, <2>1, <2>2 DEF Provision
  <1>8. QED
    BY <1>3, <1>4, <1>5, <1>6, <1>7
    DEF LegacyRefused, ClaimsRefused, AgentEnds, ClaimsAccepted, LookUpUser, LookUpAgent,
        TakeMine, NotAllowed

LEMMA OutsideInv ==
  ASSUME ApiInv, CommandLine \/ RotateKey \/ TimePasses
  PROVE  ApiInv'
  <1> USE DEF ApiInv
  <1>1. CASE CommandLine
    <2>1. KeysInv'
      BY <1>1 DEF CommandLine, KeepKeys, KeepCache, KeysInv
    <2>2. PICK s \in Spellings : ~Clash("user", s) /\ AddRow("user", s)
      BY <1>1 DEF CommandLine
    <2>3. /\ users' \in [Callers -> SUBSET (Spellings \X {1})]
          /\ \A q \in Callers : users[q] \subseteq users'[q]
      BY <2>2, AddRowInv DEF Callers
    <2>4. QED
      BY <1>1, <2>1, <2>3 DEF CommandLine, RowsInv
  <1>2. CASE RotateKey
    BY <1>2, ApiAuthAssumption DEF RotateKey, KeepCache, KeepUsers, KeysInv, RowsInv, Keys
  <1>3. CASE TimePasses
    <2>1. misses' \in 0..MaxMisses
      BY <1>3, ApiAuthAssumption DEF TimePasses, KeysInv
    <2>2. fresh' \in BOOLEAN
      BY <1>3 DEF TimePasses, KeysInv
    <2>3. UNCHANGED <<signing, published, cached, step, token, users, known>>
      BY <1>3 DEF TimePasses, KeepKeys, KeepUsers
    <2>4. KeysInv'
      BY <2>1, <2>2, <2>3 DEF KeysInv
    <2>5. RowsInv'
      BY <2>3 DEF RowsInv
    <2>6. QED
      BY <2>4, <2>5
  <1>4. QED
    BY <1>1, <1>2, <1>3

LEMMA ApiStepInv == ApiInv /\ [ApiNext]_apiVars => ApiInv'
  <1>1. ASSUME ApiInv, UNCHANGED apiVars PROVE ApiInv'
    BY <1>1 DEF apiVars, ApiInv, KeysInv, RowsInv
  <1>2. QED
    BY <1>1, ArriveInv, KeyStepInv, AccountStepInv, OutsideInv DEF ApiNext

LEMMA ApiInvariance == Spec => []ApiInv
  <1>1. Init => ApiInv
    BY ApiInitInv DEF Init
  <1>2. ApiInv /\ [Next]_vars => ApiInv'
    BY ApiStepInv DEF Next, vars, Streaming, Browsing, Uploading, Authenticating
  <1>3. QED
    BY <1>1, <1>2, PTL DEF Spec

OneAccount == \A p \in Callers : Cardinality(known[p]) > 1 => \A s \in Spellings : Spelled(p, s) # {}

PaidRefresh ==
  misses' > misses => \E c \in Checks : step[c] = "missed" /\ step'[c] = "fetch"
                                        /\ Key(c) \notin cached

LEMMA OneAccountHolds == ApiInv => OneAccount
  <1> SUFFICES ASSUME ApiInv, NEW p \in Callers, NEW s \in Spellings, Spelled(p, s) = {}
               PROVE  ~(Cardinality(known[p]) > 1)
    BY DEF OneAccount
  <1> PICK t \in Spellings : \A u \in Spellings : u = s \/ u = t
    BY DEF Spellings
  <1>1. known[p] \subseteq {<<t, 1>>}
    BY DEF ApiInv, RowsInv, Spelled
  <1>2. IsFiniteSet({<<t, 1>>}) /\ Cardinality({<<t, 1>>}) = 1
    BY FS_Singleton
  <1>3. Cardinality(known[p]) <= 1 /\ Cardinality(known[p]) \in Nat
    BY <1>1, <1>2, FS_Subset, FS_CardinalityType
  <1>4. QED
    BY <1>3

LEMMA PaidRefreshHolds == ApiInv /\ [ApiNext]_apiVars => PaidRefresh
  <1> SUFFICES ASSUME ApiInv, [ApiNext]_apiVars, misses' > misses PROVE PaidRefresh
    BY DEF PaidRefresh
  <1>1. misses \in Nat /\ misses' # misses
    BY DEF ApiInv, KeysInv
  <1>2. ~TimePasses
    BY <1>1 DEF TimePasses
  <1>3. ~(UNCHANGED apiVars \/ CommandLine \/ RotateKey)
    BY <1>1 DEF apiVars, CommandLine, RotateKey, KeepCache
  <1>4. PICK c \in Checks : MissedKey(c)
    BY <1>1, <1>2, <1>3 DEF ApiNext, Arrive, LegacyRefused, LegacyAccepted, LookForKey,
       StaleEntry, Fetch, ClaimsRefused, AgentEnds, ClaimsAccepted, LookUpUser, LookUpAgent,
       Provision, KeepCache
  <1>5. QED
    BY <1>1, <1>4 DEF MissedKey, NowThere, Go, PaidRefresh, ApiInv, KeysInv

\* However first logins race, a caller is one account as long as no operator adds a second
\* spelling, and no refresh is charged for a key that the entry has.
THEOREM CallersRecognised == Spec => CallerRecognised
  <1>1. ApiInv /\ [Next]_vars => [PaidRefresh]_apiVars
    BY PaidRefreshHolds DEF Next, vars, Streaming, Browsing, Uploading, Authenticating
  <1>2. Spec => []OneAccount
    BY ApiInvariance, OneAccountHolds, PTL
  <1>3. Spec => [][PaidRefresh]_apiVars
    BY <1>1, ApiInvariance, PTL DEF Spec
  <1>4. QED
    BY <1>2, <1>3, PTL DEF CallerRecognised, OneAccount, PaidRefresh

-----------------------------------------------------------------------------
(* The session in the tabs.                                                *)

SessionTypes ==
  /\ held \in [Tabs -> 0..issued] /\ disk \in 0..issued
  /\ issued \in 0..MaxTokens /\ live \subseteq 1..issued
  /\ page \in [Tabs -> {"app", "exchange", "me", "rotated", "pending", "error"}]
  /\ leaving \in [Tabs -> 0..issued]
  /\ pc \in [Requests -> {"idle", "sent", "refreshing", "resent"}]
  /\ tab \in [Requests -> Tabs]
  /\ start \in [Requests -> 0..issued]
  /\ flight \in [Requests -> Requests]
  /\ reply \in [Requests -> (0..issued) \cup {Lost, Refused}]
  /\ troubled \subseteq Tabs

Waits ==
  /\ \A r \in Requests : pc[r] = "refreshing" =>
       /\ pc[flight[r]] = "refreshing" /\ flight[flight[r]] = flight[r]
       /\ tab[flight[r]] = tab[r] /\ start[flight[r]] = start[r] /\ start[r] # 0
  /\ \A r \in Requests : pc[r] # "refreshing" => start[r] = 0
  /\ \A r \in Requests : reply[r] # 0 => InFlight(r)

\* A tab has one refresh in the air for a session.
OneRefresh ==
  \A f, g \in Requests :
    InFlight(f) /\ InFlight(g) /\ tab[f] = tab[g] /\ start[f] = start[g] => f = g

Got(f) == InFlight(f) /\ reply[f] \in Tokens

\* A new token is nowhere else before its refresh has landed.
Fresh ==
  \A f \in Requests : Got(f) /\ reply[f] # start[f] =>
    /\ reply[f] # disk /\ \A x \in Tabs : held[x] # reply[f]
    /\ \A r \in Requests : start[r] # reply[f] /\ (r # f => reply[r] # reply[f])

\* A tab whose token the server no longer takes has its successor on the way, or a reason.
Backed ==
  \A x \in Tabs :
    \/ held[x] \in {0} \cup live \/ x \in troubled \/ leaving[x] # 0
    \/ \E f \in Requests : Got(f) /\ tab[f] = x /\ start[f] = held[x]

\* No refresh of the session at hand fails without a reason.
Blamed ==
  \A f \in Requests :
    InFlight(f) /\ reply[f] \in {Lost, Refused} /\ held[tab[f]] = start[f] =>
      tab[f] \in troubled \/ leaving[tab[f]] # 0

SessionInv == SessionTypes /\ Waits /\ OneRefresh /\ Fresh /\ Backed /\ Blamed

LEMMA Replies ==
  /\ Tokens \subseteq Nat \ {0} /\ Lost \in Nat /\ Refused \in Nat
  /\ Lost \notin Tokens /\ Refused \notin Tokens /\ Lost # Refused /\ Lost # 0 /\ Refused # 0
  /\ \A i \in 0..MaxTokens : 0..i \subseteq 0..MaxTokens /\ Lost \notin 0..i /\ Refused \notin 0..i
                             /\ 1..i \subseteq Tokens
  BY WebSessionAssumption DEF Tokens, Lost, Refused

LEMMA SessionInitInv == SessionInit => SessionInv
  <1> SUFFICES ASSUME SessionInit PROVE SessionInv
    OBVIOUS
  <1>1. SessionTypes
    BY WebSessionAssumption DEF SessionInit, SessionTypes
  <1>2. \A r \in Requests : pc[r] = "idle" /\ start[r] = 0 /\ reply[r] = 0
    BY DEF SessionInit
  <1>3. \A x \in Tabs : held[x] \in live
    BY DEF SessionInit
  <1>4. QED
    BY <1>1, <1>2, <1>3
    DEF SessionInv, Waits, OneRefresh, Fresh, Backed, Blamed, Got, InFlight

\* The requests of rs settle; no other waits for one of them.
Settled(rs) ==
  /\ rs \subseteq Requests
  /\ \A r \in rs : pc'[r] # "refreshing" /\ start'[r] = 0 /\ reply'[r] = 0
  /\ \A r \in Requests \ rs :
       /\ pc'[r] = pc[r] /\ start'[r] = start[r] /\ reply'[r] = reply[r]
       /\ flight'[r] = flight[r] /\ tab'[r] = tab[r]
       /\ pc[r] = "refreshing" => flight[r] \notin rs

LEMMA SettledInv ==
  ASSUME SessionInv, SessionTypes', NEW rs, Settled(rs)
  PROVE  /\ Waits' /\ OneRefresh'
         /\ \A g \in Requests : InFlight(g)' <=> InFlight(g) /\ g \notin rs
  <1> USE DEF SessionInv, SessionTypes, Settled
  <1>1. \A g \in Requests : InFlight(g)' <=> InFlight(g) /\ g \notin rs
    BY DEF InFlight
  <1>2. Waits'
    <2>1. \A r \in Requests : pc'[r] = "refreshing" =>
            /\ pc'[flight'[r]] = "refreshing" /\ flight'[flight'[r]] = flight'[r]
            /\ tab'[flight'[r]] = tab'[r] /\ start'[flight'[r]] = start'[r] /\ start'[r] # 0
      <3> SUFFICES ASSUME NEW r \in Requests, pc'[r] = "refreshing"
                   PROVE  /\ pc'[flight'[r]] = "refreshing" /\ flight'[flight'[r]] = flight'[r]
                          /\ tab'[flight'[r]] = tab'[r] /\ start'[flight'[r]] = start'[r]
                          /\ start'[r] # 0
        OBVIOUS
      <3>1. r \notin rs /\ flight[r] \in Requests \ rs /\ flight'[r] = flight[r]
        OBVIOUS
      <3>2. QED
        BY <3>1 DEF Waits
    <2>2. \A r \in Requests : pc'[r] # "refreshing" => start'[r] = 0
      BY DEF Waits
    <2>3. \A r \in Requests : reply'[r] # 0 => InFlight(r)'
      BY <1>1 DEF Waits
    <2>4. QED
      BY <2>1, <2>2, <2>3 DEF Waits
  <1>3. OneRefresh'
    BY <1>1 DEF OneRefresh, InFlight
  <1>4. QED
    BY <1>1, <1>2, <1>3

\* What a step does to the tokens while requests settle: a tab keeps its token, or stores one
\* that nobody else has on the way.
Kept(x, rs) ==
  /\ held'[x] = held[x]
  /\ x \in troubled => x \in troubled'
  /\ leaving[x] # 0 => leaving'[x] # 0
  /\ held[x] \in live => held[x] \in live' \/ x \in troubled' \/ leaving'[x] # 0
  /\ \A f \in rs : InFlight(f) /\ tab[f] = x => start[f] # held[x]

Stored(x, rs) ==
  /\ held'[x] \in {0} \cup live' \/ x \in troubled'
  /\ \A f \in Requests \ rs : InFlight(f) /\ tab[f] = x /\ start[f] = held'[x] => x \in troubled'

Unclaimed(k, rs) == \A f \in Requests \ rs : Got(f) /\ reply[f] # start[f] => reply[f] # k

LEMMA TokensInv ==
  ASSUME SessionInv, SessionTypes', NEW rs, Settled(rs),
         \A x \in Tabs : Kept(x, rs) \/ Stored(x, rs),
         \A x \in Tabs : Unclaimed(held'[x], rs), Unclaimed(disk', rs)
  PROVE  SessionInv'
  <1> USE DEF SessionInv, Settled
  <1>1. /\ Waits' /\ OneRefresh'
        /\ \A g \in Requests : InFlight(g)' <=> InFlight(g) /\ g \notin rs
    BY SettledInv
  <1>2. \A g \in Requests : Got(g)' <=> Got(g) /\ g \notin rs
    BY <1>1 DEF Got, Tokens
  <1>3. Fresh'
    <2> SUFFICES ASSUME NEW f \in Requests, Got(f)', reply'[f] # start'[f]
                 PROVE  /\ reply'[f] # disk' /\ \A x \in Tabs : held'[x] # reply'[f]
                        /\ \A r \in Requests : start'[r] # reply'[f]
                                               /\ (r # f => reply'[r] # reply'[f])
      BY DEF Fresh
    <2>1. /\ Got(f) /\ f \notin rs /\ reply'[f] = reply[f] /\ start'[f] = start[f]
          /\ reply[f] # 0
      BY <1>2, Replies DEF Got
    <2>2. \A r \in Requests : start'[r] # reply[f] /\ (r # f => reply'[r] # reply[f])
      BY <2>1 DEF Fresh
    <2>3. QED
      BY <2>1, <2>2 DEF Unclaimed
  <1>4. Backed'
    <2> SUFFICES ASSUME NEW x \in Tabs
                 PROVE  \/ held'[x] \in {0} \cup live' \/ x \in troubled' \/ leaving'[x] # 0
                        \/ \E f \in Requests : Got(f)' /\ tab'[f] = x /\ start'[f] = held'[x]
      BY DEF Backed
    <2>1. CASE Stored(x, rs)
      BY <2>1 DEF Stored
    <2>2. CASE Kept(x, rs)
      <3>1. CASE held[x] \in {0} \cup live \/ x \in troubled \/ leaving[x] # 0
        BY <2>2, <3>1 DEF Kept
      <3>2. CASE \E f \in Requests : Got(f) /\ tab[f] = x /\ start[f] = held[x]
        <4>1. PICK f \in Requests : Got(f) /\ tab[f] = x /\ start[f] = held[x]
          BY <3>2
        <4>2. f \notin rs
          BY <2>2, <4>1 DEF Kept, Got
        <4>3. QED
          BY <1>2, <2>2, <4>1, <4>2 DEF Kept
      <3>3. QED
        BY <3>1, <3>2 DEF Backed
    <2>3. QED
      BY <2>1, <2>2
  <1>5. Blamed'
    <2> SUFFICES ASSUME NEW f \in Requests, InFlight(f)', reply'[f] \in {Lost, Refused},
                        held'[tab'[f]] = start'[f]
                 PROVE  tab'[f] \in troubled' \/ leaving'[tab'[f]] # 0
      BY DEF Blamed
    <2>1. /\ InFlight(f) /\ f \notin rs /\ tab'[f] = tab[f] /\ tab[f] \in Tabs
          /\ start'[f] = start[f] /\ reply'[f] = reply[f]
      BY <1>1 DEF SessionTypes
    <2>2. CASE Stored(tab[f], rs)
      BY <2>1, <2>2 DEF Stored
    <2>3. CASE Kept(tab[f], rs)
      BY <2>1, <2>3 DEF Kept, Blamed
    <2>4. QED
      BY <2>1, <2>2, <2>3
  <1>6. QED
    BY <1>1, <1>3, <1>4, <1>5

LEMMA KeepInv ==
  ASSUME SessionInv, SessionTypes', NEW rs, Settled(rs), UNCHANGED <<held, disk>>,
         \A x \in Tabs : Kept(x, rs)
  PROVE  SessionInv'
  <1>1. \A x \in Tabs : Unclaimed(held'[x], rs)
    BY DEF SessionInv, Fresh, Unclaimed
  <1>2. Unclaimed(disk', rs)
    BY DEF SessionInv, Fresh, Unclaimed
  <1>3. QED
    BY <1>1, <1>2, TokensInv

LEMMA StoreInv ==
  ASSUME SessionInv, SessionTypes', NEW rs, Settled(rs), NEW x \in Tabs, NEW k,
         SetSession(x, k), live \subseteq live',
         \A y \in Tabs \ {x} : leaving'[y] = leaving[y],
         \A f \in rs : InFlight(f) => tab[f] = x,
         \A f \in Requests \ rs : InFlight(f) /\ tab[f] = x => start[f] # k,
         Unclaimed(k, rs)
  PROVE  SessionInv'
  <1> USE DEF SessionInv
  <1>1. \A y \in Tabs \ {x} : held'[y] = held[y] /\ (y \in troubled => y \in troubled')
    BY DEF SetSession, SessionTypes
  <1>2. disk' = k /\ held'[x] = k
    BY DEF SetSession, SessionTypes
  <1>3. \A y \in Tabs \ {x} : Kept(y, rs)
    BY <1>1, <1>2 DEF SetSession, Kept, SessionTypes
  <1>4. Stored(x, rs)
    BY <1>2 DEF SetSession, Stored
  <1>5. \A y \in Tabs : Unclaimed(held'[y], rs)
    <2>1. \A y \in Tabs \ {x} : held'[y] = held[y]
      BY DEF SetSession, SessionTypes
    <2>2. QED
      BY <1>2, <2>1 DEF Fresh, Unclaimed
  <1>6. Unclaimed(disk', rs)
    BY <1>2
  <1>7. QED
    BY <1>3, <1>4, <1>5, <1>6, TokensInv

\* No refresh is of no session, or brings none.
LEMMA NothingClaimed ==
  ASSUME SessionInv, NEW rs
  PROVE  /\ \A f \in Requests \ rs : InFlight(f) => start[f] # 0
         /\ Unclaimed(0, rs)
  BY Replies DEF SessionInv, Waits, InFlight, Unclaimed, Got

LEMMA ForgetInv ==
  ASSUME SessionInv, SessionTypes', NEW rs, Settled(rs), NEW x \in Tabs,
         SetSession(x, 0), UNCHANGED live,
         \A y \in Tabs \ {x} : leaving'[y] = leaving[y],
         \A f \in rs : InFlight(f) => tab[f] = x
  PROVE  SessionInv'
  BY NothingClaimed, StoreInv

LEMMA DoneSettled ==
  ASSUME SessionInv, NEW rs \in SUBSET Requests, Done(rs),
         \A r \in Requests \ rs : pc[r] = "refreshing" => flight[r] \notin rs
  PROVE  /\ Settled(rs) /\ tab' = tab
         /\ pc' \in [Requests -> {"idle", "sent", "refreshing", "resent"}]
         /\ start' \in [Requests -> 0..issued] /\ flight' \in [Requests -> Requests]
         /\ reply' \in [Requests -> (0..issued) \cup {Lost, Refused}]
  BY DEF SessionInv, SessionTypes, Done, Settled

LEMMA NoneSettled ==
  ASSUME SessionInv, KeepRequests
  PROVE  /\ Settled({})
         /\ pc' \in [Requests -> {"idle", "sent", "refreshing", "resent"}]
         /\ tab' \in [Requests -> Tabs] /\ flight' \in [Requests -> Requests]
         /\ start' \in [Requests -> 0..issued]
         /\ reply' \in [Requests -> (0..issued) \cup {Lost, Refused}]
  BY DEF SessionInv, SessionTypes, KeepRequests, Settled

LEMMA SetSessionTypes ==
  ASSUME SessionInv, NEW x \in Tabs, NEW k \in 0..issued', issued' \in {issued, issued + 1},
         SetSession(x, k)
  PROVE  /\ held' \in [Tabs -> 0..issued'] /\ disk' \in 0..issued' /\ troubled' \subseteq Tabs
  BY DEF SessionInv, SessionTypes, SetSession

LEMMA OneSettled ==
  ASSUME SessionInv, NEW r \in Requests, pc[r] # "refreshing", Done({r})
  PROVE  /\ Settled({r}) /\ tab' = tab /\ ~InFlight(r)
         /\ pc' \in [Requests -> {"idle", "sent", "refreshing", "resent"}]
         /\ start' \in [Requests -> 0..issued] /\ flight' \in [Requests -> Requests]
         /\ reply' \in [Requests -> (0..issued) \cup {Lost, Refused}]
  <1>1. \A q \in Requests \ {r} : pc[q] = "refreshing" => flight[q] \notin {r}
    BY DEF SessionInv, Waits
  <1>2. QED
    BY <1>1, DoneSettled DEF InFlight

LEMMA SendInv ==
  ASSUME SessionInv, NEW r \in Requests, Send(r)
  PROVE  SessionInv'
  <1> USE DEF SessionInv
  <1>1. SessionTypes'
    BY DEF Send, SessionTypes, KeepTokens, KeepStore
  <1>2. start[r] = 0 /\ reply[r] = 0 /\ ~InFlight(r)
    BY DEF Send, Waits, InFlight
  <1>3. Settled({r})
    BY <1>2 DEF Send, Settled, SessionTypes, Waits
  <1>4. \A x \in Tabs : Kept(x, {r})
    BY <1>2 DEF Send, Kept, KeepTokens, KeepStore
  <1>5. QED
    BY <1>1, <1>3, <1>4, KeepInv DEF Send, KeepStore

LEMMA RequestAnsweredInv ==
  ASSUME SessionInv, NEW r \in Requests, Succeeds(r) \/ Fails(r)
  PROVE  SessionInv'
  <1> USE DEF SessionInv
  <1>1. /\ Settled({r}) /\ tab' = tab /\ ~InFlight(r)
        /\ pc' \in [Requests -> {"idle", "sent", "refreshing", "resent"}]
        /\ start' \in [Requests -> 0..issued] /\ flight' \in [Requests -> Requests]
        /\ reply' \in [Requests -> (0..issued) \cup {Lost, Refused}]
    BY OneSettled DEF Succeeds, Fails
  <1>2. UNCHANGED <<issued, live, leaving>>
    BY DEF Succeeds, Fails, KeepTokens
  <1>3. page' \in [Tabs -> {"app", "exchange", "me", "rotated", "pending", "error"}]
    BY DEF Succeeds, Fails, SetPage, SessionTypes
  <1>4. CASE KeepStore
    <2>1. SessionTypes'
      BY <1>1, <1>2, <1>3, <1>4 DEF SessionTypes, KeepStore
    <2>2. \A x \in Tabs : Kept(x, {r})
      BY <1>1, <1>2, <1>4 DEF Kept, KeepStore
    <2>3. QED
      BY <1>1, <1>4, <2>1, <2>2, KeepInv DEF KeepStore
  <1>5. CASE SetSession(tab[r], 0)
    <2>1. tab[r] \in Tabs /\ 0 \in 0..issued' /\ issued' = issued
      BY <1>2 DEF SessionTypes
    <2>2. SessionTypes'
      BY <1>1, <1>2, <1>3, <1>5, <2>1, SetSessionTypes DEF SessionTypes
    <2>3. QED
      BY <1>1, <1>2, <1>5, <2>1, <2>2, ForgetInv
  <1>6. QED
    BY <1>4, <1>5 DEF Succeeds, Fails

LEMMA UnauthorizedInv ==
  ASSUME SessionInv, NEW r \in Requests, Unauthorized(r)
  PROVE  SessionInv'
  <1> USE DEF SessionInv
  <1> DEFINE x == tab[r]
  <1>1. /\ x \in Tabs /\ pc[r] = "sent" /\ ~InFlight(r) /\ start[r] = 0 /\ reply[r] = 0
        /\ UNCHANGED <<issued, live, page, leaving>>
    BY DEF Unauthorized, SessionTypes, InFlight, Waits, KeepTokens
  <1>2. CASE Done({r}) /\ SetSession(x, 0)
    <2>1. /\ Settled({r}) /\ tab' = tab
          /\ pc' \in [Requests -> {"idle", "sent", "refreshing", "resent"}]
          /\ start' \in [Requests -> 0..issued] /\ flight' \in [Requests -> Requests]
          /\ reply' \in [Requests -> (0..issued) \cup {Lost, Refused}]
      BY <1>1, <1>2, OneSettled
    <2>2. 0 \in 0..issued'
      BY <1>1 DEF SessionTypes
    <2>3. SessionTypes'
      BY <1>1, <1>2, <2>1, <2>2, SetSessionTypes DEF SessionTypes
    <2>4. QED
      BY <1>1, <1>2, <2>1, <2>3, ForgetInv
  <1>3. CASE ~(held[x] = 0 /\ InAir(x) = {})
    <2>1. held[x] # 0
      BY <1>3, NothingClaimed DEF InAir, Waits, InFlight, Of
    <2>2. PICK f \in Requests :
            /\ flight' = [flight EXCEPT ![r] = f]
            /\ \/ InFlight(f) /\ f # r /\ tab[f] = x /\ start[f] = held[x]
               \/ f = r /\ \A g \in Requests : InFlight(g) /\ tab[g] = x => start[g] # held[x]
      BY <1>1, <1>3 DEF Unauthorized, InAir, Of
    <2>3. /\ pc' = [pc EXCEPT ![r] = "refreshing"] /\ start' = [start EXCEPT ![r] = held[x]]
          /\ UNCHANGED <<tab, reply, held, disk, troubled>>
      BY <1>3 DEF Unauthorized, KeepStore
    <2>4. SessionTypes'
      BY <1>1, <2>2, <2>3 DEF SessionTypes
    <2>5. \A g \in Requests : InFlight(g)' <=> InFlight(g) \/ (g = r /\ f = r)
      BY <1>1, <2>2, <2>3 DEF InFlight, SessionTypes
    <2>6. Waits'
      <3>1. \A q \in Requests : reply'[q] # 0 => InFlight(q)'
        BY <2>3, <2>5 DEF Waits
      <3>2. \A q \in Requests : pc'[q] # "refreshing" => start'[q] = 0
        BY <1>1, <2>3 DEF Waits, SessionTypes
      <3>3. ASSUME NEW q \in Requests, pc'[q] = "refreshing"
            PROVE  /\ pc'[flight'[q]] = "refreshing" /\ flight'[flight'[q]] = flight'[q]
                   /\ tab'[flight'[q]] = tab'[q] /\ start'[flight'[q]] = start'[q]
                   /\ start'[q] # 0
        <4>1. CASE q = r
          BY <1>1, <2>1, <2>2, <2>3, <4>1 DEF SessionTypes, InFlight
        <4>2. CASE q # r
          <5>1. pc[q] = "refreshing" /\ flight'[q] = flight[q] /\ flight[q] # r
            BY <1>1, <2>2, <2>3, <3>3, <4>2 DEF SessionTypes, Waits
          <5>2. QED
            BY <2>2, <2>3, <4>2, <5>1 DEF SessionTypes, Waits
        <4>3. QED
          BY <4>1, <4>2
      <3>4. QED
        BY <3>1, <3>2, <3>3 DEF Waits
    <2>7. OneRefresh'
      BY <1>1, <2>2, <2>3, <2>5 DEF OneRefresh, SessionTypes
    <2>8. \A g \in Requests : Got(g)' <=> Got(g)
      BY <1>1, <2>3, <2>5, Replies DEF Got, Tokens
    <2>9. Fresh'
      BY <1>1, <2>3, <2>8 DEF Fresh, Got, SessionTypes
    <2>10. Backed'
      BY <1>1, <2>3, <2>8 DEF Backed, Got, SessionTypes
    <2>11. Blamed'
      BY <1>1, <2>3, <2>5, Replies DEF Blamed, SessionTypes, Lost, Refused
    <2>12. QED
      BY <2>4, <2>6, <2>7, <2>9, <2>10, <2>11
  <1>4. QED
    BY <1>2, <1>3 DEF Unauthorized

LEMMA AskServerInv ==
  ASSUME SessionInv, NEW f \in Requests, AskServer(f)
  PROVE  SessionInv'
  <1> USE DEF SessionInv
  <1>1. /\ InFlight(f) /\ reply[f] = 0 /\ tab[f] \in Tabs /\ start[f] # 0 /\ start[f] \in 1..issued
        /\ UNCHANGED <<held, disk, page, leaving, pc, tab, start, flight>>
    BY DEF AskServer, SessionTypes, Waits, InFlight
  <1>2. start[f] \in Tokens /\ start[f] \notin {Lost, Refused} /\ issued \in 0..MaxTokens
    BY <1>1, Replies DEF SessionTypes
  <1>3. issued < MaxTokens => issued + 1 \in Tokens /\ issued + 1 \notin {Lost, Refused}
    BY <1>2, Replies, WebSessionAssumption DEF Tokens
  <1>4. PICK v : /\ reply' = [reply EXCEPT ![f] = v]
                 /\ troubled \subseteq troubled'
                 /\ \/ /\ v = Refused /\ start[f] \notin live /\ UNCHANGED <<issued, live, troubled>>
                    \/ /\ v \in {Lost, start[f]} /\ UNCHANGED <<issued, live>>
                       /\ troubled' \in {troubled, troubled \cup {tab[f]}}
                       /\ v = Lost => tab[f] \in troubled'
                    \/ /\ issued < MaxTokens /\ issued' = issued + 1 /\ v \in {Lost, issued'}
                       /\ live' = (live \ {start[f]}) \cup {issued'}
                       /\ troubled' = troubled \cup
                            (IF v = Lost THEN Holding(start[f]) ELSE Holding(start[f]) \ {tab[f]})
    <2>1. CASE \E answer \in {0, Lost} : Exchanges(f, answer)
      <3>1. PICK answer \in {0, Lost} : Exchanges(f, answer)
        BY <2>1
      <3>2. CASE UNCHANGED <<issued, live>> /\ issued' # issued + 1
        <4>1. /\ reply' = [reply EXCEPT ![f] = IF answer = Lost THEN Lost ELSE start[f]]
              /\ troubled' = IF answer = Lost THEN troubled \cup {tab[f]} ELSE troubled
          BY <3>1, <3>2 DEF Exchanges
        <4>2. CASE answer = Lost
          <5>1. /\ reply' = [reply EXCEPT ![f] = Lost] /\ troubled' = troubled \cup {tab[f]}
                /\ troubled \subseteq troubled'
            BY <4>1, <4>2
          <5>2. QED
            BY <3>2, <5>1
        <4>3. CASE answer # Lost
          BY <1>2, <3>2, <4>1, <4>3
        <4>4. QED
          BY <4>2, <4>3
      <3>3. CASE /\ issued < MaxTokens /\ issued' = issued + 1
                 /\ live' = (live \ {start[f]}) \cup {issued'}
                 /\ reply' = [reply EXCEPT ![f] = IF answer = Lost THEN Lost ELSE issued']
                 /\ troubled' = troubled \cup
                      (IF answer = Lost THEN Holding(start[f]) ELSE Holding(start[f]) \ {tab[f]})
        BY <1>3, <3>3
      <3>4. QED
        BY <1>2, <3>1, <3>2, <3>3 DEF Exchanges
    <2>2. CASE start[f] \notin live /\ reply' = [reply EXCEPT ![f] = Refused]
               /\ UNCHANGED <<issued, live, troubled>>
      BY <2>2
    <2>3. QED
      BY <2>1, <2>2 DEF AskServer
  <1>5. /\ issued' \in 0..MaxTokens /\ issued' \in {issued, issued + 1} /\ issued \in Nat
        /\ v \in (1..issued') \cup {Lost, Refused} /\ v # 0
        /\ v \in Tokens => v \in 1..issued'
    BY <1>1, <1>2, <1>3, <1>4, Replies, WebSessionAssumption DEF SessionTypes, Tokens
  <1>6. SessionTypes'
    <2>1. live' \subseteq 1..issued'
      <3>1. live \subseteq 1..issued' /\ (issued' = issued + 1 => issued' \in 1..issued')
        BY <1>5 DEF SessionTypes
      <3>2. QED
        BY <1>4, <3>1
    <2>2. troubled' \subseteq Tabs
      BY <1>1, <1>4 DEF SessionTypes, Holding
    <2>3. reply' \in [Requests -> (0..issued') \cup {Lost, Refused}]
      BY <1>4, <1>5 DEF SessionTypes
    <2>4. /\ held' \in [Tabs -> 0..issued'] /\ leaving' \in [Tabs -> 0..issued']
          /\ start' \in [Requests -> 0..issued'] /\ disk' \in 0..issued'
      BY <1>1, <1>5 DEF SessionTypes
    <2>5. QED
      BY <1>1, <1>5, <2>1, <2>2, <2>3, <2>4 DEF SessionTypes
  <1>7. /\ \A g \in Requests : InFlight(g)' <=> InFlight(g)
        /\ reply'[f] = v /\ \A g \in Requests \ {f} : reply'[g] = reply[g]
    BY <1>1, <1>4 DEF InFlight, SessionTypes
  <1>8. Waits' /\ OneRefresh'
    BY <1>1, <1>7 DEF Waits, OneRefresh
  <1>9. /\ \A g \in Requests \ {f} : Got(g)' <=> Got(g)
        /\ ~Got(f)
        /\ Got(f)' <=> v \in Tokens
    BY <1>1, <1>7, Replies DEF Got, Tokens
  <1>10. Fresh'
    <2> SUFFICES ASSUME NEW g \in Requests, Got(g)', reply'[g] # start'[g]
                 PROVE  /\ reply'[g] # disk' /\ \A x \in Tabs : held'[x] # reply'[g]
                        /\ \A r \in Requests : start'[r] # reply'[g]
                                               /\ (r # g => reply'[r] # reply'[g])
      BY DEF Fresh
    <2>1. CASE g = f
      <3>1. v = issued + 1 /\ issued' = issued + 1 /\ issued < MaxTokens
        BY <1>1, <1>4, <1>7, <1>9, <1>2, <2>1, Replies
      <3>2. /\ disk # v /\ \A x \in Tabs : held[x] # v
            /\ \A r \in Requests : start[r] # v /\ reply[r] # v
        BY <1>5, <3>1, Replies, WebSessionAssumption DEF SessionTypes, Lost, Refused
      <3>3. QED
        BY <1>1, <1>7, <2>1, <3>2
    <2>2. CASE g # f
      <3>1. Got(g) /\ reply'[g] = reply[g] /\ reply[g] # start[g] /\ reply[g] \in Tokens
        BY <1>1, <1>7, <1>9, <2>2 DEF Got
      <3>2. reply[g] \in 1..issued
        BY <3>1, Replies DEF SessionTypes, Tokens
      <3>3. v # reply[g]
        BY <1>4, <1>5, <3>1, <3>2, Replies DEF Fresh
      <3>4. QED
        BY <1>1, <1>7, <3>1, <3>3 DEF Fresh
    <2>3. QED
      BY <2>1, <2>2
  <1>11. Backed'
    <2> SUFFICES ASSUME NEW x \in Tabs
                 PROVE  \/ held[x] \in {0} \cup live' \/ x \in troubled' \/ leaving[x] # 0
                        \/ \E g \in Requests : Got(g)' /\ tab[g] = x /\ start[g] = held[x]
      BY <1>1 DEF Backed
    <2>1. CASE held[x] = start[f] /\ start[f] \notin live'
      <3>1. CASE v \in {Lost, Refused}
        BY <1>1, <1>4, <1>9, <1>2, <1>3, <2>1, <3>1 DEF Backed, Holding
      <3>2. CASE v \in Tokens
        <4>1. CASE x = tab[f]
          BY <1>1, <1>9, <2>1, <3>2, <4>1
        <4>2. CASE x # tab[f]
          BY <1>1, <1>4, <1>9, <2>1, <3>2, <4>2, Replies DEF Backed, Holding
        <4>3. QED
          BY <4>1, <4>2
      <3>3. QED
        BY <1>5, <3>1, <3>2, Replies
    <2>2. CASE held[x] \in live => held[x] \in live'
      BY <1>4, <1>9, <2>2 DEF Backed
    <2>3. QED
      BY <1>4, <2>1, <2>2
  <1>12. Blamed'
    <2> SUFFICES ASSUME NEW g \in Requests, InFlight(g), reply'[g] \in {Lost, Refused},
                        held[tab[g]] = start[g]
                 PROVE  tab[g] \in troubled' \/ leaving[tab[g]] # 0
      BY <1>1, <1>7 DEF Blamed
    <2>1. CASE g # f
      BY <1>4, <1>7, <2>1 DEF Blamed
    <2>2. CASE g = f /\ v = Lost
      BY <1>1, <1>4, <2>2, Replies DEF Holding
    <2>3. CASE g = f /\ v = Refused
      <3>1. start[f] \notin live
        BY <1>4, <1>2, <1>3, <2>3, Replies
      <3>2. \A h \in Requests : Got(h) /\ tab[h] = tab[f] => start[h] # start[f]
        BY <1>1, <1>9 DEF OneRefresh, Got
      <3>3. QED
        BY <1>1, <1>4, <2>3, <3>1, <3>2 DEF Backed
    <2>4. QED
      BY <1>7, <2>1, <2>2, <2>3
  <1>13. QED
    BY <1>6, <1>8, <1>10, <1>11, <1>12

LEMMA LandInv ==
  ASSUME SessionInv, NEW f \in Requests, Land(f)
  PROVE  SessionInv'
  <1> USE DEF SessionInv
  <1> DEFINE x == tab[f]
             waiting == {r \in Of(x) : pc[r] = "refreshing" /\ flight[r] = f}
  <1>1. /\ InFlight(f) /\ x \in Tabs /\ reply[f] # 0 /\ f \in waiting /\ waiting \subseteq Requests
        /\ start[f] # 0 /\ UNCHANGED <<issued, live, leaving>>
    BY DEF Land, InFlight, SessionTypes, KeepTokens, Of, Waits
  <1>2. /\ \A r \in waiting : (InFlight(r) => r = f) /\ (reply[r] # 0 => r = f) /\ tab[r] = x
        /\ \A r \in Requests \ waiting : pc[r] = "refreshing" => flight[r] \notin waiting
    BY <1>1 DEF InFlight, Of, Waits
  <1>3. page' \in [Tabs -> {"app", "exchange", "me", "rotated", "pending", "error"}]
    BY DEF Land, SetPage, SessionTypes
  <1>4. CASE reply[f] \in Tokens /\ StillHeld(f)
    <2>1. /\ SetSession(x, reply[f])
          /\ pc' = [r \in Requests |-> IF r \in waiting THEN "resent" ELSE pc[r]]
          /\ start' = [r \in Requests |-> IF r \in waiting THEN 0 ELSE start[r]]
          /\ flight' = [r \in Requests |-> IF r \in waiting THEN r ELSE flight[r]]
          /\ reply' = [reply EXCEPT ![f] = 0]
          /\ tab' = tab
      BY <1>4 DEF Land
    <2>2. Settled(waiting)
      BY <1>1, <1>2, <2>1 DEF Settled, SessionTypes
    <2>3. reply[f] \in 0..issued' /\ issued' = issued
      BY <1>1, <1>4, Replies DEF SessionTypes
    <2>4. SessionTypes'
      <3>1. /\ held' \in [Tabs -> 0..issued'] /\ disk' \in 0..issued' /\ troubled' \subseteq Tabs
        BY <1>1, <2>1, <2>3, SetSessionTypes
      <3>2. QED
        BY <1>1, <1>3, <2>1, <2>3, <3>1 DEF SessionTypes
    <2>5. \A g \in Requests \ waiting : InFlight(g) /\ tab[g] = x => start[g] # reply[f]
      BY <1>1, <1>4 DEF OneRefresh, Fresh, Got
    <2>6. Unclaimed(reply[f], waiting)
      BY <1>1 DEF Unclaimed, Fresh
    <2>7. QED
      BY <1>1, <1>2, <2>1, <2>2, <2>4, <2>5, <2>6, StoreInv
  <1>5. CASE ~(reply[f] \in Tokens /\ StillHeld(f))
    <2>1. Done(waiting)
      BY <1>5 DEF Land
    <2>2. /\ Settled(waiting) /\ tab' = tab
          /\ pc' \in [Requests -> {"idle", "sent", "refreshing", "resent"}]
          /\ start' \in [Requests -> 0..issued] /\ flight' \in [Requests -> Requests]
          /\ reply' \in [Requests -> (0..issued) \cup {Lost, Refused}]
      <3> HIDE DEF waiting
      <3> QED
        BY <1>1, <1>2, <2>1, DoneSettled
    <2>3. CASE SetSession(x, 0)
      <3>1. 0 \in 0..issued' /\ issued' = issued
        BY <1>1 DEF SessionTypes
      <3>2. /\ held' \in [Tabs -> 0..issued'] /\ disk' \in 0..issued' /\ troubled' \subseteq Tabs
        BY <1>1, <2>3, <3>1, SetSessionTypes
      <3>3. SessionTypes'
        BY <1>1, <1>3, <2>2, <3>1, <3>2 DEF SessionTypes
      <3>4. QED
        BY <1>1, <1>2, <2>2, <2>3, <3>3, ForgetInv
    <2>4. CASE held[x] # start[f] /\ KeepStore
      <3>1. SessionTypes'
        BY <1>1, <1>3, <2>2, <2>4 DEF SessionTypes, KeepStore
      <3>2. \A y \in Tabs : Kept(y, waiting)
        BY <1>1, <1>2, <2>4 DEF Kept, KeepStore
      <3>3. QED
        BY <2>2, <2>4, <3>1, <3>2, KeepInv DEF KeepStore
    <2>5. QED
      BY <1>5, <2>3, <2>4 DEF Land
  <1>6. QED
    BY <1>4, <1>5

LEMMA LoadInv ==
  ASSUME SessionInv, NEW x \in Tabs, NEW p \in {"app", "exchange"}, Load(x, p)
  PROVE  SessionInv'
  <1> USE DEF SessionInv
  <1>1. /\ held' = [held EXCEPT ![x] = disk] /\ disk' = disk
        /\ troubled' = IF disk \in {0} \cup live THEN troubled \ {x} ELSE troubled \cup {x}
        /\ page' = [page EXCEPT ![x] = p] /\ leaving' = [leaving EXCEPT ![x] = 0]
        /\ UNCHANGED <<issued, live>> /\ Done(Of(x))
    BY DEF Load, SetPage, KeepTokens
  <1>2. \A r \in Requests \ Of(x) : pc[r] = "refreshing" => flight[r] \notin Of(x)
    BY DEF Of, Waits
  <1>3. /\ Settled(Of(x)) /\ tab' = tab
        /\ pc' \in [Requests -> {"idle", "sent", "refreshing", "resent"}]
        /\ start' \in [Requests -> 0..issued] /\ flight' \in [Requests -> Requests]
        /\ reply' \in [Requests -> (0..issued) \cup {Lost, Refused}]
    <2>1. Of(x) \in SUBSET Requests
      BY DEF Of
    <2>2. QED
      BY <1>1, <1>2, <2>1, DoneSettled
  <1>4. SessionTypes'
    BY <1>1, <1>3 DEF SessionTypes
  <1>5. Stored(x, Of(x))
    BY <1>1 DEF Stored, Of, SessionTypes
  <1>6. \A y \in Tabs \ {x} : Kept(y, Of(x))
    BY <1>1 DEF Kept, Of, SessionTypes
  <1>7. /\ \A y \in Tabs : Unclaimed(held'[y], Of(x))
        /\ Unclaimed(disk', Of(x))
    BY <1>1 DEF Unclaimed, Fresh, SessionTypes
  <1>8. QED
    BY <1>3, <1>4, <1>5, <1>6, <1>7, TokensInv

LEMMA TokenStepInv ==
  ASSUME SessionInv, TokenDies \/ \E x \in Tabs : SignOut(x) \/ Revoked(x)
  PROVE  SessionInv'
  <1> USE DEF SessionInv
  <1>1. /\ UNCHANGED <<held, disk, issued, page>> /\ KeepRequests
        /\ live' \subseteq live /\ troubled \subseteq troubled' /\ troubled' \subseteq Tabs
        /\ leaving' \in [Tabs -> 0..issued]
    BY DEF TokenDies, SignOut, Revoked, KeepTokens, KeepStore, SessionTypes, Holding
  <1>2. /\ Settled({})
        /\ pc' \in [Requests -> {"idle", "sent", "refreshing", "resent"}]
        /\ tab' \in [Requests -> Tabs] /\ flight' \in [Requests -> Requests]
        /\ start' \in [Requests -> 0..issued]
        /\ reply' \in [Requests -> (0..issued) \cup {Lost, Refused}]
    BY <1>1, NoneSettled
  <1>3. SessionTypes'
    BY <1>1, <1>2 DEF SessionTypes
  <1>4. \A y \in Tabs : Kept(y, {})
    <2> SUFFICES ASSUME NEW y \in Tabs
                 PROVE  /\ leaving[y] # 0 => leaving'[y] # 0
                        /\ held[y] \in live =>
                             held[y] \in live' \/ y \in troubled' \/ leaving'[y] # 0
      BY <1>1 DEF Kept
    <2>1. CASE TokenDies
      BY <2>1 DEF TokenDies, Holding
    <2>2. ASSUME NEW x \in Tabs, SignOut(x)
          PROVE  /\ leaving[y] # 0 => leaving'[y] # 0
                 /\ live' = live
      BY <2>2 DEF SignOut, KeepTokens, SessionTypes
    <2>3. ASSUME NEW x \in Tabs, Revoked(x)
          PROVE  /\ leaving' = leaving
                 /\ held[y] \in live =>
                      held[y] \in live' \/ y \in troubled' \/ leaving'[y] # 0
      BY <2>3 DEF Revoked, Holding, SessionTypes
    <2>4. QED
      BY <2>1, <2>2, <2>3
  <1>5. QED
    BY <1>1, <1>2, <1>3, <1>4, KeepInv

LEMMA StoreStepInv ==
  ASSUME SessionInv, NEW x \in Tabs, SignedOut(x) \/ CodeRefused(x)
  PROVE  SessionInv'
  <1> USE DEF SessionInv
  <1>1. /\ UNCHANGED <<issued, live>> /\ KeepRequests
        /\ page' \in [Tabs -> {"app", "exchange", "me", "rotated", "pending", "error"}]
        /\ leaving' \in [Tabs -> 0..issued]
        /\ \A y \in Tabs \ {x} : leaving'[y] = leaving[y]
    BY DEF SignedOut, CodeRefused, KeepTokens, SetPage, SessionTypes
  <1>2. /\ Settled({})
        /\ pc' \in [Requests -> {"idle", "sent", "refreshing", "resent"}]
        /\ tab' \in [Requests -> Tabs] /\ flight' \in [Requests -> Requests]
        /\ start' \in [Requests -> 0..issued]
        /\ reply' \in [Requests -> (0..issued) \cup {Lost, Refused}]
    BY <1>1, NoneSettled
  <1>3. CASE SetSession(x, 0)
    <2>1. 0 \in 0..issued' /\ issued' = issued
      BY <1>1 DEF SessionTypes
    <2>2. /\ held' \in [Tabs -> 0..issued'] /\ disk' \in 0..issued' /\ troubled' \subseteq Tabs
      BY <1>3, <2>1, SetSessionTypes
    <2>3. SessionTypes'
      BY <1>1, <1>2, <2>1, <2>2 DEF SessionTypes
    <2>4. QED
      BY <1>1, <1>2, <1>3, <2>3, ForgetInv
  <1>4. CASE KeepStore /\ UNCHANGED leaving
    <2>1. SessionTypes'
      BY <1>1, <1>2, <1>4 DEF SessionTypes, KeepStore
    <2>2. \A y \in Tabs : Kept(y, {})
      BY <1>1, <1>4 DEF Kept, KeepStore
    <2>3. QED
      BY <1>2, <1>4, <2>1, <2>2, KeepInv DEF KeepStore
  <1>5. QED
    BY <1>3, <1>4 DEF SignedOut, CodeRefused

LEMMA CodeExchangedInv ==
  ASSUME SessionInv, NEW x \in Tabs, CodeExchanged(x)
  PROVE  SessionInv'
  <1> USE DEF SessionInv
  <1>1. /\ issued < MaxTokens /\ issued' = issued + 1 /\ live' = live \cup {issued'}
        /\ SetSession(x, issued') /\ page' = [page EXCEPT ![x] = "me"]
        /\ UNCHANGED <<leaving, start, flight, reply>>
    BY DEF CodeExchanged, SetPage
  <1>2. PICK r \in Requests : /\ pc[r] = "idle" /\ pc' = [pc EXCEPT ![r] = "sent"]
                              /\ tab' = [tab EXCEPT ![r] = x]
    BY DEF CodeExchanged
  <1>3. issued' \in 1..MaxTokens /\ issued \in 0..MaxTokens /\ issued \in Nat
    BY <1>1, WebSessionAssumption DEF SessionTypes
  <1>4. start[r] = 0 /\ reply[r] = 0 /\ ~InFlight(r)
    BY <1>2 DEF Waits, InFlight
  <1>5. Settled({r})
    BY <1>1, <1>2, <1>4 DEF Settled, SessionTypes, Waits
  <1>6. SessionTypes'
    <2>1. /\ held' \in [Tabs -> 0..issued'] /\ disk' \in 0..issued' /\ troubled' \subseteq Tabs
      <3>1. issued' \in 0..issued' /\ issued' \in {issued, issued + 1}
        BY <1>1, <1>3
      <3>2. QED
        BY <1>1, <3>1, SetSessionTypes
    <2>2. /\ leaving' \in [Tabs -> 0..issued'] /\ start' \in [Requests -> 0..issued']
          /\ reply' \in [Requests -> (0..issued') \cup {Lost, Refused}]
      BY <1>1, <1>3 DEF SessionTypes
    <2>3. live' \subseteq 1..issued' /\ issued' \in 0..MaxTokens
      BY <1>1, <1>3 DEF SessionTypes
    <2>4. QED
      BY <1>1, <1>2, <2>1, <2>2, <2>3 DEF SessionTypes
  <1>7. \A g \in Requests : start[g] # issued' /\ reply[g] # issued'
    <2>1. issued' # Lost /\ issued' # Refused
      BY <1>3, Replies DEF Tokens
    <2>2. \A i \in 0..issued : i # issued'
      BY <1>1, <1>3
    <2>3. QED
      BY <2>1, <2>2 DEF SessionTypes
  <1>8. Unclaimed(issued', {r})
    BY <1>7 DEF Unclaimed
  <1>9. QED
    BY <1>1, <1>4, <1>5, <1>6, <1>7, <1>8, StoreInv

LEMMA SessionStepInv == SessionInv /\ [SessionNext]_sessionVars => SessionInv'
  <1>1. ASSUME SessionInv, UNCHANGED sessionVars PROVE SessionInv'
    BY <1>1 DEF sessionVars, SessionInv, SessionTypes, Waits, OneRefresh, Fresh, Backed, Blamed,
       Got, InFlight
  <1>2. ASSUME SessionInv, NEW x \in Tabs, Reload(x) \/ SignIn(x) PROVE SessionInv'
    BY <1>2, LoadInv DEF Reload, SignIn
  <1>3. QED
    BY <1>1, <1>2, SendInv, RequestAnsweredInv, UnauthorizedInv, AskServerInv, LandInv,
       TokenStepInv, StoreStepInv, CodeExchangedInv DEF SessionNext

LEMMA SessionInvariance == Spec => []SessionInv
  <1>1. Init => SessionInv
    BY SessionInitInv DEF Init
  <1>2. SessionInv /\ [Next]_vars => SessionInv'
    BY SessionStepInv DEF Next, vars, Streaming, Browsing, Uploading, Authenticating
  <1>3. QED
    BY <1>1, <1>2, PTL DEF Spec

KeptStep ==
  \A x \in Tabs :
    /\ held[x] # 0 /\ held'[x] = 0
         => \/ leaving[x] # 0 \/ x \in troubled \/ disk = 0
            \/ page[x] \in {"exchange"} \cup Entering
    /\ held[x] = 0 /\ held'[x] # 0
         => page[x] = "exchange" \/ held'[x] = disk

LEMMA KeptStepHolds == SessionInv /\ [SessionNext]_sessionVars => KeptStep
  <1> SUFFICES ASSUME SessionInv, [SessionNext]_sessionVars PROVE KeptStep
    OBVIOUS
  <1> USE DEF SessionInv, SessionTypes
  <1>1. CASE UNCHANGED held
    BY <1>1 DEF KeptStep
  <1>2. ASSUME NEW r \in Requests, Fails(r) PROVE KeptStep
    BY <1>2 DEF Fails, KeepStore, SetSession, KeptStep
  <1>3. ASSUME NEW r \in Requests, Unauthorized(r) PROVE KeptStep
    BY <1>3 DEF Unauthorized, KeepStore, SetSession, KeptStep
  <1>4. ASSUME NEW f \in Requests, Land(f) PROVE KeptStep
    <2>1. tab[f] \in Tabs /\ start[f] # 0 /\ InFlight(f)
      BY <1>4 DEF Land, InFlight, Waits
    <2>2. CASE reply[f] \in Tokens /\ StillHeld(f)
      <3>1. held' = [held EXCEPT ![tab[f]] = reply[f]] /\ held[tab[f]] # 0 /\ reply[f] # 0
        BY <1>4, <2>1, <2>2, Replies DEF Land, SetSession, StillHeld
      <3>2. QED
        BY <3>1 DEF KeptStep
    <2>3. CASE reply[f] \notin Tokens /\ held[tab[f]] = start[f]
      <3>1. reply[f] \in {Lost, Refused}
        BY <1>4, <2>3, Replies DEF Land
      <3>2. held' = [held EXCEPT ![tab[f]] = 0]
        BY <1>4, <2>3 DEF Land, SetSession
      <3>3. QED
        BY <2>1, <2>3, <3>1, <3>2 DEF Blamed, KeptStep
    <2>4. CASE held[tab[f]] # start[f]
      BY <1>4, <2>4 DEF Land, StillHeld, SetSession, KeepStore, KeptStep
    <2>5. QED
      BY <2>2, <2>3, <2>4 DEF StillHeld
  <1>5. ASSUME NEW x \in Tabs, SignedOut(x) PROVE KeptStep
    BY <1>5 DEF SignedOut, SetSession, KeptStep
  <1>6. ASSUME NEW x \in Tabs, Reload(x) \/ SignIn(x) PROVE KeptStep
    BY <1>6 DEF Reload, SignIn, Load, KeptStep
  <1>7. ASSUME NEW x \in Tabs, CodeExchanged(x) \/ CodeRefused(x) PROVE KeptStep
    BY <1>7 DEF CodeExchanged, CodeRefused, SetSession, KeepStore, KeptStep
  <1>8. QED
    BY <1>1, <1>2, <1>3, <1>4, <1>5, <1>6, <1>7
    DEF SessionNext, sessionVars, Send, Succeeds, AskServer, SignOut, Revoked, TokenDies, KeepStore

\* Requests of a tab that meet 401s never cost it the session, in whatever order they come
\* and whatever other tabs do, and no late refresh gives one back.
THEOREM RefreshesKeepSession == Spec => SessionKept
  <1>1. SessionInv /\ [Next]_vars => [KeptStep]_sessionVars
    BY KeptStepHolds DEF Next, vars, Streaming, Browsing, Uploading, Authenticating
  <1>2. Spec => [][KeptStep]_sessionVars
    BY <1>1, SessionInvariance, PTL DEF Spec
  <1>3. QED
    BY <1>2 DEF SessionKept, KeptStep

-----------------------------------------------------------------------------
(* All four.                                                               *)

LEMMA FetchesCounted == KeysInv => Cardinality({c \in Checks : step[c] = "fetch"}) <= 1
  <1> DEFINE F == {c \in Checks : step[c] = "fetch"}
  <1> SUFFICES ASSUME KeysInv PROVE Cardinality(F) <= 1
    OBVIOUS
  <1>1. CASE F = {}
    BY <1>1, FS_EmptySet
  <1>2. CASE F # {}
    <2>1. PICK c \in F : TRUE
      BY <1>2
    <2>2. F = {c}
      BY <2>1 DEF KeysInv
    <2>3. QED
      BY <2>2, FS_Singleton
  <1>3. QED
    BY <1>1, <1>2

LEMMA ApiTypes == ApiInv => ApiTypeOK
  <1> SUFFICES ASSUME ApiInv PROVE ApiTypeOK
    OBVIOUS
  <1>1. users \in [Callers -> SUBSET Rows]
    BY DEF ApiInv, RowsInv, Rows
  <1>2. QED
    BY <1>1, FetchesCounted DEF ApiInv, KeysInv, RowsInv, ApiTypeOK, Steps

LEMMA SessionTypesOK == SessionInv => SessionTypeOK
  <1> SUFFICES ASSUME SessionInv PROVE SessionTypeOK
    OBVIOUS
  <1>1. (0..issued) \cup {Lost, Refused} \subseteq 0..Refused
    BY WebSessionAssumption DEF SessionInv, SessionTypes, Lost, Refused
  <1>2. reply \in [Requests -> 0..Refused]
    BY <1>1 DEF SessionInv, SessionTypes
  <1>3. QED
    BY <1>2 DEF SessionInv, SessionTypes, Waits, SessionTypeOK

\* Every value has its type; no two fetches of the keys overlap, an answer comes back for a
\* refresh that somebody waits for, and the page's slots and previews are those of its items.
THEOREM TypeCorrect == Spec => []TypeOK
  <1> DEFINE SceneOK == scene \in {"stream", "session", "upload", "api"}
  <1>1. Init => SceneOK
    BY DEF Init
  <1>2. SceneOK /\ [Next]_vars => SceneOK'
    BY DEF Next, vars, Streaming, Browsing, Uploading, Authenticating
  <1>3. SceneOK /\ StreamInv /\ SessionInv /\ UploadInv /\ ApiInv => TypeOK
    BY SessionTypesOK, ApiTypes DEF TypeOK, StreamInv, UploadInv
  <1> HIDE DEF SceneOK
  <1>4. Spec => []SceneOK
    BY <1>1, <1>2, PTL DEF Spec
  <1>5. QED
    BY <1>3, <1>4, StreamInvariance, SessionInvariance, UploadInvariance, ApiInvariance, PTL
=============================================================================
