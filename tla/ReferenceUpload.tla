--------------------------- MODULE ReferenceUpload ---------------------------
(***************************************************************************)
(* The hook useReferenceUpload of the creation page and of the alias page: *)
(* reference images that the user drops are validated and uploaded, each   *)
(* by its own request, while the page may move on to another session with  *)
(* the hook still mounted.  Code between two awaits runs without           *)
(* interruption, so it is one step; the effect that resets the hook runs   *)
(* before any handler of the new session.                                  *)
(*                                                                         *)
(* An image is known by its localId, which is used once.  The server's     *)
(* side of an upload is in Uploads.                                        *)
(***************************************************************************)
EXTENDS Naturals, FiniteSets

CONSTANTS Images,    \* files the user picks, in any batch
          Batches,   \* calls of addFiles under way
          Sessions,  \* sessions the page may show
          MaxImages  \* MAX_REFERENCE_IMAGES

ASSUME ReferenceUploadAssumption ==
  /\ MaxImages \in Nat \ {0}
  /\ Sessions # {} /\ {"gone", "none"} \cap Sessions = {}

VARIABLES current,   \* session of the page, "gone" when the hook is unmounted
          item,      \* [Images -> status of the item, "none" when there is none]
          origin,    \* [Images -> session its referenceImageId was minted in]
          slots,     \* keys of filesRef
          previews,  \* keys of objectUrlsRef
          batch,     \* [Batches -> files to validate, files accepted, session of the call]
          uploading, \* [Images -> session of the upload in flight, "none"]
          unstarted  \* accepted files whose batch threw (history)

uploadVars == <<current, item, origin, slots, previews, batch, uploading, unstarted>>

NoBatch == [todo |-> {}, accepted |-> {}, session |-> "none"]

Items == {i \in Images : item[i] # "none"}
Unsettled == {i \in Images : item[i] \in {"uploading", "error"}}

\* filesRef and objectUrlsRef mirror the items: a slot for each, and a preview until the
\* server's URL takes its place.
UploadTypeOK ==
  /\ current \in Sessions \cup {"gone"}
  /\ item \in [Images -> {"none", "uploading", "ready", "error"}]
  /\ origin \in [Images -> Sessions \cup {"none"}]
  /\ uploading \in [Images -> Sessions \cup {"none"}]
  /\ batch \in [Batches -> [todo : SUBSET Images, accepted : SUBSET Images,
                            session : Sessions \cup {"none"}]]
  /\ unstarted \subseteq Images
  /\ slots = Items /\ previews = Unsettled

UploadInit ==
  /\ current = CHOOSE s \in Sessions : TRUE
  /\ item = [i \in Images |-> "none"] /\ origin = [i \in Images |-> "none"]
  /\ slots = {} /\ previews = {}
  /\ batch = [b \in Batches |-> NoBatch]
  /\ uploading = [i \in Images |-> "none"]
  /\ unstarted = {}

-----------------------------------------------------------------------------
\* Variant: whoever comes back from an await believes to be in the session it left.
NeverStale(s) == FALSE

\* The hook was unmounted, or shows another session by now.
Stale(s) == current # s

SetItem(i, s) == item' = [item EXCEPT ![i] = s]

KeepItems == UNCHANGED <<item, slots, previews>>

Full(files) == Cardinality(files) >= MaxImages

\* The loop of addFiles up to its next await: without a free slot the rest is rejected,
\* and at the end the accepted files start, whether they are still there or not.
Proceed(b, rest, accepted, s) ==
  IF rest = {} \/ Full(slots')
  THEN /\ batch' = [batch EXCEPT ![b] = NoBatch]
       /\ uploading' = [i \in Images |-> IF i \in accepted THEN s ELSE uploading[i]]
  ELSE /\ batch' = [batch EXCEPT ![b] = [todo |-> rest, accepted |-> accepted, session |-> s]]
       /\ UNCHANGED uploading

\* An image of the model is picked once.
Unused(i) ==
  /\ item[i] = "none" /\ origin[i] = "none" /\ uploading[i] = "none" /\ i \notin unstarted
  /\ \A b \in Batches : i \notin batch[b].todo \cup batch[b].accepted

AddFiles(b) ==
  /\ current # "gone" /\ batch[b] = NoBatch
  /\ \E files \in SUBSET {i \in Images : Unused(i)} :
       /\ files # {}
       /\ KeepItems /\ Proceed(b, files, {}, current)
  /\ UNCHANGED <<current, origin, unstarted>>

Ends(b) == batch' = [batch EXCEPT ![b] = NoBatch] /\ UNCHANGED uploading

\* validateFile finds fault with the file, or nothing; then the slots are counted again.
Validated(b, i) ==
  /\ i \in batch[b].todo
  /\ LET now == batch[b] IN
     \/ Stale(now.session) /\ KeepItems /\ Ends(b)
     \/ /\ ~Stale(now.session)
        /\ KeepItems /\ Proceed(b, now.todo \ {i}, now.accepted, now.session)
     \/ /\ ~Stale(now.session) /\ ~Full(slots)
        /\ SetItem(i, "uploading") /\ slots' = slots \cup {i} /\ previews' = previews \cup {i}
        /\ Proceed(b, now.todo \ {i}, now.accepted \cup {i}, now.session)
  /\ UNCHANGED <<current, origin, unstarted>>

\* The file cannot be read: addFiles throws, and what it had accepted never starts.
Unreadable(b) ==
  /\ batch[b].todo # {}
  /\ unstarted' = unstarted \cup batch[b].accepted
  /\ KeepItems /\ Ends(b)
  /\ UNCHANGED <<current, origin>>

-----------------------------------------------------------------------------
Settles(i) == uploading' = [uploading EXCEPT ![i] = "none"] /\ UNCHANGED <<current, batch, unstarted>>

\* The server answers; an item that was removed meanwhile is left alone.
UploadDone(i) ==
  /\ uploading[i] # "none" /\ Settles(i)
  /\ origin' = [origin EXCEPT ![i] = uploading[i]]
  /\ IF Stale(uploading[i]) \/ item[i] = "none"
     THEN KeepItems
     ELSE SetItem(i, "ready") /\ previews' = previews \ {i} /\ UNCHANGED slots

UploadFails(i) ==
  /\ uploading[i] # "none" /\ Settles(i)
  /\ IF Stale(uploading[i]) \/ item[i] = "none" THEN UNCHANGED item ELSE SetItem(i, "error")
  /\ UNCHANGED <<origin, slots, previews>>

\* The button is there for items with an error.
Retry(i) ==
  /\ item[i] = "error" /\ i \in slots
  /\ SetItem(i, "uploading")
  /\ uploading' = [uploading EXCEPT ![i] = current]
  /\ UNCHANGED <<current, origin, slots, previews, batch, unstarted>>

Remove(i) ==
  /\ item[i] # "none"
  /\ SetItem(i, "none") /\ slots' = slots \ {i} /\ previews' = previews \ {i}
  /\ UNCHANGED <<current, origin, batch, uploading, unstarted>>

Clear ==
  /\ item' = [i \in Images |-> "none"] /\ slots' = {} /\ previews' = {}
  /\ UNCHANGED <<origin, batch, uploading, unstarted>>

\* The reset button of the panel.
ResetPanel == Items # {} /\ Clear /\ UNCHANGED current

\* The page shows another session; the effect resets the hook.
ChangeSession == current # "gone" /\ current' \in Sessions \ {current} /\ Clear

\* What is left of an unmounted hook is seen by nobody.
Unmount == current # "gone" /\ current' = "gone" /\ Clear

UploadNext ==
  \/ \E b \in Batches : AddFiles(b) \/ Unreadable(b) \/ \E i \in Images : Validated(b, i)
  \/ \E i \in Images : UploadDone(i) \/ UploadFails(i) \/ Retry(i) \/ Remove(i)
  \/ ResetPanel \/ ChangeSession \/ Unmount

-----------------------------------------------------------------------------
\* What a submit sends are at most MaxImages ids, all minted in the session it goes to; and
\* no item waits for nothing, which would disable the submit: it is being uploaded for the
\* session of the page, or will be once its batch is validated - unless a file of the batch
\* could not be read.
ReferencesBelong ==
  /\ Cardinality(Items) <= MaxImages
  /\ \A i \in Images : item[i] = "ready" => origin[i] = current
  /\ \A i \in Images \ unstarted : item[i] = "uploading" =>
       \/ uploading[i] = current
       \/ \E b \in Batches : i \in batch[b].accepted /\ batch[b].session = current
=============================================================================
