------------------------------ MODULE ModelCalls ------------------------------
(***************************************************************************)
(* The calls of one model through its client: GptImage2Client and          *)
(* Gpt5MiniClient, which send one request and retry it; VeoClient, which   *)
(* submits an operation, polls it and downloads the result; and the prompt *)
(* reconciler with its cache in front of Gpt5MiniClient.  Each call asks   *)
(* the breaker once, at its start.  Models share nothing, so a behaviour   *)
(* has one service.                                                        *)
(*                                                                         *)
(* What a provider sends back is one of the classes that errors.py makes   *)
(* of it; delays between attempts are left out.                            *)
(***************************************************************************)
EXTENDS CircuitBreaker

CONSTANTS Inputs,      \* reconciler inputs with the same cache key
          EmptyNote,   \* those without a freeform note
          MaxRetries,  \* max_retries of the client
          RaiRetries,  \* VEO_RAI_MAX_RETRIES
          MaxPolls     \* VEO_MAX_POLL_ATTEMPTS

ASSUME ModelCallsAssumption ==
  /\ EmptyNote \subseteq Inputs /\ Inputs # {}
  /\ MaxRetries \in Nat /\ RaiRetries \in Nat
  /\ MaxPolls \in Nat \ {0}

VARIABLES service,  \* which client the behaviour is about
          pc,       \* [Calls -> where the call is]
          input,    \* [Calls -> what a reconciler call is about]
          preview,  \* calls that never write the cache
          tries,    \* [Calls -> failed attempts of the current submission]
          polls,    \* [Calls -> polls of the current operation]
          filtered, \* [Calls -> operations the RAI filter refused]
          named,    \* [Calls -> operations whose name the client got]
          verdict,  \* [Calls -> class of the provider's last answer]
          outcome,  \* [Calls -> how the call ended]
          cache     \* [Inputs -> what is stored under the key]

callVars ==
  <<service, pc, input, preview, tries, polls, filtered, named, verdict, outcome, cache>>
vars == <<breakerVars, callVars>>

Services == {"image", "reconciler", "veo"}
Steps == {"idle", "lookup", "gate", "attempt", "poll", "fetch", "succeed",
          "record", "count", "open", "store", "over"}

\* The errors errors.py makes: "retryable" for timeouts, transport errors, 429, 5xx and
\* unusable answers, "fatal" for the rest of 4xx, refusals, truncation and quota.
ErrorClasses == {"retryable", "fatal"}

\* A "misshapen" answer is JSON that the reconciler's schema refuses.
Verdicts == {"none", "good", "misshapen", "rai"} \cup ErrorClasses

Outcomes == {"none", "ok", "cached", "invalid", "refused", "failed", "conflict", "redis", "cut"}

\* The cache never holds an output composed of an answer that was not validated.
TypeOK ==
  /\ BreakerTypeOK
  /\ service \in Services
  /\ pc \in [Calls -> Steps]
  /\ input \in [Calls -> Inputs]
  /\ preview \subseteq Calls
  /\ tries \in [Calls -> 0..MaxRetries]
  /\ polls \in [Calls -> 0..MaxPolls]
  /\ filtered \in [Calls -> 0..(RaiRetries + 1)]
  /\ named \in [Calls -> Nat]
  /\ verdict \in [Calls -> Verdicts]
  /\ outcome \in [Calls -> Outcomes]
  /\ cache \in [Inputs -> {"none", "good"}]

Init ==
  /\ BreakerInit
  /\ service \in Services
  /\ pc = [c \in Calls |-> "idle"]
  /\ input = [c \in Calls |-> CHOOSE i \in Inputs : TRUE]
  /\ preview = {}
  /\ tries = [c \in Calls |-> 0]
  /\ polls = [c \in Calls |-> 0]
  /\ filtered = [c \in Calls |-> 0]
  /\ named = [c \in Calls |-> 0]
  /\ verdict = [c \in Calls |-> "none"]
  /\ outcome = [c \in Calls |-> "none"]
  /\ cache = [i \in Inputs |-> "none"]

-----------------------------------------------------------------------------
Goto(c, s) == pc' = [pc EXCEPT ![c] = s]
End(c, o) == Goto(c, "over") /\ outcome' = [outcome EXCEPT ![c] = o]
SetVerdict(c, v) == verdict' = [verdict EXCEPT ![c] = v]

KeepAsked == UNCHANGED <<service, input, preview>>
KeepRounds == UNCHANGED <<tries, polls, filtered, named>>

-----------------------------------------------------------------------------
(* The start of a call.                                                    *)

\* A job or a tool asks for an image or a video.
Begin(c) ==
  /\ pc[c] = "idle" /\ service # "reconciler"
  /\ Goto(c, "gate")
  /\ UNCHANGED <<breakerVars, outcome, verdict, cache>> /\ KeepAsked /\ KeepRounds

\* reconcile, for a job.
BeginReconcile(c) ==
  /\ pc[c] = "idle" /\ service = "reconciler"
  /\ \E i \in Inputs : input' = [input EXCEPT ![c] = i]
  /\ Goto(c, "lookup")
  /\ UNCHANGED <<breakerVars, service, preview, outcome, verdict, cache>>
  /\ KeepRounds

\* The prompt service checks the input first, then asks for a preview.
BeginPreview(c) ==
  /\ pc[c] = "idle" /\ service = "reconciler"
  /\ \/ /\ \E i \in Inputs : input' = [input EXCEPT ![c] = i]
        /\ preview' = preview \cup {c}
        /\ Goto(c, "lookup") /\ UNCHANGED outcome
     \/ End(c, "invalid") /\ UNCHANGED <<input, preview>>
  /\ UNCHANGED <<breakerVars, service, verdict, cache>>
  /\ KeepRounds

\* _read_cache, where a Redis error is a miss; an empty note needs no model.
LookUp(c) ==
  /\ pc[c] = "lookup"
  /\ \/ cache[input[c]] # "none" /\ End(c, "cached") /\ UNCHANGED verdict
     \/ /\ input[c] \in EmptyNote
        /\ SetVerdict(c, "good") /\ Goto(c, "store") /\ UNCHANGED outcome
     \/ input[c] \notin EmptyNote /\ Goto(c, "gate") /\ UNCHANGED <<outcome, verdict>>
  /\ UNCHANGED <<breakerVars, cache>> /\ KeepAsked /\ KeepRounds

\* raise_if_open; an error of Redis ends the call like any other exception.
Gate(c) ==
  /\ pc[c] = "gate"
  /\ \/ ~IsOpen /\ Goto(c, "attempt") /\ UNCHANGED outcome
     \/ IsOpen /\ End(c, "refused")
     \/ End(c, "redis")
  /\ UNCHANGED <<breakerVars, verdict, cache>> /\ KeepAsked /\ KeepRounds

-----------------------------------------------------------------------------
(* The exchange with the provider.                                         *)

\* A retryable failure past the last retry counts once, whatever led to it.
AttemptFails(c) ==
  /\ pc[c] = "attempt"
  /\ \/ /\ SetVerdict(c, "retryable")
        /\ IF tries[c] < MaxRetries
           THEN tries' = [tries EXCEPT ![c] = @ + 1] /\ UNCHANGED pc
           ELSE Goto(c, "record") /\ UNCHANGED tries
        /\ UNCHANGED outcome
     \/ SetVerdict(c, "fatal") /\ End(c, "failed") /\ UNCHANGED tries
  /\ UNCHANGED <<breakerVars, polls, filtered, named, cache>> /\ KeepAsked

\* _parse_success finds an image.
ImageAnswered(c) ==
  /\ pc[c] = "attempt" /\ service = "image"
  /\ SetVerdict(c, "good")
  /\ Goto(c, "succeed")
  /\ UNCHANGED <<breakerVars, outcome, cache>> /\ KeepAsked /\ KeepRounds

\* _parse_chat_json finds a JSON object, of whatever shape.
ChatAnswered(c) ==
  /\ pc[c] = "attempt" /\ service = "reconciler"
  /\ SetVerdict(c, "good") \/ SetVerdict(c, "misshapen")
  /\ Goto(c, "succeed")
  /\ UNCHANGED <<breakerVars, outcome, cache>> /\ KeepAsked /\ KeepRounds

\* _submit_job returns the name of the operation, which is being paid for.
SubmitAccepted(c) ==
  /\ pc[c] = "attempt" /\ service = "veo"
  /\ named' = [named EXCEPT ![c] = @ + 1]
  /\ tries' = [tries EXCEPT ![c] = 0]
  /\ polls' = [polls EXCEPT ![c] = 0]
  /\ Goto(c, "poll")
  /\ UNCHANGED <<breakerVars, outcome, verdict, filtered, cache>> /\ KeepAsked

\* _poll_until_done: not done yet, until the attempts are used up.
PollPending(c) ==
  /\ pc[c] = "poll"
  /\ polls' = [polls EXCEPT ![c] = @ + 1]
  /\ IF polls[c] + 1 < MaxPolls THEN UNCHANGED <<pc, verdict>>
     ELSE Goto(c, "record") /\ SetVerdict(c, "retryable")
  /\ UNCHANGED <<breakerVars, outcome, tries, filtered, named, cache>> /\ KeepAsked

PollDone(c) ==
  /\ pc[c] = "poll"
  /\ Goto(c, "fetch")
  /\ UNCHANGED <<breakerVars, outcome, verdict, cache>> /\ KeepAsked /\ KeepRounds

\* Variant: a filtered operation is a failure of the model.
RaiCharged(c) ==
  /\ pc[c] = "poll"
  /\ SetVerdict(c, "rai")
  /\ filtered' = [filtered EXCEPT ![c] = @ + 1]
  /\ Goto(c, IF filtered[c] < RaiRetries THEN "attempt" ELSE "record") /\ UNCHANGED outcome
  /\ UNCHANGED <<breakerVars, tries, polls, named, cache>> /\ KeepAsked

\* The RAI filter refused the video: submit again, within a budget of its own.
RaiFiltered(c) ==
  /\ pc[c] = "poll"
  /\ SetVerdict(c, "rai")
  /\ filtered' = [filtered EXCEPT ![c] = @ + 1]
  /\ IF filtered[c] < RaiRetries THEN Goto(c, "attempt") /\ UNCHANGED outcome
     ELSE End(c, "failed")
  /\ UNCHANGED <<breakerVars, tries, polls, named, cache>> /\ KeepAsked

\* Variant: the failure goes to the retry envelope, which starts the flow again.
RestartOperation(c) ==
  /\ pc[c] = "poll"
  /\ SetVerdict(c, "retryable")
  /\ tries[c] < MaxRetries
  /\ tries' = [tries EXCEPT ![c] = @ + 1]
  /\ Goto(c, "attempt")
  /\ UNCHANGED <<breakerVars, outcome, polls, filtered, named, cache>> /\ KeepAsked

\* After the submission an error ends the call: the operation may be running on.
GiveUp(c) ==
  /\ \/ SetVerdict(c, "retryable") /\ Goto(c, "record") /\ UNCHANGED outcome
     \/ SetVerdict(c, "fatal") /\ End(c, "failed")
  /\ UNCHANGED <<breakerVars, cache>> /\ KeepAsked /\ KeepRounds

\* A poll fails, or the operation ended in an error.
PollFails(c) == pc[c] = "poll" /\ GiveUp(c)

\* The operation has no video, or its download fails, redirects included.
FetchFails(c) == pc[c] = "fetch" /\ GiveUp(c)

\* _fetch_video_bytes, inline or from its uri.
Fetched(c) ==
  /\ pc[c] = "fetch"
  /\ SetVerdict(c, "good")
  /\ Goto(c, "succeed")
  /\ UNCHANGED <<breakerVars, outcome, cache>> /\ KeepAsked /\ KeepRounds

-----------------------------------------------------------------------------
(* The report to the breaker.  Redis may fail at each command: the         *)
(* exception replaces the result, or the error, of the call.               *)

KeepCall == UNCHANGED <<verdict, cache>> /\ KeepAsked /\ KeepRounds

RecordSuccess(c) ==
  /\ pc[c] = "succeed"
  /\ ForgetFailures
  /\ IF service = "reconciler" THEN Goto(c, "store") /\ UNCHANGED outcome ELSE End(c, "ok")
  /\ KeepCall

\* ZADD and EXPIRE.
RecordFailure(c) ==
  /\ pc[c] = "record"
  /\ AddFailure(c)
  /\ Goto(c, "count")
  /\ UNCHANGED outcome
  /\ KeepCall

\* ZREMRANGEBYSCORE and ZCARD.
CountFailures(c) ==
  /\ pc[c] = "count"
  /\ IF Cardinality(failures) >= Threshold THEN Goto(c, "open") /\ UNCHANGED outcome
     ELSE End(c, "failed")
  /\ UNCHANGED breakerVars
  /\ KeepCall

Open(c) ==
  /\ pc[c] = "open"
  /\ OpenCircuit
  /\ End(c, "failed")
  /\ KeepCall

RedisFails(c) ==
  /\ pc[c] \in {"succeed", "record", "count", "open"}
  /\ End(c, "redis")
  /\ UNCHANGED breakerVars
  /\ KeepCall

-----------------------------------------------------------------------------
(* The reconciler, after the model answered.                               *)

\* _validate_llm_response, _compose_output and _write_cache, whose failure is only
\* logged.
Store(c) ==
  /\ pc[c] = "store"
  /\ \/ verdict[c] = "misshapen" /\ End(c, "conflict") /\ UNCHANGED cache
     \/ verdict[c] = "good" /\ End(c, "ok") /\ UNCHANGED cache
     \/ /\ verdict[c] = "good" /\ c \notin preview
        /\ End(c, "ok")
        /\ cache' = [cache EXCEPT ![input[c]] = "good"]
  /\ UNCHANGED <<breakerVars, verdict>> /\ KeepAsked /\ KeepRounds

\* _CACHE_TTL_SECONDS pass.
CacheExpires(i) ==
  /\ cache[i] # "none"
  /\ cache' = [cache EXCEPT ![i] = "none"]
  /\ UNCHANGED <<breakerVars, service, pc, input, preview, tries, polls, filtered, named,
                 verdict, outcome>>

\* The process dies, or the job around the call is cancelled.
Cut(c) ==
  /\ pc[c] \notin {"idle", "over"}
  /\ End(c, "cut")
  /\ UNCHANGED breakerVars
  /\ KeepCall

-----------------------------------------------------------------------------
Next ==
  \/ \E c \in Calls :
       \/ Begin(c) \/ BeginReconcile(c) \/ BeginPreview(c) \/ LookUp(c) \/ Gate(c)
       \/ AttemptFails(c) \/ ImageAnswered(c) \/ ChatAnswered(c) \/ SubmitAccepted(c)
       \/ PollPending(c) \/ PollDone(c) \/ PollFails(c) \/ RaiFiltered(c)
       \/ Fetched(c) \/ FetchFails(c)
       \/ RecordSuccess(c) \/ RecordFailure(c) \/ CountFailures(c) \/ Open(c) \/ RedisFails(c)
       \/ Store(c) \/ Cut(c)
  \/ \E i \in Inputs : CacheExpires(i)
  \/ Tick /\ UNCHANGED callVars

Spec == Init /\ [][Next]_vars

-----------------------------------------------------------------------------
\* The breaker hears of a call exactly once, and only if the model looked sick: a call
\* that failed has recorded a failure if and only if its last answer was retryable,
\* whatever its retries, polls and filtered videos, and a successful one none.
OneFailurePerCall ==
  \A c \in Calls :
    /\ charged[c] <= 1
    /\ charged[c] = 1 => verdict[c] = "retryable"
    /\ outcome[c] = "failed" /\ verdict[c] = "retryable" => charged[c] = 1

\* A video is paid for once: an operation the client knows by name is submitted again
\* only after the RAI filter refused its video, never for a failed poll or download.
PaidOnce == \A c \in Calls : named[c] <= filtered[c] + 1

\* The circuit opens on the evidence of as many different calls as the threshold says,
\* and from then on only time closes it, whatever the calls in flight report.
OpenOnEvidenceUntilTimeout ==
  [][/\ \A c \in Calls : pc[c] # "open" /\ pc'[c] = "open" => Cardinality(Culprits) >= Threshold
     /\ openLeft' < openLeft => openLeft' = openLeft - 1]_vars
=============================================================================
