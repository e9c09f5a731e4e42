-------------------------- MODULE ModelCalls_proofs --------------------------
(***************************************************************************)
(* Proofs about ModelCalls, for any number of calls, threshold, window and *)
(* budgets of retries: a call weighs at most one failure, an operation is  *)
(* paid for once, and the circuit opens on the evidence of as many         *)
(* different calls as the threshold says.                                  *)
(***************************************************************************)
EXTENDS ModelCalls, FiniteSetTheorems, TLAPS

-----------------------------------------------------------------------------
(* The inductive invariant.                                                *)

\* What holds of a call at each of its steps.
CallInv(c) ==
  /\ pc[c] = "poll" => polls[c] < MaxPolls
  /\ pc[c] # "over" => filtered[c] <= RaiRetries
  /\ pc[c] \in {"idle", "lookup", "gate", "attempt"} => named[c] <= filtered[c]
  /\ named[c] <= filtered[c] + 1
  /\ pc[c] = "record" => verdict[c] = "retryable"
  /\ pc[c] \in {"count", "open"} => charged[c] = 1
  /\ pc[c] \notin {"count", "open", "over"} => charged[c] = 0
  /\ charged[c] \in {0, 1}
  /\ charged[c] = 1 => verdict[c] = "retryable"
  /\ outcome[c] # "none" => pc[c] = "over"
  /\ outcome[c] = "failed" /\ verdict[c] = "retryable" => charged[c] = 1

\* The set of failures has one member at most for each call, which was charged for it.
FailuresInv ==
  /\ IsFiniteSet(failures)
  /\ \A f \in failures : charged[f[1]] = 1
  /\ \A f, g \in failures : f[1] = g[1] => f = g

IndInv == TypeOK /\ FailuresInv /\ \A c \in Calls : CallInv(c)

LEMMA InitInv == Init => IndInv
  <1> SUFFICES ASSUME Init PROVE IndInv
    OBVIOUS
  <1> USE BreakerAssumption, ModelCallsAssumption
  <1>1. TypeOK
    BY DEF Init, BreakerInit, TypeOK, BreakerTypeOK, Steps, Outcomes, Verdicts
  <1>2. FailuresInv
    BY FS_EmptySet DEF Init, BreakerInit, FailuresInv
  <1>3. \A c \in Calls : CallInv(c)
    BY DEF Init, BreakerInit, CallInv
  <1>4. QED
    BY <1>1, <1>2, <1>3 DEF IndInv

-----------------------------------------------------------------------------
(* Steps of calls that leave the breaker alone.                            *)

\* A step of c that changes no key of the breaker keeps what holds of the failures.
LEMMA BreakerAtRest ==
  ASSUME IndInv, UNCHANGED breakerVars
  PROVE  FailuresInv'
  BY DEF IndInv, FailuresInv, breakerVars

LEMMA StartInv ==
  ASSUME IndInv, NEW c \in Calls,
         Begin(c) \/ BeginReconcile(c) \/ BeginPreview(c) \/ LookUp(c) \/ Gate(c)
  PROVE  IndInv'
  <1> USE DEF IndInv, KeepAsked, KeepRounds, Goto, End, SetVerdict
  <1>1. UNCHANGED breakerVars
    BY DEF Begin, BeginReconcile, BeginPreview, LookUp, Gate
  <1>2. TypeOK'
    BY <1>1 DEF TypeOK, BreakerTypeOK, Steps, Outcomes, Verdicts, breakerVars, Begin,
         BeginReconcile, BeginPreview, LookUp, Gate
  <1>3. \A d \in Calls : CallInv(d)'
    BY <1>1 DEF TypeOK, CallInv, breakerVars, Begin, BeginReconcile, BeginPreview, LookUp, Gate
  <1>4. QED
    BY <1>1, <1>2, <1>3, BreakerAtRest

LEMMA ExchangeInv ==
  ASSUME IndInv, NEW c \in Calls,
         AttemptFails(c) \/ ImageAnswered(c) \/ ChatAnswered(c) \/ SubmitAccepted(c)
           \/ PollPending(c) \/ PollDone(c)
  PROVE  IndInv'
  <1> USE ModelCallsAssumption DEF IndInv, KeepAsked, KeepRounds, Goto, End, SetVerdict
  <1>1. UNCHANGED breakerVars
    BY DEF AttemptFails, ImageAnswered, ChatAnswered, SubmitAccepted, PollPending, PollDone
  <1>2. TypeOK'
    BY <1>1 DEF TypeOK, BreakerTypeOK, Steps, Outcomes, Verdicts, ErrorClasses, breakerVars,
         CallInv, AttemptFails, ImageAnswered, ChatAnswered, SubmitAccepted, PollPending,
         PollDone
  <1>3. \A d \in Calls : CallInv(d)'
    BY <1>1 DEF TypeOK, CallInv, breakerVars, AttemptFails, ImageAnswered, ChatAnswered,
         SubmitAccepted, PollPending, PollDone
  <1>4. QED
    BY <1>1, <1>2, <1>3, BreakerAtRest

LEMMA OperationInv ==
  ASSUME IndInv, NEW c \in Calls,
         PollFails(c) \/ RaiFiltered(c) \/ Fetched(c) \/ FetchFails(c)
  PROVE  IndInv'
  <1> USE ModelCallsAssumption
      DEF IndInv, KeepAsked, KeepRounds, Goto, End, SetVerdict, GiveUp
  <1>1. UNCHANGED breakerVars
    BY DEF PollFails, RaiFiltered, Fetched, FetchFails
  <1>2. TypeOK'
    BY <1>1 DEF TypeOK, BreakerTypeOK, Steps, Outcomes, Verdicts, ErrorClasses, breakerVars,
         CallInv, PollFails, RaiFiltered, Fetched, FetchFails
  <1>3. \A d \in Calls : CallInv(d)'
    BY <1>1 DEF TypeOK, CallInv, breakerVars, PollFails, RaiFiltered, Fetched, FetchFails
  <1>4. QED
    BY <1>1, <1>2, <1>3, BreakerAtRest

LEMMA EndInv ==
  ASSUME IndInv, NEW c \in Calls,
         CountFailures(c) \/ RedisFails(c) \/ Store(c) \/ Cut(c)
  PROVE  IndInv'
  <1> USE DEF IndInv, KeepAsked, KeepRounds, KeepCall, Goto, End
  <1>1. UNCHANGED breakerVars
    BY DEF CountFailures, RedisFails, Store, Cut
  <1>2. TypeOK'
    BY <1>1 DEF TypeOK, BreakerTypeOK, Steps, Outcomes, breakerVars, CountFailures, RedisFails,
         Store, Cut
  <1>3. \A d \in Calls : CallInv(d)'
    BY <1>1 DEF TypeOK, CallInv, breakerVars, CountFailures, RedisFails, Store, Cut
  <1>4. QED
    BY <1>1, <1>2, <1>3, BreakerAtRest

-----------------------------------------------------------------------------
(* Steps that report to the breaker, and time.                             *)

LEMMA SuccessInv ==
  ASSUME IndInv, NEW c \in Calls, RecordSuccess(c)
  PROVE  IndInv'
  <1> USE DEF IndInv, KeepAsked, KeepRounds, KeepCall, Goto, End, RecordSuccess, ForgetFailures
  <1>1. TypeOK'
    BY DEF TypeOK, BreakerTypeOK, Steps, Outcomes
  <1>2. FailuresInv'
    BY FS_EmptySet DEF FailuresInv
  <1>3. \A d \in Calls : CallInv(d)'
    BY DEF TypeOK, CallInv
  <1>4. QED
    BY <1>1, <1>2, <1>3

\* The failure of a call that was not charged before is the only one of that call.
LEMMA FailureInv ==
  ASSUME IndInv, NEW c \in Calls, RecordFailure(c)
  PROVE  IndInv'
  <1> USE BreakerAssumption
      DEF IndInv, KeepAsked, KeepRounds, KeepCall, Goto, RecordFailure, AddFailure
  <1>1. charged[c] = 0
    BY DEF CallInv
  <1>2. TypeOK'
    BY <1>1 DEF TypeOK, BreakerTypeOK, Steps
  <1>3. FailuresInv'
    <2>1. \A f \in failures : f[1] # c
      BY <1>1 DEF FailuresInv
    <2>2. IsFiniteSet(failures')
      BY FS_AddElement DEF FailuresInv
    <2>3. \A f \in failures' : f \in failures \/ f = <<c, 0>>
      OBVIOUS
    <2>4. \A f \in failures' : charged'[f[1]] = 1
      BY <1>1, <2>1, <2>3 DEF FailuresInv, TypeOK, BreakerTypeOK
    <2>5. \A f, g \in failures' : f[1] = g[1] => f = g
      BY <2>1, <2>3 DEF FailuresInv
    <2>6. QED
      BY <2>2, <2>4, <2>5 DEF FailuresInv
  <1>4. \A d \in Calls : CallInv(d)'
    BY <1>1 DEF TypeOK, BreakerTypeOK, CallInv
  <1>5. QED
    BY <1>2, <1>3, <1>4

LEMMA OpenInv ==
  ASSUME IndInv, NEW c \in Calls, Open(c)
  PROVE  IndInv'
  <1> USE BreakerAssumption DEF IndInv, KeepAsked, KeepRounds, KeepCall, Goto, End, Open, OpenCircuit
  <1>1. TypeOK'
    BY DEF TypeOK, BreakerTypeOK, Steps, Outcomes
  <1>2. FailuresInv'
    BY DEF FailuresInv
  <1>3. \A d \in Calls : CallInv(d)'
    BY DEF TypeOK, CallInv
  <1>4. QED
    BY <1>1, <1>2, <1>3

\* Time moves the failures on, each for itself.
LEMMA TickInv ==
  ASSUME IndInv, Tick, UNCHANGED callVars
  PROVE  IndInv'
  <1> DEFINE Kept == {g \in failures : g[2] + 1 < Window}
             Older == [g \in Kept |-> <<g[1], g[2] + 1>>]
  <1> USE DEF IndInv, Tick, callVars
  <1>1. /\ failures' = {Older[g] : g \in Kept}
        /\ failures \subseteq Calls \X (0..(Window - 1))
    BY DEF TypeOK, BreakerTypeOK
  <1>2. TypeOK'
    <2>1. failures' \subseteq Calls \X (0..(Window - 1))
      BY <1>1, BreakerAssumption
    <2>2. openLeft' \in 0..OpenFor
      BY BreakerAssumption DEF TypeOK, BreakerTypeOK, IsOpen
    <2>3. QED
      BY <2>1, <2>2 DEF TypeOK, BreakerTypeOK
  <1>3. FailuresInv'
    <2>1. IsFiniteSet(Kept)
      BY FS_Subset DEF FailuresInv
    <2>2. Older \in Surjection(Kept, failures')
      BY <1>1 DEF Surjection
    <2>3. IsFiniteSet(failures')
      BY <2>1, <2>2, FS_Surjection
    <2>4. \A f \in failures' : \E g \in failures : f = <<g[1], g[2] + 1>>
      BY <1>1
    <2>5. QED
      BY <2>3, <2>4 DEF FailuresInv
  <1>4. \A d \in Calls : CallInv(d)'
    BY DEF CallInv
  <1>5. QED
    BY <1>2, <1>3, <1>4

LEMMA ExpiryInv ==
  ASSUME IndInv, NEW i \in Inputs, CacheExpires(i)
  PROVE  IndInv'
  BY DEF IndInv, TypeOK, BreakerTypeOK, FailuresInv, CallInv, CacheExpires, breakerVars

LEMMA StepInv == IndInv /\ [Next]_vars => IndInv'
  <1> SUFFICES ASSUME IndInv, [Next]_vars PROVE IndInv'
    OBVIOUS
  <1>1. CASE UNCHANGED vars
    BY <1>1 DEF vars, breakerVars, callVars, IndInv, TypeOK, BreakerTypeOK, FailuresInv, CallInv
  <1>2. CASE Next
    BY <1>2, StartInv, ExchangeInv, OperationInv, EndInv, SuccessInv, FailureInv, OpenInv,
       TickInv, ExpiryInv DEF Next
  <1>3. QED
    BY <1>1, <1>2

LEMMA Invariance == Spec => []IndInv
  BY InitInv, StepInv, PTL DEF Spec

-----------------------------------------------------------------------------
(* What the invariant gives.                                               *)

\* One member for each culprit.
LEMMA CountedIsCulprits ==
  ASSUME IndInv
  PROVE  Cardinality(Culprits) = Cardinality(failures)
  <1> DEFINE Culprit == [f \in failures |-> f[1]]
  <1>1. Culprit \in Bijection(failures, Culprits)
    BY DEF IndInv, FailuresInv, Culprits, Bijection, Injection, Surjection, IsInjective
  <1>2. QED
    BY <1>1, FS_Bijection DEF IndInv, FailuresInv, ExistsBijection

\* Ages, counters, answers and the cache are what the code makes of them.
THEOREM TypeCorrect == Spec => []TypeOK
  BY Invariance, PTL DEF IndInv

\* A call weighs as one failure of the model at most, and as none when the model is not
\* to blame.
THEOREM CallsCountOnce == Spec => []OneFailurePerCall
  <1>1. IndInv => OneFailurePerCall
    BY DEF IndInv, CallInv, OneFailurePerCall
  <1>2. QED
    BY <1>1, Invariance, PTL

\* No failed poll or download makes the client submit another operation.
THEOREM OperationsPaidOnce == Spec => []PaidOnce
  <1>1. IndInv => PaidOnce
    BY DEF IndInv, CallInv, PaidOnce
  <1>2. QED
    BY <1>1, Invariance, PTL

\* The circuit opens on the evidence of as many calls as the threshold says, and only
\* time closes it.
THEOREM CircuitOpensOnEvidence == Spec => OpenOnEvidenceUntilTimeout
  <1> DEFINE Evidence == \A c \in Calls : pc[c] # "open" /\ pc'[c] = "open" =>
                           Cardinality(Culprits) >= Threshold
             Closing == openLeft' < openLeft => openLeft' = openLeft - 1
  <1>1. ASSUME IndInv, Next PROVE Evidence
    <2> SUFFICES ASSUME NEW c \in Calls, pc[c] # "open", pc'[c] = "open"
                 PROVE  Cardinality(failures) >= Threshold
      BY <1>1, CountedIsCulprits
    <2>1. CountFailures(c)
      BY <1>1 DEF IndInv, TypeOK, Next, Goto, End, GiveUp, Begin, BeginReconcile, BeginPreview,
           LookUp, Gate, AttemptFails, ImageAnswered, ChatAnswered, SubmitAccepted, PollPending,
           PollDone, PollFails, RaiFiltered, Fetched, FetchFails, RecordSuccess, RecordFailure,
           CountFailures, Open, RedisFails, Store, Cut, CacheExpires, callVars
    <2>2. QED
      BY <1>1, <2>1 DEF IndInv, TypeOK, CountFailures, End, Goto
  <1>2. ASSUME IndInv, Next PROVE Closing
    <2>1. \/ Tick
          \/ \E c \in Calls : RecordSuccess(c) \/ RecordFailure(c) \/ Open(c)
          \/ UNCHANGED breakerVars
      <3>1. ASSUME NEW c \in Calls,
                   Begin(c) \/ BeginReconcile(c) \/ BeginPreview(c) \/ LookUp(c) \/ Gate(c)
            PROVE  UNCHANGED breakerVars
        BY <3>1 DEF Begin, BeginReconcile, BeginPreview, LookUp, Gate
      <3>2. ASSUME NEW c \in Calls,
                   AttemptFails(c) \/ ImageAnswered(c) \/ ChatAnswered(c) \/ SubmitAccepted(c)
                     \/ PollPending(c) \/ PollDone(c) \/ PollFails(c) \/ RaiFiltered(c)
                     \/ Fetched(c) \/ FetchFails(c)
            PROVE  UNCHANGED breakerVars
        BY <3>2 DEF AttemptFails, ImageAnswered, ChatAnswered, SubmitAccepted, PollPending,
             PollDone, PollFails, RaiFiltered, Fetched, FetchFails, GiveUp
      <3>3. ASSUME NEW c \in Calls, CountFailures(c) \/ RedisFails(c) \/ Store(c) \/ Cut(c)
            PROVE  UNCHANGED breakerVars
        BY <3>3 DEF CountFailures, RedisFails, Store, Cut
      <3>4. ASSUME NEW i \in Inputs, CacheExpires(i)
            PROVE  UNCHANGED breakerVars
        BY <3>4 DEF CacheExpires
      <3>5. QED
        BY <1>2, <3>1, <3>2, <3>3, <3>4 DEF Next
    <2>2. openLeft' = openLeft \/ openLeft' = OpenFor \/ Tick
      BY <2>1 DEF breakerVars, RecordSuccess, RecordFailure, Open, AddFailure, OpenCircuit,
           ForgetFailures
    <2>3. QED
      BY <1>2, <2>2, BreakerAssumption DEF IndInv, TypeOK, BreakerTypeOK, Tick, IsOpen
  <1>3. IndInv /\ [Next]_vars => [Evidence /\ Closing]_vars
    BY <1>1, <1>2
  <1>4. QED
    BY <1>3, Invariance, PTL DEF Spec, OpenOnEvidenceUntilTimeout
=============================================================================
