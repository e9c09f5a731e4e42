---------------------------- MODULE CircuitBreaker ----------------------------
(***************************************************************************)
(* The circuit breaker of one model, shared by every process through two   *)
(* keys of Redis: the sorted set of recent failures and the degraded key   *)
(* whose time to live is the OPEN state.  Each command of record_failure   *)
(* is a step of its own, so calls interleave between them.                 *)
(*                                                                         *)
(* Time is relative: failures carry their age and the degraded key what is *)
(* left of it.  Every reader trims first, so a failure leaves the set as   *)
(* soon as it leaves the window, and the EXPIRE of the set, at twice the   *)
(* window, never matters.                                                  *)
(***************************************************************************)
EXTENDS Naturals, FiniteSets

CONSTANTS Calls,      \* calls of the model's client, in any process
          Threshold,  \* circuit_failure_threshold
          Window,     \* circuit_failure_window_seconds
          OpenFor     \* circuit_open_duration_seconds

ASSUME BreakerAssumption ==
  /\ Threshold \in Nat \ {0} /\ Window \in Nat \ {0}
  /\ OpenFor \in Nat \ {0}

VARIABLES failures,  \* {<<call, age>>}, the members in the window
          openLeft,  \* time left to the degraded key, 0 when there is none
          charged    \* [Calls -> failures recorded] (history)

breakerVars == <<failures, openLeft, charged>>

BreakerTypeOK ==
  /\ failures \subseteq Calls \X (0..(Window - 1))
  /\ openLeft \in 0..OpenFor
  /\ charged \in [Calls -> Nat]

BreakerInit ==
  /\ failures = {}
  /\ openLeft = 0
  /\ charged = [c \in Calls |-> 0]

-----------------------------------------------------------------------------
IsOpen == openLeft > 0

\* Calls that failed in the window since the last success.
Culprits == {f[1] : f \in failures}

\* ZADD, under a member of its own.
AddFailure(c) ==
  /\ charged' = [charged EXCEPT ![c] = @ + 1]
  /\ failures' = failures \cup {<<c, 0>>}
  /\ UNCHANGED openLeft

\* _open: SET with a new time to live, also when the key is there already.
OpenCircuit == openLeft' = OpenFor /\ UNCHANGED <<failures, charged>>

\* Variant: a success also deletes the degraded key.
ForgetAll == failures' = {} /\ openLeft' = 0 /\ UNCHANGED charged

\* record_success: DEL of the failures only.
ForgetFailures == failures' = {} /\ UNCHANGED <<openLeft, charged>>

\* A unit of time passes.
Tick ==
  /\ failures # {} \/ IsOpen
  /\ failures' = {<<f[1], f[2] + 1>> : f \in {g \in failures : g[2] + 1 < Window}}
  /\ openLeft' = IF IsOpen THEN openLeft - 1 ELSE 0
  /\ UNCHANGED charged
=============================================================================
