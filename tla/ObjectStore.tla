----------------------------- MODULE ObjectStore -----------------------------
(***************************************************************************)
(* What StorageBackend promises its callers, while calls overlap: a key    *)
(* holds one whole content or nothing, and a call takes effect at an       *)
(* instant between its request and its answer.  A copy has two: it takes   *)
(* what the source holds, and later installs it at the destination.        *)
(***************************************************************************)
CONSTANTS Keys, Calls, Contents

VARIABLES object,  \* [Keys -> the content of the key, "none"]
          ask,     \* [Calls -> what was asked: operation, source and destination]
          stage,   \* [Calls -> how far the call is]
          carried  \* [Calls -> what a copy or a get has taken, "none"]

storeVars == <<object, ask, stage, carried>>

StoreInit ==
  /\ object \in [Keys -> Contents \cup {"none"}]
  /\ ask = [c \in Calls |-> [op |-> "none", from |-> "none", to |-> "none"]]
  /\ stage = [c \in Calls |-> "idle"]
  /\ carried = [c \in Calls |-> "none"]

Asks(c) == stage[c] = "asked"

To(c, s) == stage' = [stage EXCEPT ![c] = s]

\* An operation names the keys it works on.
Request(c) ==
  /\ stage[c] = "idle" /\ To(c, "asked")
  /\ \E op \in {"put", "copy", "get", "delete"}, from, to \in Keys \cup {"none"} :
       ask' = [ask EXCEPT ![c] = [op |-> op, from |-> from, to |-> to]]
  /\ UNCHANGED <<object, carried>>

Put(c) ==
  /\ Asks(c) /\ ask[c].op = "put" /\ To(c, "ok")
  /\ object' = [object EXCEPT ![ask[c].to] = c]
  /\ UNCHANGED <<ask, carried>>

Delete(c) ==
  /\ Asks(c) /\ ask[c].op = "delete" /\ To(c, "ok")
  /\ object' = [object EXCEPT ![ask[c].to] = "none"]
  /\ UNCHANGED <<ask, carried>>

Take(c) ==
  /\ Asks(c) /\ ask[c].op \in {"copy", "get"} /\ To(c, "taken")
  /\ object[ask[c].from] # "none"
  /\ carried' = [carried EXCEPT ![c] = object[ask[c].from]]
  /\ UNCHANGED <<object, ask>>

\* The source was missing at an instant of the call.
Miss(c) ==
  /\ \/ Asks(c) /\ ask[c].op \in {"copy", "get"}
     \/ stage[c] = "taken" /\ ask[c].op = "copy"
  /\ object[ask[c].from] = "none"
  /\ To(c, "missing") /\ carried' = [carried EXCEPT ![c] = "none"]
  /\ UNCHANGED <<object, ask>>

\* A copy of a key to itself changes nothing.
Same(c) ==
  /\ Asks(c) /\ ask[c].op = "copy" /\ ask[c].from = ask[c].to
  /\ object[ask[c].from] # "none" /\ To(c, "installed")
  /\ UNCHANGED <<object, ask, carried>>

Install(c) ==
  /\ stage[c] = "taken" /\ ask[c].op = "copy" /\ To(c, "installed")
  /\ object' = [object EXCEPT ![ask[c].to] = carried[c]]
  /\ carried' = [carried EXCEPT ![c] = "none"]
  /\ UNCHANGED ask

\* The answer describes the destination, which is an error when it is gone by then.
Describe(c) ==
  /\ stage[c] = "installed"
  /\ IF object[ask[c].to] = "none" THEN To(c, "error") ELSE To(c, "ok")
  /\ UNCHANGED <<object, ask, carried>>

\* A get returns what it took.
Return(c) ==
  /\ stage[c] = "taken" /\ ask[c].op = "get" /\ To(c, "ok")
  /\ UNCHANGED <<object, ask, carried>>

\* A write that fails has no effect.
Fail(c) ==
  /\ stage[c] \in {"asked", "taken"} /\ ask[c].op \in {"put", "copy"} /\ To(c, "error")
  /\ carried' = [carried EXCEPT ![c] = "none"]
  /\ UNCHANGED <<object, ask>>

\* The process of the call dies.
Lose(c) ==
  /\ stage[c] \in {"asked", "taken", "installed"} /\ To(c, "lost")
  /\ carried' = [carried EXCEPT ![c] = "none"]
  /\ UNCHANGED <<object, ask>>

StoreNext ==
  \E c \in Calls :
    \/ Request(c) \/ Put(c) \/ Delete(c) \/ Take(c) \/ Miss(c) \/ Same(c)
    \/ Install(c) \/ Describe(c) \/ Return(c) \/ Fail(c) \/ Lose(c)

StoreSpec == StoreInit /\ [][StoreNext]_storeVars
=============================================================================
