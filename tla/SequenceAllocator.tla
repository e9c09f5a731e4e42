-------------------------- MODULE SequenceAllocator --------------------------
(***************************************************************************)
(* How a checkpoint of one creation session gets its sequence number:      *)
(* reserve_next_sequence, the seeding of its Redis key by                  *)
(* create_character, and what it reads of the tasks and the checkpoints.   *)
(*                                                                         *)
(* A reservation is three Redis round trips and two queries, each a step   *)
(* of its own; several requests of the session may be at it, while the     *)
(* workers of earlier ones commit and finish.  Redis may forget the key.   *)
(* Every request reserves at most one number, for one task.                *)
(***************************************************************************)
EXTENDS Naturals

CONSTANTS Requests,    \* POST /creation-sessions/{id}/checkpoints, one task each
          Missing,     \* value of a Redis key that does not exist
          Faults,      \* which of AllFaults may happen
          MaxLosses    \* bound on how often Redis loses the key

AllFaults ==
  {"loss",        \* Redis loses the key: restart, eviction
   "query",       \* the query of the tasks in flight fails
   "late_seed"}   \* the session is used before create_character has seeded the key

ASSUME SequenceAssumption ==
  /\ Missing \notin Nat
  /\ Faults \subseteq AllFaults
  /\ MaxLosses \in Nat

VARIABLES key,     \* seq:checkpoint:{session_id}
          seed,    \* create_character's SET 0: "pending" or "over"
          step,    \* [Requests -> where the request or its task is]
          base,    \* [Requests -> baseline of a recovery]
          seq,     \* [Requests -> number reserved, 0 before]
          rows,    \* requests whose checkpoint is committed
          losses,  \* how often the key was lost (bounds the model)
          causes   \* what may have made two requests share a number (history)

sequenceVars == <<key, seed, step, base, seq, rows, losses, causes>>

Reserving == {"persisted", "inflight", "setnx", "incr", "insert"}
InFlight == {r \in Requests : step[r] \in {"live", "written"}}
AllCauses == {"window", "gap", "skew", "degraded", "late_seed"}

SequenceTypeOK ==
  /\ key \in Nat \cup {Missing}
  /\ seed \in {"pending", "over"}
  /\ step \in [Requests -> Reserving \cup {"idle", "live", "written", "over"}]
  /\ base \in [Requests -> Nat]
  /\ seq \in [Requests -> Nat]
  /\ rows \subseteq Requests
  /\ losses \in 0..MaxLosses
  /\ causes \subseteq AllCauses

SequenceInit ==
  /\ key = Missing
  /\ seed = "pending"
  /\ step = [r \in Requests |-> "idle"]
  /\ base = [r \in Requests |-> 0]
  /\ seq = [r \in Requests |-> 0]
  /\ rows = {}
  /\ losses = 0
  /\ causes = {}

-----------------------------------------------------------------------------
Goto(r, s) == step' = [step EXCEPT ![r] = s]
Blame(cause, when) == causes' = IF when THEN causes \cup {cause} ELSE causes
Someone(at) == \E r \in Requests : step[r] \in at

\* base[r] becomes max(b, the largest number of the requests in S).
RaiseBase(r, b, S) ==
  \E m \in {b} \cup {seq[u] : u \in S} :
    /\ \A n \in {b} \cup {seq[u] : u \in S} : n <= m
    /\ base' = [base EXCEPT ![r] = m]

\* create_character, after its commit: SET 0, best effort.  The owner can find the
\* session through the character list by then.
SeedKey ==
  /\ seed = "pending"
  /\ seed' = "over"
  /\ \/ key' = 0 /\ Blame("late_seed", Someone(Reserving \cup {"live", "written", "over"}))
     \/ UNCHANGED <<key, causes>>
  /\ UNCHANGED <<step, base, seq, rows, losses>>

LoseKey ==
  /\ "loss" \in Faults
  /\ key # Missing
  /\ losses < MaxLosses
  /\ losses' = losses + 1
  /\ key' = Missing
  /\ causes' = causes \cup {c \in {"window"} : Someone({"insert"})}
                     \cup {c \in {"gap"} : Someone({"setnx", "incr"})}
  /\ UNCHANGED <<seed, step, base, seq, rows>>

-----------------------------------------------------------------------------
(* reserve_next_sequence, and the commit of the task that carries its      *)
(* answer.                                                                 *)

\* EXISTS
CheckKey(r) ==
  /\ step[r] = "idle"
  /\ seed = "over" \/ "late_seed" \in Faults
  /\ Goto(r, IF key = Missing THEN "persisted" ELSE "incr")
  /\ UNCHANGED <<key, seed, base, seq, rows, losses, causes>>

ReadPersisted(r) ==
  /\ step[r] = "persisted"
  /\ RaiseBase(r, 0, rows)
  /\ Goto(r, "inflight")
  /\ UNCHANGED <<key, seed, seq, rows, losses, causes>>

\* Variant: the baseline comes from the checkpoints alone.
ReadNothing(r) ==
  /\ step[r] = "inflight"
  /\ Goto(r, "setnx")
  /\ UNCHANGED <<key, seed, base, seq, rows, losses, causes>>

\* The query is caught when it fails, and counts as 0.
ReadInFlight(r) ==
  /\ step[r] = "inflight"
  /\ \/ RaiseBase(r, base[r], InFlight) /\ UNCHANGED causes
     \/ "query" \in Faults /\ UNCHANGED base /\ Blame("degraded", TRUE)
  /\ Goto(r, "setnx")
  /\ UNCHANGED <<key, seed, seq, rows, losses>>

\* Variant: SET in the place of SETNX.
OverwriteBaseline(r) ==
  /\ step[r] = "setnx"
  /\ key' = base[r]
  /\ Goto(r, "incr")
  /\ UNCHANGED <<seed, base, seq, rows, losses, causes>>

\* SETNX
PlantBaseline(r) ==
  /\ step[r] = "setnx"
  /\ key' = IF key = Missing THEN base[r] ELSE key
  /\ Goto(r, "incr")
  /\ UNCHANGED <<seed, base, seq, rows, losses, causes>>

\* INCR, which creates a missing key at 0.
Increment(r) ==
  /\ step[r] = "incr"
  /\ key' = (IF key = Missing THEN 0 ELSE key) + 1
  /\ seq' = [seq EXCEPT ![r] = key']
  /\ Goto(r, "insert")
  /\ UNCHANGED <<seed, base, rows, losses, causes>>

\* create_task commits the task row with the number in its payload.
InsertTask(r) ==
  /\ step[r] = "insert"
  /\ Goto(r, "live")
  /\ UNCHANGED <<key, seed, base, seq, rows, losses, causes>>

\* Redis or the database answers with an error, or the process dies.
RequestFails(r) ==
  /\ step[r] \in Reserving
  /\ Goto(r, "over")
  /\ UNCHANGED <<key, seed, base, seq, rows, losses, causes>>

-----------------------------------------------------------------------------
(* The worker, as far as the allocator can see it.                         *)

\* INSERT of the checkpoint, refused by uq_session_sequence when the number is taken.
CommitCheckpoint(r) ==
  /\ step[r] = "live"
  /\ \A u \in rows : seq[u] # seq[r]
  /\ rows' = rows \cup {r}
  /\ Goto(r, "written")
  /\ UNCHANGED <<key, seed, base, seq, losses, causes>>

\* The task becomes completed, failed or cancelled.  A recovery that read the
\* checkpoints before this one was there will not find its task either.  (That a
\* worker goes on with a task create_task gave up is left to CheckpointJob.)
FinishTask(r) ==
  /\ step[r] \in {"live", "written"}
  /\ Goto(r, "over")
  /\ Blame("skew", r \in rows /\ \E u \in Requests : step[u] = "inflight" /\ base[u] < seq[r])
  /\ UNCHANGED <<key, seed, base, seq, rows, losses>>

SequenceNext ==
  \/ SeedKey \/ LoseKey
  \/ \E r \in Requests :
       \/ CheckKey(r) \/ ReadPersisted(r) \/ ReadInFlight(r) \/ PlantBaseline(r)
       \/ Increment(r) \/ InsertTask(r) \/ RequestFails(r)
       \/ CommitCheckpoint(r) \/ FinishTask(r)

SequenceSpec == SequenceInit /\ [][SequenceNext]_sequenceVars

-----------------------------------------------------------------------------
\* The requests whose number is in use, or will be.
Holders == rows \cup {r \in Requests : step[r] \in {"insert", "live", "written"}}

SharedNumber == \E r, u \in Holders : r # u /\ seq[r] = seq[u]

\* Two checkpoints are only ever promised the same number when Redis lost the key
\* while a reservation was under way, a task left flight between the two queries of a
\* recovery, the second query failed, or the seeding came late.  However recoveries
\* interleave, SETNX and the in-flight query exclude everything else.
SharingExplained == SharedNumber => causes # {}

\* The cursor never falls behind a number in use: a retry after a refused INSERT
\* gets a fresh one.
CursorCovers ==
  key # Missing /\ causes = {} => \A r \in Holders : seq[r] <= key

\* The document's claim: only a loss between INCR and the commit of the task row
\* lets two tasks share a number.
SharingNeedsWindow == SharedNumber => "window" \in causes
=============================================================================
