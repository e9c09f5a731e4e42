------------------------------ MODULE Characters ------------------------------
(***************************************************************************)
(* The characters of one owner: create_character, fork_from_checkpoint,    *)
(* update_character_name, soft_delete_character and restore_character as   *)
(* requests whose database steps interleave.  A call that creates a        *)
(* character shares its name with the character, with the creation session *)
(* inserted in the same transaction, and with the image a fork copies.     *)
(*                                                                         *)
(* The two partial unique indexes cover live rows.  An insert that meets   *)
(* an uncommitted row with the same key waits for that transaction.        *)
(***************************************************************************)
EXTENDS Naturals, FiniteSets

CONSTANTS Calls,       \* requests that create a character, and the characters
          Names,       \* names a character can have
          NoName,
          SlugBase,    \* [Names -> what slugify makes of a name]
          KindsOf,     \* [Calls -> kinds the call may be of] (bounds the model)
          RetryLimit,  \* _SLUG_RETRY_LIMIT
          FaultKinds,  \* kinds of fault that may happen
          MaxFaults    \* bound on the faults of a behaviour

AllFaultKinds ==
  {"db",           \* a commit fails and is rolled back
   "lost_commit",  \* a commit is durable, and the caller sees an error
   "crash",        \* the API process dies
   "disconnect",   \* CancelledError in a tool whose client went away
   "storage",      \* the file store fails
   "send"}         \* an exception from anything else in a tool's phase

\* create_character alone, fork_from_checkpoint, or character.create with a menu
\* or with reference images.
Kinds == {"create", "fork", "tool", "tool_ref"}

ASSUME CharactersAssumption ==
  /\ IsFiniteSet(Calls)
  /\ {NoName, "restore"} \cap Names = {} /\ NoName # "restore"
  /\ RetryLimit \in Nat \ {0}
  /\ KindsOf \in [Calls -> SUBSET Kinds]
  /\ FaultKinds \subseteq AllFaultKinds /\ MaxFaults \in Nat

VARIABLES kind,      \* [Calls -> what the call is]
          step,      \* [Calls -> where it is]
          reply,     \* [Calls -> what its client got]
          name,      \* [Calls -> name asked for, then the name in the row]
          slug,      \* [Calls -> <<base, suffix>> being probed, then in the row]
          rounds,    \* [Calls -> inserts refused for the slug]
          life,      \* [Calls -> life of the character row]
          session,   \* [Calls -> status of its creation session]
          edit,      \* [Calls -> new name or "restore" of the request past its probe]
          images,    \* calls whose forked image was copied
          arrivals,  \* [Calls -> rivals that became live meanwhile] (history)
          faults,    \* number of faults so far (bounds the model)
          lost       \* calls about which a reply was lost (history)

characterVars ==
  <<kind, step, reply, name, slug, rounds, life, session, edit, images, arrivals, faults, lost>>

CreationSteps == {"idle", "allocate", "insert", "copy", "commit", "over"}
Suffixes == 1..Cardinality(Calls)
Replies == {"none", "ok", "conflict", "error", "cut"}
LifeStates == {"none", "flushed", "live", "deleted", "gone"}

CharactersTypeOK ==
  /\ kind \in [Calls -> Kinds]
  /\ reply \in [Calls -> Replies]
  /\ name \in [Calls -> Names \cup {NoName}]
  /\ \A c \in Calls : name[c] # NoName => slug[c][2] \in Suffixes
  /\ rounds \in [Calls -> 0..RetryLimit]
  /\ life \in [Calls -> LifeStates]
  /\ session \in [Calls -> {"none", "in_progress", "completed", "abandoned"}]
  /\ edit \in [Calls -> Names \cup {NoName, "restore"}]
  /\ images \subseteq Calls /\ lost \subseteq Calls
  /\ arrivals \in [Calls -> 0..RetryLimit]
  /\ faults \in 0..MaxFaults

CharactersInit ==
  /\ kind = [c \in Calls |-> "create"]
  /\ step = [c \in Calls |-> "idle"]
  /\ reply = [c \in Calls |-> "none"]
  /\ name = [c \in Calls |-> NoName]
  /\ slug = [c \in Calls |-> <<NoName, 1>>]
  /\ rounds = [c \in Calls |-> 0]
  /\ life = [c \in Calls |-> "none"]
  /\ session = [c \in Calls |-> "none"]
  /\ edit = [c \in Calls |-> NoName]
  /\ images = {} /\ lost = {}
  /\ arrivals = [c \in Calls |-> 0]
  /\ faults = 0

-----------------------------------------------------------------------------
Fault(f) == f \in FaultKinds /\ faults < MaxFaults /\ faults' = faults + 1
Goto(c, s) == step' = [step EXCEPT ![c] = s]
Answer(c, r) == Goto(c, "over") /\ reply' = [reply EXCEPT ![c] = r]
SetLife(c, l) == life' = [life EXCEPT ![c] = l]

Live(c) == life[c] = "live"
NameTaken(n, c) == \E d \in Calls \ {c} : Live(d) /\ name[d] = n
SlugTaken(c) == \E d \in Calls \ {c} : Live(d) /\ slug[d] = slug[c]

\* Another transaction holds one of the keys until it ends.
Waits(n, c) ==
  \E d \in Calls \ {c} : life[d] = "flushed" /\ (name[d] = n \/ slug[d] = slug[c])

\* c becomes visible to the calls still looking for a slug with its base.
Arrives(c) ==
  arrivals' = [d \in Calls |->
    IF d # c /\ step[d] \in {"allocate", "insert"} /\ slug[d][1] = slug[c][1]
       /\ arrivals[d] < RetryLimit
    THEN arrivals[d] + 1 ELSE arrivals[d]]

-----------------------------------------------------------------------------
(* Creation.                                                               *)

\* The probe of the name, and the start of generate_unique_slug.
Submit(c, k, n) ==
  /\ step[c] = "idle"
  /\ kind' = [kind EXCEPT ![c] = k]
  /\ name' = [name EXCEPT ![c] = n]
  /\ slug' = [slug EXCEPT ![c] = <<SlugBase[n], 1>>]
  /\ IF NameTaken(n, c) THEN Answer(c, "conflict") ELSE Goto(c, "allocate") /\ UNCHANGED reply
  /\ UNCHANGED <<rounds, life, session, edit, images, arrivals, faults, lost>>

\* base, base-2, base-3, ...: every probe is a query of its own.
ProbeSlug(c) ==
  /\ step[c] = "allocate"
  /\ IF SlugTaken(c)
     THEN slug' = [slug EXCEPT ![c][2] = @ + 1] /\ UNCHANGED step
     ELSE Goto(c, "insert") /\ UNCHANGED slug
  /\ UNCHANGED <<kind, reply, name, rounds, life, session, edit, images, arrivals, faults, lost>>

\* Variant: the slug is allocated once, before the loop.
RetryBlind(c) ==
  /\ SlugTaken(c)
  /\ rounds' = [rounds EXCEPT ![c] = @ + 1]
  /\ IF rounds[c] + 1 = RetryLimit THEN Answer(c, "error") ELSE UNCHANGED <<step, reply>>
  /\ UNCHANGED <<life, slug>>

\* A refused slug sends the call back to the allocator, up to the limit.
SlugRefused(c) ==
  /\ SlugTaken(c)
  /\ rounds' = [rounds EXCEPT ![c] = @ + 1]
  /\ IF rounds[c] + 1 = RetryLimit THEN Answer(c, "error") /\ UNCHANGED slug
     ELSE Goto(c, "allocate") /\ slug' = [slug EXCEPT ![c][2] = 1] /\ UNCHANGED reply
  /\ UNCHANGED life

\* Variant: the two unique indexes are missing.
InsertUnchecked(c) ==
  /\ step[c] = "insert"
  /\ SetLife(c, "flushed")
  /\ Goto(c, IF kind[c] = "fork" THEN "copy" ELSE "commit")
  /\ UNCHANGED <<kind, reply, name, slug, rounds, session, edit, images, arrivals, faults, lost>>

\* The first flush, where the indexes refuse or make wait.
InsertRow(c) ==
  /\ step[c] = "insert"
  /\ ~Waits(name[c], c)
  /\ \/ /\ ~NameTaken(name[c], c) /\ ~SlugTaken(c)
        /\ SetLife(c, "flushed")
        /\ Goto(c, IF kind[c] = "fork" THEN "copy" ELSE "commit")
        /\ UNCHANGED <<reply, slug, rounds>>
     \/ NameTaken(name[c], c) /\ Answer(c, "conflict") /\ UNCHANGED <<life, slug, rounds>>
     \/ SlugRefused(c)
  /\ UNCHANGED <<kind, name, session, edit, images, arrivals, faults, lost>>

\* fork_from_checkpoint copies inside the transaction; a missing source rolls back.
CopyImage(c) ==
  /\ step[c] = "copy"
  /\ \/ images' = images \cup {c} /\ Goto(c, "commit") /\ UNCHANGED <<reply, life, faults>>
     \/ Fault("storage") /\ SetLife(c, "none") /\ Answer(c, "error") /\ UNCHANGED images
  /\ UNCHANGED <<kind, name, slug, rounds, session, edit, arrivals, lost>>

\* Character, session and, for a fork, its first checkpoint become visible; only
\* character.create goes on.
CommitCharacter(c) ==
  /\ step[c] = "commit"
  /\ SetLife(c, "live")
  /\ session' = [session EXCEPT ![c] = "in_progress"]
  /\ Arrives(c)
  /\ IF kind[c] \in {"create", "fork"} THEN Answer(c, "ok") ELSE Goto(c, "handle") /\ UNCHANGED reply
  /\ UNCHANGED <<kind, name, slug, rounds, edit, images, faults, lost>>

\* The commit fails, or only its reply does; nobody removes a forked image.
CommitFails(c) ==
  /\ step[c] = "commit"
  /\ Answer(c, "error")
  /\ \/ Fault("db") /\ SetLife(c, "none") /\ UNCHANGED <<session, arrivals, lost>>
     \/ /\ Fault("lost_commit")
        /\ SetLife(c, "live")
        /\ session' = [session EXCEPT ![c] = "in_progress"]
        /\ Arrives(c)
        /\ lost' = lost \cup {c}
  /\ UNCHANGED <<kind, name, slug, rounds, edit, images>>

\* The process dies before the commit.
CreationCrash(c) ==
  /\ step[c] \in CreationSteps \ {"idle", "over"}
  /\ Fault("crash")
  /\ SetLife(c, "none")
  /\ Answer(c, "cut")
  /\ UNCHANGED <<kind, name, slug, rounds, session, edit, images, arrivals, lost>>

-----------------------------------------------------------------------------
(* Rename, delete and restore, each by a request of its own.               *)

EditVars == <<kind, step, reply, slug, rounds, session, images, faults, lost>>

BeginRename(c, n) ==
  /\ Live(c) /\ edit[c] = NoName
  /\ n # name[c] /\ ~NameTaken(n, c)
  /\ edit' = [edit EXCEPT ![c] = n]
  /\ UNCHANGED <<EditVars, name, life, arrivals>>

\* The UPDATE of a row deleted meanwhile is outside the partial index.
FinishRename(c) ==
  /\ edit[c] \in Names
  /\ Live(c) => ~Waits(edit[c], c)
  /\ edit' = [edit EXCEPT ![c] = NoName]
  /\ name' = IF Live(c) /\ NameTaken(edit[c], c) THEN name ELSE [name EXCEPT ![c] = edit[c]]
  /\ UNCHANGED <<EditVars, life, arrivals>>

DeleteCharacter(c) ==
  /\ Live(c)
  /\ SetLife(c, "deleted")
  /\ UNCHANGED <<EditVars, name, edit, arrivals>>

\* RESTORE_WINDOW_DAYS pass.
Expire(c) ==
  /\ life[c] = "deleted" /\ edit[c] = NoName
  /\ SetLife(c, "gone")
  /\ UNCHANGED <<EditVars, name, edit, arrivals>>

BeginRestore(c) ==
  /\ life[c] = "deleted" /\ edit[c] = NoName
  /\ ~NameTaken(name[c], c)
  /\ edit' = [edit EXCEPT ![c] = "restore"]
  /\ UNCHANGED <<EditVars, name, life, arrivals>>

\* Either index refuses; the slug is never allocated again.
FinishRestore(c) ==
  /\ edit[c] = "restore"
  /\ ~Waits(name[c], c)
  /\ edit' = [edit EXCEPT ![c] = NoName]
  /\ IF NameTaken(name[c], c) \/ SlugTaken(c) THEN UNCHANGED <<life, arrivals>>
     ELSE SetLife(c, "live") /\ Arrives(c)
  /\ UNCHANGED <<EditVars, name>>

-----------------------------------------------------------------------------
Create(c) ==
  \/ \E k \in KindsOf[c], n \in Names : Submit(c, k, n)
  \/ ProbeSlug(c) \/ InsertRow(c) \/ CopyImage(c) \/ CommitCharacter(c)
  \/ CommitFails(c) \/ CreationCrash(c)

Edit(c) ==
  \/ \E n \in Names : BeginRename(c, n)
  \/ FinishRename(c) \/ DeleteCharacter(c) \/ Expire(c) \/ BeginRestore(c) \/ FinishRestore(c)

-----------------------------------------------------------------------------
\* No two live characters of an owner share a name or a slug, whatever creations,
\* forks, renames and restores pass their probes together (character_service.py).
ActiveUnique ==
  \A c, d \in Calls : c # d /\ Live(c) /\ Live(d) => name[c] # name[d] /\ slug[c] # slug[d]

\* Every refused slug is the work of another rival that became live meanwhile: the
\* loop of the allocator needs no more rounds than it has rivals, as the comment on
\* _SLUG_RETRY_LIMIT counts them.
RetriesPaidFor == \A c \in Calls : rounds[c] <= arrivals[c]
=============================================================================
