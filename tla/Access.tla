------------------------------- MODULE Access -------------------------------
(***************************************************************************)
(* Requests for one resource by its id, of a route or of an MCP tool: the  *)
(* services walk from the row of the id to the character that it belongs   *)
(* to, one SELECT after another at READ COMMITTED, and decide by the       *)
(* character's team and owner.  Other transactions commit in between.      *)
(*                                                                         *)
(* One character with one row of each resource stands for all, and one     *)
(* request at a time is enough: requests read, and the writes that some of *)
(* them go on to are the commits of others here.  The initiator of a       *)
(* session is the owner of its character: both create them together.       *)
(***************************************************************************)
EXTENDS Naturals, Sequences

Resources == {"character", "session", "checkpoint", "base", "alias", "base_motion", "alias_motion"}

\* Resources by which an answer may say that nothing was found.
Unfound == {"character", "session", "checkpoint", "alias", "motion"}

VARIABLES row,      \* [Resources -> state of the row]
          outcome,  \* status of the session
          asked,    \* kind of the request, "none" before it
          caller,   \* whose it is
          position, \* look-ups behind it
          answer,   \* what it was answered, "none" before
          had_base, \* base_id was set in the character that was read
          detail,   \* what the answer has besides the row of the id
          seen,     \* rows that were there at some time since the request came (history)
          selected  \* the base was selected since (history)

accessVars == <<row, outcome, asked, caller, position, answer, had_base, detail, seen, selected>>

-----------------------------------------------------------------------------
\* A look-up: its row, what is checked with it, and what an answer calls missing.
Look(r, check, missing) == [row |-> r, check |-> check, missing |-> missing]

CharacterPath(check) == <<Look("character", check, "character")>>

SessionPath(check) == <<Look("session", "none", "session"), Look("character", check, "session")>>

CheckpointPath ==
  <<Look("checkpoint", "none", "checkpoint"), Look("session", "none", "checkpoint"),
    Look("character", "initiator", "checkpoint")>>

\* The preview of a remix asks for the initiator of the session only.
RemixPath ==
  <<Look("checkpoint", "none", "checkpoint"), Look("session", "initiator", "checkpoint")>>

AliasPath(check) == <<Look("alias", "none", "alias"), Look("character", check, "alias")>>

\* Variant: the alias or base in between is not looked at.
ShortPath(motion, parent, check) ==
  <<Look(motion, "none", "motion"), Look("character", check, "motion")>>

MotionPath(motion, parent, check) ==
  <<Look(motion, "none", "motion"), Look(parent, "none", "motion"),
    Look("character", check, "motion")>>

\* Motions of a base: their list, and what a new one is made of.
OfBasePath(check) == <<Look("base", "none", "character"), Look("character", check, "character")>>

\* Variant: the team of an alias's character is found out after the alias was.
LatePath == <<Look("alias", "none", "alias"), Look("character", "owner", "character")>>

\* The preview of an alias's motion looks the character up twice.
AliasPreviewPath ==
  <<Look("alias", "none", "alias"), Look("character", "team", "alias"),
    Look("character", "owner", "character")>>

\* An id that is not of the kind the request says: its owner is told.
MismatchPath(r, missing) == <<Look(r, "none", missing), Look("character", "sibling", missing)>>

CharacterRequests ==
  [character |-> CharacterPath("team"), character_write |-> CharacterPath("owner"),
   restore |-> CharacterPath("owner"), session |-> SessionPath("team"),
   session_write |-> SessionPath("owner"), checkpoint |-> CheckpointPath, remix |-> RemixPath]

AliasRequests ==
  [alias |-> AliasPath("team"), alias_write |-> AliasPath("owner"),
   aliases |-> CharacterPath("team"), alias_new |-> CharacterPath("owner")]

MotionRequests ==
  [base_motion |-> MotionPath("base_motion", "base", "team"),
   base_motion_write |-> MotionPath("base_motion", "base", "owner"),
   alias_motion |-> MotionPath("alias_motion", "alias", "team"),
   alias_motion_write |-> MotionPath("alias_motion", "alias", "owner"),
   motions_of_base |-> OfBasePath("team"), motions_of_alias |-> AliasPath("team"),
   motion_for_base |-> OfBasePath("owner"), motion_for_alias |-> AliasPath("owner")]

PreviewRequests ==
  [base_preview |-> OfBasePath("owner"), alias_preview |-> AliasPreviewPath,
   alias_as_base |-> MismatchPath("alias", "character"),
   base_as_alias |-> MismatchPath("base", "alias")]

Kinds ==
  DOMAIN CharacterRequests \cup DOMAIN AliasRequests
    \cup DOMAIN MotionRequests \cup DOMAIN PreviewRequests

Path(k) ==
  IF k \in DOMAIN CharacterRequests THEN CharacterRequests[k]
  ELSE IF k \in DOMAIN AliasRequests THEN AliasRequests[k]
  ELSE IF k \in DOMAIN MotionRequests THEN MotionRequests[k]
  ELSE PreviewRequests[k]

-----------------------------------------------------------------------------
AccessTypeOK ==
  /\ row \in [Resources -> {"absent", "live", "deleted"}]
  /\ outcome \in {"in_progress", "completed", "abandoned"}
  /\ asked \in Kinds \cup {"none"} /\ caller \in {"owner", "teammate", "outsider"}
  /\ position \in 0..3
  /\ answer \in Unfound \cup {"none", "granted", "forbidden", "mismatch"}
  /\ had_base \in BOOLEAN /\ selected \in BOOLEAN
  /\ detail \in {"none", "base", "session", "bare", "checkpoints"}
  /\ seen \subseteq Resources

AccessInit ==
  /\ row = [r \in Resources |-> IF r \in {"character", "session"} THEN "live" ELSE "absent"]
  /\ outcome = "in_progress" /\ asked = "none" /\ caller = "outsider" /\ position = 0
  /\ answer = "none" /\ had_base = FALSE /\ detail = "none" /\ seen = {} /\ selected = FALSE

\* What a SELECT finds of a row in this state: a restore looks for deleted characters too.
Finds(kind, state) == state = "live" \/ (kind = "restore" /\ state = "deleted")

KeepRequest == UNCHANGED <<asked, caller, position, answer, had_base, detail>>
KeepData == UNCHANGED <<row, outcome, selected>>

\* An id that the caller has: of a row that is there, was or will be.
Ask ==
  /\ asked = "none" /\ asked' \in Kinds /\ caller' \in {"owner", "teammate", "outsider"}
  /\ seen' = {r \in Resources : Finds(asked', row[r])} /\ selected' = FALSE
  /\ UNCHANGED <<row, outcome, position, answer, had_base, detail>>

\* The same answer as for an id that is nowhere, or 403; "granted" lets the caller on.
Verdict(look) ==
  CASE look.check = "none" -> "granted"
    [] caller = "owner" -> IF look.check = "sibling" THEN "mismatch" ELSE "granted"
    [] caller = "teammate" /\ look.check = "team" -> "granted"
    [] caller = "teammate" /\ look.check = "owner" -> "forbidden"
    [] OTHER -> look.missing

\* Answers with nothing behind them to read.
Plain == asked \notin {"character", "session"}

LookUp ==
  /\ asked # "none" /\ answer = "none" /\ position < Len(Path(asked))
  /\ LET look == Path(asked)[position + 1]
         verdict == IF Finds(asked, row[look.row]) THEN Verdict(look) ELSE look.missing
     IN  answer' = IF verdict = "granted" /\ (position + 1 < Len(Path(asked)) \/ ~Plain)
                   THEN "none" ELSE verdict
  /\ position' = position + 1
  /\ had_base' = (row["base"] = "live")
  /\ UNCHANGED <<asked, caller, detail, seen>> /\ KeepData

\* The checkpoints of a session are for its initiator.
ReadCheckpoints ==
  /\ asked = "session" /\ answer = "none" /\ position = Len(Path(asked))
  /\ answer' = "granted" /\ detail' = IF caller = "owner" THEN "checkpoints" ELSE "none"
  /\ UNCHANGED <<asked, caller, position, had_base, seen>> /\ KeepData

\* The detail of a character has its base, or the session that it can be resumed in.
ReadDetail ==
  /\ asked = "character" /\ answer = "none" /\ position = Len(Path(asked))
  /\ answer' = "granted"
  /\ detail' = IF had_base THEN "base" ELSE IF outcome = "completed" THEN "bare" ELSE "session"
  /\ UNCHANGED <<asked, caller, position, had_base, seen>> /\ KeepData

-----------------------------------------------------------------------------
Commits(rs, s) ==
  /\ row' = [r \in Resources |-> IF r \in rs THEN s ELSE row[r]]
  /\ seen' = IF asked = "none" THEN {} ELSE seen \cup {r \in Resources : Finds(asked, row'[r])}
  /\ KeepRequest

DeleteCharacter ==
  row["character"] = "live" /\ Commits({"character"}, "deleted") /\ UNCHANGED <<outcome, selected>>

RestoreCharacter ==
  row["character"] = "deleted" /\ Commits({"character"}, "live") /\ UNCHANGED <<outcome, selected>>

\* Of the job, for as long as the session is in progress.
WriteCheckpoint ==
  /\ row["checkpoint"] = "absent" /\ outcome = "in_progress"
  /\ Commits({"checkpoint"}, "live") /\ UNCHANGED <<outcome, selected>>

\* Variant: the session is completed in a transaction before.
CompleteFirst ==
  /\ row["checkpoint"] = "live"
  /\ \/ outcome = "in_progress" /\ outcome' = "completed" /\ Commits({}, "live")
        /\ UNCHANGED selected
     \/ outcome = "completed" /\ row["base"] = "absent" /\ Commits({"base"}, "live")
        /\ selected' = TRUE /\ UNCHANGED outcome

\* One transaction, under the lock of the session.  The character may have been deleted since
\* it was looked up.
SelectBase ==
  /\ row["checkpoint"] = "live" /\ outcome = "in_progress"
  /\ outcome' = "completed" /\ selected' = TRUE /\ Commits({"base"}, "live")

AbandonSession ==
  outcome = "in_progress" /\ outcome' = "abandoned" /\ Commits({}, "live") /\ UNCHANGED selected

\* Of jobs, which do not look whether the parent was deleted meanwhile.
WriteAlias ==
  row["alias"] = "absent" /\ row["base"] = "live" /\ Commits({"alias"}, "live")
    /\ UNCHANGED <<outcome, selected>>

WriteMotion(motion, parent) ==
  row[motion] = "absent" /\ row[parent] # "absent" /\ Commits({motion}, "live")
    /\ UNCHANGED <<outcome, selected>>

DeleteMotion(motion) ==
  row[motion] = "live" /\ Commits({motion}, "deleted") /\ UNCHANGED <<outcome, selected>>

\* With the motions of the alias that are there.
DeleteAlias ==
  /\ row["alias"] = "live"
  /\ Commits({"alias"} \cup {r \in {"alias_motion"} : row[r] = "live"}, "deleted")
  /\ UNCHANGED <<outcome, selected>>

AccessNext ==
  \/ Ask \/ LookUp \/ ReadCheckpoints \/ ReadDetail
  \/ DeleteCharacter \/ RestoreCharacter \/ WriteCheckpoint \/ SelectBase \/ AbandonSession
  \/ WriteAlias \/ WriteMotion("base_motion", "base") \/ WriteMotion("alias_motion", "alias")
  \/ DeleteMotion("base_motion") \/ DeleteMotion("alias_motion") \/ DeleteAlias

-----------------------------------------------------------------------------
\* Resources that a row belongs to, with itself.
Lineage(r) ==
  CASE r = "checkpoint" -> {"checkpoint", "session", "character"}
    [] r = "base_motion" -> {"base_motion", "base", "character"}
    [] r = "alias_motion" -> {"alias_motion", "alias", "character"}
    [] OTHER -> {r, "character"}

Subject(k) == Path(k)[1].row

\* Nobody outside the team can tell an id of the team from one that is nowhere, whatever is
\* deleted or committed meanwhile; nor can a teammate, where only the initiator may look or
\* where an answer would tell of a row of another kind.
OutsidersLearnNothing ==
  answer # "none"
  /\ (caller = "outsider"
      \/ (caller = "teammate"
          /\ asked \in {"checkpoint", "remix", "alias_as_base", "base_as_alias"}))
    => answer = Path(asked)[1].missing /\ detail = "none"

\* An answer other than 404 is about rows that were all there while the request ran: nothing
\* of a deleted character, and no motion that outlived its alias, is shown or changed - but a
\* preview of a remix works for a deleted character.
DeletedStaysHidden ==
  answer \in {"granted", "forbidden", "mismatch"} /\ asked # "remix"
    => Lineage(Subject(asked)) \subseteq seen

\* A character without a base names the session to go on with, unless the base was selected
\* while the detail was read.
DetailCoherent == detail = "bare" => selected
=============================================================================
