----------------------------- MODULE LocalStore -----------------------------
(***************************************************************************)
(* LocalFilesystemBackend: the file store as the API, the MCP server and   *)
(* the workers use it at once, each call one system call after another on  *)
(* the directory that they share.  A file is written under a name of its   *)
(* own and renamed to its key, so the model tells names from inodes: a     *)
(* name refers to an inode, a reader that opened one keeps it, and a       *)
(* rename between two names of one inode does nothing (POSIX).             *)
(*                                                                         *)
(* An inode is named after the call that creates it; the Seeds were there  *)
(* before.  The temporary name of a call ends in a uuid, so no two calls   *)
(* share one.  Files have Chunks chunks, and are known by who put them.    *)
(***************************************************************************)
EXTENDS Naturals

CONSTANTS Keys,   \* names of objects
          Calls,  \* calls of the backend
          Seeds,  \* files that were put earlier
          Chunks  \* chunks of a file

Inodes == Calls \cup Seeds

ASSUME LocalStoreAssumption ==
  /\ Chunks \in Nat \ {0}
  /\ Calls \cap Seeds = {} /\ "none" \notin Inodes \cup Keys /\ "torn" \notin Inodes

VARIABLES dir,     \* [Keys -> the inode that the name of the key refers to, "none"]
          temp,    \* [Calls -> the inode that the temporary name of the call refers to, "none"]
          content, \* [Inodes -> the put whose content is written there]
          filled,  \* [Inodes -> chunks written]
          order,   \* [Calls -> the operation and its keys]
          at,      \* [Calls -> where the call is]
          open,    \* [Calls -> the inode of the file it reads from, "none"]
          got,     \* [Calls -> chunks read]
          gives    \* [Calls -> its answer]

fileVars == <<dir, temp, content, filled, order, at, open, got, gives>>

NoOrder == [op |-> "none", from |-> "none", to |-> "none"]

Orders ==
  [op : {"put", "delete"}, from : {"none"}, to : Keys]
  \cup [op : {"get"}, from : Keys, to : {"none"}]
  \cup [op : {"copy"}, from : Keys, to : Keys]

FileTypeOK ==
  /\ dir \in [Keys -> Inodes \cup {"none"}] /\ temp \in [Calls -> Inodes \cup {"none"}]
  /\ content \in [Inodes -> Inodes] /\ filled \in [Inodes -> 0..Chunks]
  /\ order \in [Calls -> Orders \cup {NoOrder}]
  /\ at \in [Calls -> {"idle", "check", "create", "write", "link", "source", "stat_source",
                       "rename", "stat", "unlink", "open", "read", "over", "dead"}]
  /\ open \in [Calls -> Inodes \cup {"none"}] /\ got \in [Calls -> 0..Chunks]
  /\ gives \in [Calls -> {"none", "ok", "missing", "error"}]

\* Two keys may share a file: an earlier copy linked it.
FileInit ==
  /\ dir \in [Keys -> Seeds \cup {"none"}]
  /\ temp = [c \in Calls |-> "none"]
  /\ content = [i \in Inodes |-> i]
  /\ filled = [i \in Inodes |-> IF i \in Seeds THEN Chunks ELSE 0]
  /\ order = [c \in Calls |-> NoOrder]
  /\ at = [c \in Calls |-> "idle"]
  /\ open = [c \in Calls |-> "none"]
  /\ got = [c \in Calls |-> 0]
  /\ gives = [c \in Calls |-> "none"]

-----------------------------------------------------------------------------
KeepFiles == UNCHANGED <<content, filled>>
KeepReader == UNCHANGED <<open, got>>

Moves(c, p) == at' = [at EXCEPT ![c] = p] /\ UNCHANGED gives

Answers(c, a) == at' = [at EXCEPT ![c] = "over"] /\ gives' = [gives EXCEPT ![c] = a]

Source(c) == dir[order[c].from]

Target(c) == dir[order[c].to]

SetTemp(c, i) == temp' = [temp EXCEPT ![c] = i]

\* What a call finds first: its key, or for a put nothing.
Call(c) ==
  /\ at[c] = "idle"
  /\ \E o \in Orders :
       /\ order' = [order EXCEPT ![c] = o]
       /\ Moves(c, IF o.op = "put" THEN "create" ELSE "check")
  /\ UNCHANGED <<dir, temp>> /\ KeepFiles /\ KeepReader

\* is_file.  A delete of what is not there is done; a copy of a key to itself is described.
CheckFile(c) ==
  /\ at[c] = "check"
  /\ IF order[c].op = "delete"
     THEN IF Target(c) = "none" THEN Answers(c, "ok") ELSE Moves(c, "unlink")
     ELSE IF Source(c) = "none" THEN Answers(c, "missing")
     ELSE IF order[c].op = "get" THEN Moves(c, "open")
     ELSE Moves(c, IF order[c].from = order[c].to THEN "stat" ELSE "link")
  /\ UNCHANGED <<dir, temp, order>> /\ KeepFiles /\ KeepReader

-----------------------------------------------------------------------------
\* Variant: put opens the file of the key itself.
CreateInPlace(c) ==
  /\ at[c] = "create" /\ Moves(c, "write") /\ SetTemp(c, c)
  /\ dir' = [dir EXCEPT ![order[c].to] = c]
  /\ UNCHANGED order /\ KeepFiles /\ KeepReader

\* put opens its temporary file.
CreateTemp(c) ==
  /\ at[c] = "create" /\ Moves(c, "write") /\ SetTemp(c, c)
  /\ UNCHANGED <<dir, order>> /\ KeepFiles /\ KeepReader

\* A chunk goes to the file, from the caller's stream or from the source of a copy; the last
\* one is synced, or the times of the source are looked up by its name.
WriteChunk(c) ==
  /\ at[c] = "write"
  /\ filled' = [filled EXCEPT ![c] = @ + 1]
  /\ Moves(c, IF filled[c] + 1 < (IF open[c] = "none" THEN Chunks ELSE filled[open[c]])
              THEN "write"
              ELSE IF order[c].op = "put" THEN "rename" ELSE "stat_source")
  /\ UNCHANGED <<dir, temp, content, order>> /\ KeepReader

\* os.link, or the error of a file system that has no links.
Link(c) ==
  /\ at[c] = "link"
  /\ \/ Source(c) = "none" /\ Answers(c, "missing") /\ UNCHANGED temp
     \/ Source(c) # "none" /\ SetTemp(c, Source(c)) /\ Moves(c, "rename")
     \/ Source(c) # "none" /\ Moves(c, "source") /\ UNCHANGED temp
  /\ UNCHANGED <<dir, order>> /\ KeepFiles /\ KeepReader

\* shutil.copy2 opens the source, then the temporary file.
OpenSource(c) ==
  /\ at[c] = "source"
  /\ IF Source(c) = "none"
     THEN Answers(c, "missing") /\ UNCHANGED <<temp, open, content>>
     ELSE /\ SetTemp(c, c) /\ open' = [open EXCEPT ![c] = Source(c)]
          /\ content' = [content EXCEPT ![c] = content[Source(c)]]
          /\ Moves(c, "write")
  /\ UNCHANGED <<dir, filled, order, got>>

\* It copies the times of whatever has the source's name by now.
StatSource(c) ==
  /\ at[c] = "stat_source"
  /\ IF Source(c) = "none"
     THEN Answers(c, "missing") /\ SetTemp(c, "none")
     ELSE Moves(c, "rename") /\ UNCHANGED temp
  /\ UNCHANGED <<dir, order>> /\ KeepFiles /\ KeepReader

\* os.replace: nothing happens when both names refer to one inode.
Replace(c) ==
  /\ at[c] = "rename"
  /\ IF Target(c) = temp[c]
     THEN UNCHANGED <<dir, temp>>
     ELSE dir' = [dir EXCEPT ![order[c].to] = temp[c]] /\ SetTemp(c, "none")
  /\ IF order[c].op = "put" THEN Answers(c, "ok") ELSE Moves(c, "stat")
  /\ UNCHANGED order /\ KeepFiles /\ KeepReader

\* The stat after a copy; its FileNotFoundError is not translated.
StatTarget(c) ==
  /\ at[c] = "stat"
  /\ Answers(c, IF Target(c) = "none" THEN "error" ELSE "ok")
  /\ UNCHANGED <<dir, temp, order>> /\ KeepFiles /\ KeepReader

\* Variant: the handler of the exception forgets the temporary file.
KeepTemp(c) == UNCHANGED temp

\* The temporary file is unlinked if it is there.
RollBack(c) == SetTemp(c, "none")

\* The disk is full, the stream of the caller breaks, ...
WriteFails(c) ==
  /\ at[c] \in {"create", "write", "link", "source", "stat_source", "rename"}
  /\ Answers(c, "error") /\ RollBack(c)
  /\ UNCHANGED <<dir, order>> /\ KeepFiles /\ KeepReader

-----------------------------------------------------------------------------
Unlink(c) ==
  /\ at[c] = "unlink" /\ Answers(c, "ok")
  /\ dir' = [dir EXCEPT ![order[c].to] = "none"]
  /\ UNCHANGED <<temp, order>> /\ KeepFiles /\ KeepReader

\* The file may be gone since the check.
OpenFile(c) ==
  /\ at[c] = "open"
  /\ IF Source(c) = "none"
     THEN Answers(c, "missing") /\ UNCHANGED open
     ELSE Moves(c, "read") /\ open' = [open EXCEPT ![c] = Source(c)]
  /\ UNCHANGED <<dir, temp, order, got>> /\ KeepFiles

\* Whoever reads has the handle, not the name: of a get, or of the response of the route.
ReadChunk(c) ==
  /\ at[c] = "read"
  /\ IF got[c] < filled[open[c]]
     THEN got' = [got EXCEPT ![c] = @ + 1] /\ Moves(c, "read")
     ELSE UNCHANGED got /\ Answers(c, "ok")
  /\ UNCHANGED <<dir, temp, order, open>> /\ KeepFiles

\* The process dies, and no handler runs.
Crash(c) ==
  /\ at[c] \notin {"idle", "over", "dead"} /\ Moves(c, "dead")
  /\ UNCHANGED <<dir, temp, order>> /\ KeepFiles /\ KeepReader

FileNext ==
  \E c \in Calls :
    \/ Call(c) \/ CheckFile(c) \/ CreateTemp(c) \/ WriteChunk(c) \/ Link(c) \/ OpenSource(c)
    \/ StatSource(c) \/ Replace(c) \/ StatTarget(c) \/ WriteFails(c) \/ Unlink(c)
    \/ OpenFile(c) \/ ReadChunk(c) \/ Crash(c)

-----------------------------------------------------------------------------
(* What callers see of it.                                                 *)

Whole(i) == filled[i] = Chunks

Seen(i) == IF i = "none" THEN "none" ELSE IF Whole(i) THEN content[i] ELSE "torn"

\* A copy has taken the content of its source, in a file with a temporary name.
Carrying(c) == order[c].op = "copy" /\ at[c] \in {"write", "stat_source", "rename"}

StageOf(c) ==
  CASE at[c] = "idle" -> "idle"
    [] at[c] = "dead" -> "lost"
    [] at[c] = "over" -> gives[c]
    [] at[c] = "stat" -> "installed"
    [] at[c] = "read" \/ Carrying(c) -> "taken"
    [] OTHER -> "asked"

\* A get ends with what it read, which is whole if it read all of a whole file.
CarriedBy(c) ==
  CASE at[c] = "read" -> Seen(open[c])
    [] at[c] = "over" /\ gives[c] = "ok" /\ order[c].op = "get" ->
         IF got[c] = Chunks THEN Seen(open[c]) ELSE "torn"
    [] Carrying(c) -> content[temp[c]]
    [] OTHER -> "none"

Objects == [k \in Keys |-> Seen(dir[k])]
Stages == [c \in Calls |-> StageOf(c)]
Carrieds == [c \in Calls |-> CarriedBy(c)]

Store == INSTANCE ObjectStore
           WITH Contents <- Inodes, object <- Objects, ask <- order, stage <- Stages,
                carried <- Carrieds

\* Calls that overlap are as good as calls that take effect at an instant: no reader ever
\* gets a part of a file or parts of two, a key never names a file that is not whole, a copy
\* installs what its source held during the call, a failed write changes nothing and whoever
\* is told that a file is missing asked when it was.
AtomicStore == Store!StoreSpec

\* A temporary name outlives its call only by a crash, or by a copy that found the file of
\* its source at its destination already: then it is one more name of a whole file, which
\* list_prefix hides and no delete of a key frees.
LeftoversExplained ==
  \A c \in Calls : temp[c] # "none" /\ at[c] = "over" =>
    order[c].op = "copy" /\ temp[c] # c /\ Whole(temp[c])
=============================================================================
