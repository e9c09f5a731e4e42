------------------------------ MODULE Persistence ------------------------------
(***************************************************************************)
(* What the API, the MCP server and the workers keep, as those see it who  *)
(* share it: the sequence numbers of checkpoints (SequenceAllocator), the  *)
(* files (LocalStore), the list of characters (Listing) and the rows that  *)
(* a request for one resource walks through (Access).                      *)
(*                                                                         *)
(* None of them reads what another changes: numbers, file names, the times *)
(* of rows and their being there.  Which row goes with which file is the   *)
(* matter of the jobs and services that write both, and of their modules.  *)
(* So a behaviour is one of the four scenes, with the others at rest.      *)
(***************************************************************************)
EXTENDS SequenceAllocator, LocalStore, Listing, Access

VARIABLE scene  \* the part that moves

vars == <<scene, sequenceVars, fileVars, listVars, accessVars>>

TypeOK ==
  /\ scene \in {"sequence", "files", "list", "access"}
  /\ SequenceTypeOK /\ FileTypeOK /\ ListTypeOK /\ AccessTypeOK

\* The files that were put earlier matter only to the scene of the files.
Init ==
  /\ scene \in {"sequence", "files", "list", "access"}
  /\ SequenceInit /\ FileInit /\ ListInit /\ AccessInit
  /\ scene # "files" => \A k \in Keys : dir[k] = "none"

Numbering ==
  /\ scene = "sequence" /\ SequenceNext
  /\ UNCHANGED <<scene, fileVars, listVars, accessVars>>

Storing ==
  /\ scene = "files" /\ FileNext
  /\ UNCHANGED <<scene, sequenceVars, listVars, accessVars>>

ListingRows ==
  /\ scene = "list" /\ ListNext
  /\ UNCHANGED <<scene, sequenceVars, fileVars, accessVars>>

Accessing ==
  /\ scene = "access" /\ AccessNext
  /\ UNCHANGED <<scene, sequenceVars, fileVars, listVars>>

Next == Numbering \/ Storing \/ ListingRows \/ Accessing

Spec == Init /\ [][Next]_vars
================================================================================
