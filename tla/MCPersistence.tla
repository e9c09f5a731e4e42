----------------------------- MODULE MCPersistence -----------------------------
(***************************************************************************)
(* Instances of Persistence for TLC.  Sorting characters tells their ids   *)
(* apart, so these are not symmetric.                                      *)
(***************************************************************************)
EXTENDS Persistence, TLC

Symmetry == Permutations(Requests) \cup Permutations(Calls)

EveryFault == AllFaults
================================================================================
