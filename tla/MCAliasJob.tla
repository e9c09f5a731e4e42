------------------------------ MODULE MCAliasJob ------------------------------
(***************************************************************************)
(* Instances of AliasJob for TLC.                                          *)
(***************************************************************************)
EXTENDS AliasJob, TLC

\* Tasks are interchangeable, and so are names.
Symmetry == Permutations(Tasks) \cup Permutations(Names)

EveryFault == AllFaultKinds
=============================================================================
