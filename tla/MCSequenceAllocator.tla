------------------------- MODULE MCSequenceAllocator -------------------------
(***************************************************************************)
(* Instances of SequenceAllocator for TLC.                                 *)
(***************************************************************************)
EXTENDS SequenceAllocator, TLC

RequestSymmetry == Permutations(Requests)

=============================================================================
