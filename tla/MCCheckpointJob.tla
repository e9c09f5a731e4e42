--------------------------- MODULE MCCheckpointJob ---------------------------
(***************************************************************************)
(* Instances of CheckpointJob for TLC.                                     *)
(***************************************************************************)
EXTENDS CheckpointJob, TLC

\* Tasks are interchangeable; used for safety only.
TaskSymmetry == Permutations(Tasks)

\* Every fault the code meets.
EveryFault == AllFaultKinds

\* Faults that arq answers with another delivery.
RetriedFaults == {"db", "crash", "shutdown", "storage"}
=============================================================================
