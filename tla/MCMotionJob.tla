----------------------------- MODULE MCMotionJob -----------------------------
(***************************************************************************)
(* Instances of MotionJob for TLC.                                         *)
(***************************************************************************)
EXTENDS MotionJob, TLC

\* Tasks are interchangeable, and so are names.
Symmetry == Permutations(Tasks) \cup Permutations(Names)

EveryFault == AllFaultKinds

\* Without the two that only decide what becomes of the job.
JobFaults == AllFaultKinds \ {"lost_enqueue", "drop"}
=============================================================================
