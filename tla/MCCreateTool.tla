----------------------------- MODULE MCCreateTool -----------------------------
(***************************************************************************)
(* Instances of CreateTool for TLC.  All names have the same slug base.    *)
(***************************************************************************)
EXTENDS CreateTool, TLC

CONSTANTS c1, c2

\* c1 may be a tool, c2 competes with it.
OneTool == (c1 :> {"tool", "tool_ref", "create"}) @@ (c2 :> {"create", "fork"})
Symmetry == Permutations(Names)
OneBase == [n \in Names |-> "base"]
EveryFault == AllFaultKinds
=============================================================================
