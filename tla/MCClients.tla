------------------------------ MODULE MCClients ------------------------------
(***************************************************************************)
(* Instances of Clients for TLC.  The initial `tab` is chosen, so tabs are *)
(* not symmetric.                                                          *)
(***************************************************************************)
EXTENDS Clients, TLC

Symmetry == Permutations(Requests) \cup Permutations(Checks)
=============================================================================
