----------------------------- MODULE MCClients ------------------------------
(* Symmetry for the run of Clients, which checks safety only.              *)
EXTENDS Clients, TLC

Symmetry == Permutations(Names) \cup Permutations(Types)
=============================================================================
