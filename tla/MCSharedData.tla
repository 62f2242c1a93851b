---------------------------- MODULE MCSharedData -----------------------------
(* Symmetry for the run of SharedData, which checks safety only.         *)
EXTENDS SharedData, TLC

Symmetry ==
  Permutations(Pubs) \cup Permutations(Subs) \cup Permutations(CacheCells)
    \cup Permutations(Payloads)
=============================================================================
