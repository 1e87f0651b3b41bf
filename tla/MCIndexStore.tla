---------------------------- MODULE MCIndexStore ----------------------------
(* IndexStore on a small instance, with a crash between any two steps.     *)
EXTENDS IndexStore, TLC

Symmetry == Permutations(StableId) \cup Permutations(Term)
=============================================================================
