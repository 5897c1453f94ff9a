------------------------- MODULE MCAccountLifecycle -------------------------
(* AccountLifecycle for TLC: model values, and the symmetry of workers.      *)
EXTENDS AccountLifecycle, TLC

Symmetry == Permutations(Tasks) \cup Permutations(Accounts)
=============================================================================
