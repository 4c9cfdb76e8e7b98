--------------------------- MODULE MCTaskManagerV2 ---------------------------
(* What TLC needs to check TaskManagerV2: the symmetry of the safety runs.  *)
EXTENDS TaskManagerV2Refinement, TLC

Symmetry == Permutations(Thread) \cup Permutations(Key)
=============================================================================
