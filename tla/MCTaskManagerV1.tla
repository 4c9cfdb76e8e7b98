--------------------------- MODULE MCTaskManagerV1 ---------------------------
(* What TLC needs to check TaskManagerV1: the symmetry of the safety runs.  *)
EXTENDS TaskManagerV1Refinement, TLC

Symmetry == Permutations(Thread) \cup Permutations(Slot) \cup Permutations(Future)
=============================================================================
