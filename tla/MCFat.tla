------------------------------- MODULE MCFat -------------------------------
(* Fat for TLC: files and descriptors are interchangeable.                  *)
EXTENDS Fat, TLC

Symmetry == Permutations(Files) \cup Permutations(Fds)
=============================================================================
