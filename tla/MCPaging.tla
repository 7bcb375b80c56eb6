------------------------------ MODULE MCPaging ------------------------------
(***************************************************************************)
(* Paging with interchangeable tasks.                                      *)
(***************************************************************************)
EXTENDS Paging, TLC

Symmetry == Permutations(Tasks)
=============================================================================
