--------------------------- MODULE MCDeletionQueue ---------------------------
(* Finite instances of DeletionQueue.                                      *)
EXTENDS DeletionQueue, TLC

\* Paths carry no order.
Symmetry == Permutations(Path)
=============================================================================
