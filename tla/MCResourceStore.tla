--------------------------- MODULE MCResourceStore ---------------------------
(* Finite instances of ResourceStore.                                      *)
EXTENDS ResourceStore, TLC

\* The calls that are not seeded differ in nothing.
Symmetry == Permutations(Op \ Seeded)
=============================================================================
