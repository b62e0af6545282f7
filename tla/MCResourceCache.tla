--------------------------- MODULE MCResourceCache ---------------------------
(* Finite instances of ResourceCache.                                      *)
EXTENDS ResourceCache, TLC

CONSTANTS k1, k2, k3

\* A short URL and two longer ones: two fill MaxBytes = 3 or exceed it.
Sizes == [k \in Key |-> IF k = k1 THEN 1 ELSE 2]

\* The threads differ in nothing.
Symmetry == Permutations(Thread)
=============================================================================
