--------------------------- MODULE MCPageArchive ---------------------------
(* Finite instances of PageArchive, with the invariant of its proofs.      *)
EXTENDS PageArchiveProofs, TLC

\* Requests and captured documents carry no order; a page seeded in advance and
\* a document with resources are told apart from the others.
Symmetry == Permutations(Op \ Seeded) \union Permutations(Content \ Linked)
=============================================================================
