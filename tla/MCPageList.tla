----------------------------- MODULE MCPageList -----------------------------
EXTENDS PageList

\* Two pages, both favorites, visited (and marked) in one instant; a third may be
\* archived later.
MCInitRows == [p \in PageId |->
  IF p < 3 THEN [state |-> "there", visited |-> 1, favAt |-> 1]
           ELSE [state |-> "new", visited |-> 0, favAt |-> 0]]
=============================================================================
