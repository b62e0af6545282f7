---------------------------- MODULE FileRetention ----------------------------
(* What the deletion queue promises: a superseded HTML file stays on disk    *)
(* for the retention and as long as a share pins it, and is not forgotten    *)
(* before it is gone, unless its retirement failed.                        *)
EXTENDS Naturals

CONSTANTS Path, Retention

VARIABLES
  retired,  \* the superseded files still remembered, with their time
  unsure,   \* those of them whose retirement failed: they may be forgotten
  present,  \* the paths on disk
  shared,   \* the paths an active share pins
  clock

vars == <<retired, unsure, present, shared, clock>>

Init == retired = {} /\ unsure = {} /\ present = Path /\ shared = {} /\ clock = 0

Retire(p) ==
  /\ retired' = retired \union {[path |-> p, at |-> clock]}
  /\ UNCHANGED <<unsure, present, shared, clock>>

RetireInDoubt(p) ==
  LET rec == [path |-> p, at |-> clock] IN
  /\ retired' = retired \union {rec}
  /\ unsure' = unsure \union ({rec} \ retired)
  /\ UNCHANGED <<present, shared, clock>>

Delete(rec) ==
  /\ rec.at + Retention < clock /\ rec.path \notin shared
  /\ present' = present \ {rec.path}
  /\ UNCHANGED <<retired, unsure, shared, clock>>

Forget(recs) ==
  /\ \A rec \in recs : rec.path \notin present \/ rec \in unsure
  /\ retired' = retired \ recs
  /\ unsure' \subseteq unsure
  /\ UNCHANGED <<present, shared, clock>>

Environment ==
  /\ \/ clock' = clock + 1 /\ UNCHANGED shared
     \/ shared' \subseteq Path /\ UNCHANGED clock
  /\ UNCHANGED <<retired, unsure, present>>

Next ==
  \/ \E p \in Path : Retire(p) \/ RetireInDoubt(p)
  \/ \E rec \in retired : Delete(rec)
  \/ \E recs \in SUBSET retired : Forget(recs)
  \/ Environment

Spec == Init /\ [][Next]_vars
=============================================================================
