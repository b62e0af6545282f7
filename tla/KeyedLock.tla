------------------------------ MODULE KeyedLock ------------------------------
(* What LockPage and LockResource promise their callers: one owner per key.  *)
CONSTANTS Thread, Key, Null

VARIABLES
  want,    \* the key a thread asked for and has not given back, or Null
  owner    \* the thread that holds a key, or Null

vars == <<want, owner>>

Init == want = [t \in Thread |-> Null] /\ owner = [k \in Key |-> Null]

Request(t, k) ==
  /\ want[t] = Null
  /\ want' = [want EXCEPT ![t] = k]
  /\ UNCHANGED owner

Grant(t) ==
  /\ want[t] # Null /\ owner[want[t]] = Null
  /\ owner' = [owner EXCEPT ![want[t]] = t]
  /\ UNCHANGED want

Free(t) ==
  /\ want[t] # Null /\ owner[want[t]] = t
  /\ owner' = [owner EXCEPT ![want[t]] = Null]
  /\ want' = [want EXCEPT ![t] = Null]

Next == \E t \in Thread : Grant(t) \/ Free(t) \/ \E k \in Key : Request(t, k)

Spec == Init /\ [][Next]_vars
=============================================================================
