-------------------------- MODULE KeyedMutexProofs --------------------------
(* keyedMutex excludes the users of a key from each other, forgets the keys  *)
(* nobody uses, and implements KeyedLock, for any threads, keys, addresses. *)
EXTENDS KeyedMutex, FiniteSetTheorems, TLAPS

-----------------------------------------------------------------------------
(* The inductive invariant.                                                *)

\* A closure refers to the entry the map has for its key: an entry in use is
\* never replaced.
InUse ==
  \A t \in Thread : pc[t] # "idle" =>
    key[t] \in Key /\ entry[t] \in Entry /\ locks[key[t]] = entry[t]

\* refs counts the closures, and an entry in the map has one.
Counted ==
  \A k \in Key : locks[k] # Null =>
    /\ refs[locks[k]] = Cardinality(Users(locks[k]))
    /\ Users(locks[k]) # {}

Injective ==
  \A j, k \in Key : locks[j] # Null /\ locks[j] = locks[k] => j = k

Holding ==
  \A t \in Thread : pc[t] = "held" => holder[entry[t]] = t

KInv == TypeOK /\ InUse /\ Counted /\ Injective /\ Holding

\* Users(e) is a set of threads, hence finite.
LEMMA UsersFinite ==
  ASSUME NEW e
  PROVE  IsFiniteSet(Users(e)) /\ Cardinality(Users(e)) \in Nat
<1>1. Users(e) \subseteq Thread
  BY DEF Users
<1>2. IsFiniteSet(Users(e))
  BY <1>1, FS_Subset, ThreadAssumption
<1> QED BY <1>2, FS_CardinalityType

-----------------------------------------------------------------------------
\* At first no thread uses an entry.
LEMMA KInit == Init => KInv
BY NullAssumption, ThreadAssumption
DEF Init, KInv, TypeOK, InUse, Counted, Injective, Holding

\* Enter counts the caller in, on the entry of the key or on a fresh one.
LEMMA EnterInv ==
  ASSUME KInv, NEW t \in Thread, NEW k \in Key, Enter(t, k)
  PROVE  KInv'
<1> USE DEF KInv
<1> PICK e \in Entry :
      /\ \/ /\ locks[k] = e
            /\ refs' = [refs EXCEPT ![e] = @ + 1]
            /\ UNCHANGED <<locks, holder>>
         \/ /\ locks[k] = Null /\ Unused(e)
            /\ locks' = [locks EXCEPT ![k] = e]
            /\ refs' = [refs EXCEPT ![e] = 1]
            /\ holder' = [holder EXCEPT ![e] = Null]
      /\ entry' = [entry EXCEPT ![t] = e]
  BY DEF Enter
<1>0. /\ pc[t] = "idle" /\ pc' = [pc EXCEPT ![t] = "wait"]
      /\ key' = [key EXCEPT ![t] = k]
  BY DEF Enter
<1>1. TypeOK'
  BY <1>0 DEF TypeOK
<1>2. locks'[k] = e /\ \A j \in Key : j # k => locks'[j] = locks[j]
  BY DEF TypeOK
<1>3. InUse'
  BY <1>0, <1>2, NullAssumption DEF InUse, TypeOK, Unused, Users
<1>4. /\ t \notin Users(e)
      /\ Users(e)' = Users(e) \union {t}
      /\ \A d : d # e => Users(d)' = Users(d)
  BY <1>0 DEF Users, TypeOK
<1>5. Injective'
  BY <1>2, NullAssumption DEF Injective, Unused, TypeOK
<1>6. refs'[e] = Cardinality(Users(e)')
  <2>1. CASE locks[k] = e /\ refs' = [refs EXCEPT ![e] = @ + 1]
    <3>1. refs[e] = Cardinality(Users(e))
      BY <2>1, NullAssumption DEF Counted
    <3>2. Cardinality(Users(e) \union {t}) = Cardinality(Users(e)) + 1
      BY <1>4, UsersFinite, FS_AddElement
    <3> QED BY <1>4, <2>1, <3>1, <3>2 DEF TypeOK
  <2>2. CASE Unused(e) /\ refs' = [refs EXCEPT ![e] = 1]
    <3>1. Users(e)' = {t}
      BY <1>4, <2>2 DEF Unused
    <3>2. Cardinality({t}) = 1
      BY FS_Singleton
    <3> QED BY <2>2, <3>1, <3>2 DEF TypeOK
  <2> QED BY <2>1, <2>2
<1>7. Counted'
  <2> SUFFICES ASSUME NEW j \in Key, locks'[j] # Null
               PROVE  /\ refs'[locks'[j]] = Cardinality(Users(locks[j])')
                      /\ Users(locks[j])' # {}
    BY DEF Counted
  <2>1. CASE j = k
    BY <1>2, <1>4, <1>6, <2>1
  <2>2. CASE j # k
    <3>1. locks'[j] = locks[j] /\ locks[j] # e /\ locks[j] \in Entry
      BY <1>1, <1>2, <1>5, <2>2 DEF Injective, TypeOK
    <3> QED BY <1>4, <3>1 DEF Counted, TypeOK
  <2> QED BY <2>1, <2>2
<1>8. Holding'
  BY <1>0 DEF Holding, TypeOK, InUse, Unused, Users
<1> QED BY <1>1, <1>3, <1>5, <1>7, <1>8

\* Leave counts the caller out and, as the last one, takes the entry off the map.
LEMMA LeaveInv ==
  ASSUME KInv, NEW t \in Thread, Leave(t)
  PROVE  KInv'
<1> USE DEF KInv
<1> DEFINE e == entry[t]
           k == key[t]
<1>0. /\ pc[t] = "leave" /\ pc' = [pc EXCEPT ![t] = "idle"]
      /\ key' = [key EXCEPT ![t] = Null] /\ entry' = [entry EXCEPT ![t] = Null]
      /\ refs' = [refs EXCEPT ![e] = @ - 1] /\ UNCHANGED holder
      /\ locks' = IF refs[e] = 1 THEN [locks EXCEPT ![k] = Null] ELSE locks
  BY DEF Leave, Forget
<1>1. k \in Key /\ e \in Entry /\ locks[k] = e /\ e # Null
  BY <1>0, NullAssumption DEF InUse
<1>2. refs[e] = Cardinality(Users(e)) /\ t \in Users(e)
  BY <1>0, <1>1 DEF Counted, Users
<1>3. Cardinality(Users(e)) # 0
  BY <1>2, UsersFinite, FS_EmptySet
<1>4. \A d \in Entry : Users(d)' = IF d = e THEN Users(e) \ {t} ELSE Users(d)
  BY <1>0 DEF Users, TypeOK
<1>5. refs[e] = 1 => Users(e) = {t}
  <2> SUFFICES ASSUME Cardinality(Users(e)) = 1 PROVE Users(e) = {t}
    BY <1>2
  <2>1. PICK x : Users(e) = {x}
    BY UsersFinite, FS_Singleton
  <2> QED BY <1>2, <2>1
<1>6. Cardinality(Users(e) \ {t}) = Cardinality(Users(e)) - 1
  BY <1>2, UsersFinite, FS_RemoveElement
<1>7. TypeOK'
  <2>1. refs[e] - 1 \in Nat
    BY <1>1, <1>2, <1>3 DEF TypeOK
  <2> HIDE DEF e, k
  <2> QED BY <1>0, <1>1, <2>1 DEF TypeOK
<1>8. InUse'
  <2> SUFFICES ASSUME NEW u \in Thread, pc'[u] # "idle"
               PROVE  key'[u] \in Key /\ entry'[u] \in Entry /\ locks'[key'[u]] = entry'[u]
    BY DEF InUse
  <2>1. u # t /\ pc[u] # "idle" /\ key'[u] = key[u] /\ entry'[u] = entry[u]
    BY <1>0 DEF TypeOK
  <2>2. key[u] = k => refs[e] # 1
    BY <1>1, <1>5, <2>1 DEF InUse, Users
  <2> QED BY <1>0, <2>1, <2>2 DEF InUse, TypeOK
<1>9. Injective'
  BY <1>0 DEF Injective, TypeOK
<1>10. Counted'
  <2> SUFFICES ASSUME NEW j \in Key, NEW d, d = locks'[j], d # Null
               PROVE  refs'[d] = Cardinality(Users(d)') /\ Users(d)' # {}
    BY DEF Counted
  <2>1. locks[j] = d /\ d \in Entry
    BY <1>0 DEF TypeOK
  <2>2. CASE d = e
    <3>1. j = k
      BY <1>1, <2>1, <2>2 DEF Injective
    <3>2. refs[e] # 1
      BY <1>0, <1>1, <3>1 DEF TypeOK
    <3>3. refs'[e] = Cardinality(Users(e)) - 1
      BY <1>0, <1>1, <1>2 DEF TypeOK
    <3>4. Cardinality(Users(e) \ {t}) # 0
      BY <1>2, <1>6, <3>2, UsersFinite
    <3>5. Users(e) \ {t} # {}
      BY <3>4, FS_EmptySet
    <3> QED BY <1>4, <1>6, <2>1, <2>2, <3>3, <3>5
  <2>3. CASE d # e
    BY <1>0, <1>4, <2>1, <2>3 DEF Counted, TypeOK
  <2> QED BY <2>2, <2>3
<1>11. Holding'
  BY <1>0 DEF Holding, TypeOK
<1> QED BY <1>7, <1>8, <1>9, <1>10, <1>11

\* Lock and Unlock leave the map, the counts and the closures alone.
LEMMA LockUnlockInv ==
  ASSUME KInv, NEW t \in Thread, Lock(t) \/ Unlock(t)
  PROVE  KInv'
<1> USE DEF KInv
<1>1. /\ pc[t] # "idle" /\ UNCHANGED <<key, entry, locks, refs>>
      /\ \E l \in {"held", "leave"} : pc' = [pc EXCEPT ![t] = l]
  BY DEF Lock, Unlock
<1>2. TypeOK'
  BY DEF TypeOK, Lock, Unlock
<1>3. InUse' /\ Injective'
  BY <1>1 DEF InUse, Injective, TypeOK
<1>4. \A d : Users(d)' = Users(d)
  BY <1>1 DEF Users, TypeOK
<1>5. Counted'
  BY <1>1, <1>4 DEF Counted
<1>6. Holding'
  <2>1. CASE Lock(t)
    BY <1>1, <2>1, ThreadAssumption DEF Holding, InUse, TypeOK, Lock
  <2>2. CASE Unlock(t)
    BY <1>1, <2>2, ThreadAssumption DEF Holding, InUse, TypeOK, Unlock
  <2> QED BY <2>1, <2>2
<1> QED BY <1>2, <1>3, <1>5, <1>6

\* Every step keeps the counts exact.
LEMMA KNext == KInv /\ [Next]_vars => KInv'
<1>1. KInv /\ UNCHANGED vars => KInv'
  <2> SUFFICES ASSUME KInv, UNCHANGED vars PROVE KInv'
    OBVIOUS
  <2>1. \A d : Users(d)' = Users(d)
    BY DEF Users, vars
  <2> QED BY <2>1 DEF vars, KInv, TypeOK, InUse, Counted, Injective, Holding
<1> QED BY <1>1, EnterInv, LockUnlockInv, LeaveInv DEF Next

\* The counts of the entries are exact in every reachable state.
THEOREM CountInvariance == Spec => []KInv
<1> QED BY KInit, KNext, PTL DEF Spec

\* No two goroutines are inside the same key, whoever frees and reallocates
\* entries meanwhile.
THEOREM Exclusion == Spec => []MutualExclusion
<1>1. KInv => MutualExclusion
  <2> SUFFICES ASSUME KInv, NEW t \in Thread, NEW u \in Thread,
                      pc[t] = "held", pc[u] = "held", key[t] = key[u]
               PROVE  t = u
    BY DEF MutualExclusion
  <2>1. entry[t] = entry[u]
    BY DEF KInv, InUse
  <2> QED BY <2>1 DEF KInv, Holding
<1> QED BY <1>1, CountInvariance, PTL

\* The map holds the keys in use and no other.
THEOREM NothingLeaks == Spec => []NoLeak
<1>1. KInv => NoLeak
  <2> SUFFICES ASSUME KInv, NEW k \in Key
               PROVE  locks[k] # Null <=> \E t \in Thread : pc[t] # "idle" /\ key[t] = k
    BY DEF NoLeak
  <2>1. ASSUME locks[k] # Null
        PROVE  \E t \in Thread : pc[t] # "idle" /\ key[t] = k
    <3>1. PICK t \in Thread : pc[t] # "idle" /\ entry[t] = locks[k]
      BY <2>1 DEF KInv, Counted, Users
    <3> QED BY <2>1, <3>1 DEF KInv, InUse, Injective
  <2>2. ASSUME NEW t \in Thread, pc[t] # "idle", key[t] = k
        PROVE  locks[k] # Null
    BY <2>2, NullAssumption DEF KInv, InUse
  <2> QED BY <2>1, <2>2
<1> QED BY <1>1, CountInvariance, PTL

-----------------------------------------------------------------------------
(* Refinement.                                                             *)

\* owner is the thread inside the key, which is unique.
LEMMA OwnerIs ==
  ASSUME MutualExclusion, NEW k \in Key
  PROVE  /\ \A t \in Thread : pc[t] = "held" /\ key[t] = k => owner[k] = t
         /\ (\A t \in Thread : ~(pc[t] = "held" /\ key[t] = k)) => owner[k] = Null
BY DEF owner, MutualExclusion

\* keyedMutex implements the keyed lock: Enter asks, Lock grants, Unlock gives
\* back and Leave goes unseen.
THEOREM Refinement == Spec => ImplementsLock
<1>1. Init => Abstract!Init
  BY DEF Init, Abstract!Init, want, owner
<1>2. ASSUME KInv, KInv', MutualExclusion, MutualExclusion', [Next]_vars
      PROVE  [Abstract!Next]_(Abstract!vars)
  <2> USE <1>2 DEF KInv
  <2>1. ASSUME NEW t \in Thread, NEW k \in Key, Enter(t, k)
        PROVE  Abstract!Request(t, k)
    <3>1. pc[t] = "idle" /\ pc' = [pc EXCEPT ![t] = "wait"] /\ key' = [key EXCEPT ![t] = k]
      BY <2>1 DEF Enter
    <3>2. want[t] = Null /\ want' = [want EXCEPT ![t] = k]
      BY <3>1 DEF want, TypeOK
    <3>3. UNCHANGED owner
      BY <3>1 DEF owner, TypeOK
    <3> QED BY <3>2, <3>3 DEF Abstract!Request
  <2>2. ASSUME NEW t \in Thread, Lock(t)
        PROVE  Abstract!Grant(t)
    <3>1. /\ pc[t] = "wait" /\ pc' = [pc EXCEPT ![t] = "held"] /\ UNCHANGED key
          /\ holder[entry[t]] = Null /\ key[t] \in Key
      BY <2>2 DEF Lock, InUse
    <3>2. want[t] = key[t] /\ want[t] # Null /\ UNCHANGED want
      BY <3>1, NullAssumption DEF want, TypeOK
    <3>3. \A u \in Thread : ~(pc[u] = "held" /\ key[u] = key[t])
      BY <3>1, ThreadAssumption DEF InUse, Holding
    <3>4. owner[key[t]] = Null
      BY <3>1, <3>3, OwnerIs
    <3>5. owner' = [owner EXCEPT ![key[t]] = t]
      <4>1. owner'[key[t]] = t
        BY <3>1, OwnerIs DEF owner, TypeOK, MutualExclusion
      <4>2. ASSUME NEW j \in Key, j # key[t]
            PROVE  owner'[j] = owner[j]
        <5>1. \A u \in Thread : pc'[u] = "held" /\ key'[u] = j <=> pc[u] = "held" /\ key[u] = j
          BY <3>1, <4>2 DEF TypeOK
        <5> QED BY <5>1 DEF owner
      <4> QED BY <4>1, <4>2, ZenonT(60) DEF owner
    <3> QED BY <3>2, <3>4, <3>5 DEF Abstract!Grant
  <2>3. ASSUME NEW t \in Thread, Unlock(t)
        PROVE  Abstract!Free(t)
    <3>1. /\ pc[t] = "held" /\ pc' = [pc EXCEPT ![t] = "leave"] /\ UNCHANGED key
          /\ key[t] \in Key
      BY <2>3 DEF Unlock, InUse
    <3>2. want[t] = key[t] /\ want[t] # Null /\ want' = [want EXCEPT ![t] = Null]
      BY <3>1, NullAssumption DEF want, TypeOK
    <3>3. owner[key[t]] = t
      BY <3>1, OwnerIs
    <3>4. owner' = [owner EXCEPT ![key[t]] = Null]
      <4>1. \A u \in Thread : ~(pc'[u] = "held" /\ key'[u] = key[t])
        BY <3>1 DEF MutualExclusion, TypeOK
      <4>2. owner'[key[t]] = Null
        BY <3>1, <4>1 DEF owner
      <4>3. ASSUME NEW j \in Key, j # key[t]
            PROVE  owner'[j] = owner[j]
        <5>1. \A u \in Thread : pc'[u] = "held" /\ key'[u] = j <=> pc[u] = "held" /\ key[u] = j
          BY <3>1, <4>3 DEF TypeOK
        <5> QED BY <5>1 DEF owner
      <4> QED BY <4>2, <4>3 DEF owner
    <3> QED BY <3>2, <3>3, <3>4 DEF Abstract!Free
  <2>4. ASSUME NEW t \in Thread, Leave(t)
        PROVE  UNCHANGED <<want, owner>>
    <3>1. /\ pc[t] = "leave" /\ pc' = [pc EXCEPT ![t] = "idle"]
          /\ key' = [key EXCEPT ![t] = Null]
      BY <2>4 DEF Leave
    <3> QED BY <3>1 DEF want, owner, TypeOK
  <2>5. CASE UNCHANGED vars
    BY <2>5 DEF vars, want, owner, Abstract!vars
  <2> QED BY <2>1, <2>2, <2>3, <2>4, <2>5 DEF Next, Abstract!Next, Abstract!vars
<1> QED
  BY <1>1, <1>2, CountInvariance, Exclusion, PTL DEF Spec, ImplementsLock, Abstract!Spec
=============================================================================
