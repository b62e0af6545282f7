----------------------------- MODULE KeyedMutex -----------------------------
(* keyedMutex (storage/deduplicator.go): one sync.Mutex per key, allocated   *)
(* on first use and counted, so that the map forgets the keys nobody uses.   *)
(* It serializes preparePageCreate by URL and hash (LockPage) and            *)
(* processResource by URL (LockResource).                                    *)
(*                                                                         *)
(* The sections under m.mu never block, so each is one action; between them *)
(* other threads run.                                                      *)
EXTENDS Naturals, FiniteSets

CONSTANTS
  Thread,   \* goroutines
  Key,      \* keys of the map
  Entry,    \* addresses of keyedMutexEntry objects
  Null

ASSUME ThreadAssumption == IsFiniteSet(Thread) /\ Null \notin Thread
ASSUME NullAssumption == Null \notin Entry /\ Null \notin Key

VARIABLES
  pc,       \* idle, wait (in entry.mu.Lock), held, leave (entry.mu unlocked)
  key,      \* the key a thread asked for
  entry,    \* the entry its closure captured
  locks,    \* m.locks
  refs,     \* entry.refs
  holder    \* who holds entry.mu

vars == <<pc, key, entry, locks, refs, holder>>

TypeOK ==
  /\ pc \in [Thread -> {"idle", "wait", "held", "leave"}]
  /\ key \in [Thread -> Key \union {Null}]
  /\ entry \in [Thread -> Entry \union {Null}]
  /\ locks \in [Key -> Entry \union {Null}]
  /\ refs \in [Entry -> Nat]
  /\ holder \in [Entry -> Thread \union {Null}]

\* The threads whose closure refers to e.
Users(e) == {t \in Thread : pc[t] # "idle" /\ entry[t] = e}

\* An address the allocator may return: nothing refers to the object there.
Unused(e) == Users(e) = {} /\ \A k \in Key : locks[k] # e

-----------------------------------------------------------------------------
\* The first section under m.mu: find or allocate the entry, count the caller.
Enter(t, k) ==
  /\ pc[t] = "idle"
  /\ \E e \in Entry :
       /\ \/ /\ locks[k] = e
             /\ refs' = [refs EXCEPT ![e] = @ + 1]
             /\ UNCHANGED <<locks, holder>>
          \/ /\ locks[k] = Null /\ Unused(e)
             /\ locks' = [locks EXCEPT ![k] = e]
             /\ refs' = [refs EXCEPT ![e] = 1]
             /\ holder' = [holder EXCEPT ![e] = Null]
       /\ entry' = [entry EXCEPT ![t] = e]
  /\ key' = [key EXCEPT ![t] = k]
  /\ pc' = [pc EXCEPT ![t] = "wait"]

\* entry.mu.Lock returns.
Lock(t) ==
  /\ pc[t] = "wait"
  /\ holder[entry[t]] = Null
  /\ holder' = [holder EXCEPT ![entry[t]] = t]
  /\ pc' = [pc EXCEPT ![t] = "held"]
  /\ UNCHANGED <<key, entry, locks, refs>>

\* Mutant: the closure gives the entry back and leaves its mutex locked.
UnlockForgotten(t) ==
  /\ pc[t] = "held"
  /\ pc' = [pc EXCEPT ![t] = "leave"]
  /\ UNCHANGED <<key, entry, locks, refs, holder>>

\* The returned closure: entry.mu.Unlock.
Unlock(t) ==
  /\ pc[t] = "held"
  /\ holder' = [holder EXCEPT ![entry[t]] = Null]
  /\ pc' = [pc EXCEPT ![t] = "leave"]
  /\ UNCHANGED <<key, entry, locks, refs>>

\* Mutant: the map forgets the key whoever else waits for it.
ForgetAlways(t) == TRUE

\* The entry leaves the map with its last user.
Forget(t) == refs[entry[t]] = 1

\* Its second section under m.mu.
Leave(t) ==
  /\ pc[t] = "leave"
  /\ refs' = [refs EXCEPT ![entry[t]] = @ - 1]
  /\ locks' = IF Forget(t) THEN [locks EXCEPT ![key[t]] = Null] ELSE locks
  /\ pc' = [pc EXCEPT ![t] = "idle"]
  /\ key' = [key EXCEPT ![t] = Null]
  /\ entry' = [entry EXCEPT ![t] = Null]
  /\ UNCHANGED holder

-----------------------------------------------------------------------------
Init ==
  /\ pc = [t \in Thread |-> "idle"]
  /\ key = [t \in Thread |-> Null]
  /\ entry = [t \in Thread |-> Null]
  /\ locks = [k \in Key |-> Null]
  /\ refs = [e \in Entry |-> 0]
  /\ holder = [e \in Entry |-> Null]

Next ==
  \E t \in Thread : \/ \E k \in Key : Enter(t, k)
                    \/ Lock(t) \/ Unlock(t) \/ Leave(t)

Spec == Init /\ [][Next]_vars

\* sync.Mutex hands over to a waiter of more than 1 ms, and the sections that
\* run under a key end: they wait for downloads with timeouts, never for a key.
Fairness ==
  \A t \in Thread : SF_vars(Lock(t)) /\ WF_vars(Unlock(t)) /\ WF_vars(Leave(t))
FairSpec == Spec /\ Fairness

-----------------------------------------------------------------------------
\* Two callers are never inside the same key, although entries are freed and
\* reallocated while callers come and go.
MutualExclusion ==
  \A t, u \in Thread : pc[t] = "held" /\ pc[u] = "held" /\ key[t] = key[u] => t = u

\* The map does not leak: it has an entry for the keys in use and no other.
NoLeak ==
  \A k \in Key : locks[k] # Null <=> \E t \in Thread : pc[t] # "idle" /\ key[t] = k

\* A caller that asked for a key gets it.
Served == \A t \in Thread : pc[t] = "wait" ~> pc[t] = "held"

-----------------------------------------------------------------------------
(* The lock its callers see: a key is given back by entry.mu.Unlock.        *)
want == [t \in Thread |-> IF pc[t] \in {"wait", "held"} THEN key[t] ELSE Null]
owner ==
  [k \in Key |->
     IF \E t \in Thread : pc[t] = "held" /\ key[t] = k
     THEN CHOOSE t \in Thread : pc[t] = "held" /\ key[t] = k
     ELSE Null]

Abstract == INSTANCE KeyedLock

\* keyedMutex implements the keyed lock.
ImplementsLock == Abstract!Spec
=============================================================================
