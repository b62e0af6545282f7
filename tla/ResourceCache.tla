---------------------------- MODULE ResourceCache ----------------------------
(* storage/resource_cache.go: the metadata of downloaded resources by URL, a *)
(* sync.Map with a byte counter beside it.  Stores and the periodic cleanup  *)
(* hold cacheMu; lookups and deletions do not, but their callers hold the    *)
(* lock of the URL (processResource).  One action is one access to the map   *)
(* or to the counter.                                                      *)
EXTENDS Integers, FiniteSets, Functions

CONSTANTS
  Thread,    \* calls of processResource
  Cleaner,   \* the goroutine of StartCleanup
  Key,       \* URLs
  SizeOf,    \* cacheEntrySize of each
  MaxBytes, TTL,
  Null,
  MaxClock, MaxStores   \* bounds

ASSUME SizeAssumption == SizeOf \in [Key -> Nat \ {0}]
ASSUME FiniteAssumption == IsFiniteSet(Key) /\ IsFiniteSet(Thread) /\ Cleaner \notin Thread
ASSUME NullAssumption == Null \notin Key \union Thread \union {Cleaner} \union Nat
ASSUME BoundsAssumption ==
  MaxBytes \in Nat /\ TTL \in Nat \ {0} /\ MaxClock \in Nat /\ MaxStores \in Nat

VARIABLES
  pc,       \* where each thread is
  key,      \* the URL a thread works on, whose lock it holds
  victim,   \* the entry a thread is about to take out of the map
  owed,     \* the size of the entry it took out and has not subtracted yet
  entries,  \* cachedAt of the entry of each key, or Null
  bytes,    \* the counter
  mu,       \* who holds cacheMu
  clock, stores

vars == <<pc, key, victim, owed, entries, bytes, mu, clock, stores>>

Everyone == Thread \union {Cleaner}

TypeOK ==
  /\ pc \in [Everyone -> {"idle", "use", "take", "takeExpired", "settle", "room",
                          "put", "add", "clean"}]
  /\ key \in [Everyone -> Key \union {Null}]
  /\ victim \in [Everyone -> Key \union {Null}]
  /\ owed \in [Everyone -> Nat]
  /\ entries \in [Key -> 0..MaxClock \union {Null}]
  /\ bytes \in Nat
  /\ mu \in Everyone \union {Null}
  /\ clock \in 0..MaxClock /\ stores \in 0..MaxStores

-----------------------------------------------------------------------------
Goto(t, label) == pc' = [pc EXCEPT ![t] = label]
Cached == {k \in Key : entries[k] # Null}
Expired(k) == k \in Cached /\ entries[k] + TTL <= clock
SizeOfAll(ks) == SumFunctionOnSet(SizeOf, ks)

\* Mutant: the caller does not hold the lock of the URL.
UrlFreeNoLock(k) == TRUE

\* LockResource: see KeyedLock.
UrlFree(k) == \A t \in Thread : key[t] # k

\* Where a thread goes on after an entry has been taken out.
Onward(t) == IF mu # t THEN "use" ELSE IF t = Cleaner THEN "clean" ELSE "room"

\* Mutant: the size is subtracted whether or not the entry was still there.
TakeUnchecked(t) ==
  /\ entries' = [entries EXCEPT ![victim[t]] = Null]
  /\ owed' = [owed EXCEPT ![t] = SizeOf[victim[t]]]
  /\ Goto(t, "settle")
  /\ victim' = [victim EXCEPT ![t] = Null]

\* The expired entry Store meant to evict has gone: Range ends there, and the
\* oldest of the entries seen before goes, or nothing when there was none.
GoneExpired(t) ==
  \/ Goto(t, "put") /\ victim' = [victim EXCEPT ![t] = Null]
  \/ \E k \in Cached : /\ ~Expired(k)
                       /\ Goto(t, "take") /\ victim' = [victim EXCEPT ![t] = k]

\* LoadAndDelete: of two threads only one gets the entry and its size.
Take(t) ==
  /\ entries' = [entries EXCEPT ![victim[t]] = Null]
  /\ \/ /\ victim[t] \in Cached
        /\ owed' = [owed EXCEPT ![t] = SizeOf[victim[t]]]
        /\ Goto(t, "settle") /\ victim' = [victim EXCEPT ![t] = Null]
     \/ /\ victim[t] \notin Cached /\ UNCHANGED owed
        /\ IF pc[t] = "takeExpired" /\ Onward(t) = "room"
           THEN GoneExpired(t)
           ELSE Goto(t, Onward(t)) /\ victim' = [victim EXCEPT ![t] = Null]

-----------------------------------------------------------------------------
(* Load and Delete, by the caller that holds the URL.                      *)

\* processResource begins, or goes on, with the lock of its URL.
Begin(t, k) ==
  /\ pc[t] = "idle" /\ UrlFree(k)
  /\ key' = [key EXCEPT ![t] = k]
  /\ Goto(t, "use")
  /\ UNCHANGED <<victim, owed, entries, bytes, mu, clock, stores>>

\* Load of an expired entry, which it will delete by its key.
LoadExpired(t) ==
  /\ pc[t] = "use" /\ Expired(key[t])
  /\ victim' = [victim EXCEPT ![t] = key[t]]
  /\ Goto(t, "takeExpired")
  /\ UNCHANGED <<key, owed, entries, bytes, mu, clock, stores>>

\* Delete of an entry whose row proved unusable.
Delete(t) ==
  /\ pc[t] = "use" /\ key[t] \in Cached
  /\ victim' = [victim EXCEPT ![t] = key[t]]
  /\ Goto(t, "take")
  /\ UNCHANGED <<key, owed, entries, bytes, mu, clock, stores>>

TakeOut(t) ==
  /\ pc[t] \in {"take", "takeExpired"}
  /\ Take(t)
  /\ UNCHANGED <<key, bytes, mu, clock, stores>>

\* bytes.Add of the size taken out.
Settle(t) ==
  /\ pc[t] = "settle"
  /\ bytes' = bytes - owed[t]
  /\ owed' = [owed EXCEPT ![t] = 0]
  /\ Goto(t, Onward(t))
  /\ UNCHANGED <<key, victim, entries, mu, clock, stores>>

End(t) ==
  /\ pc[t] = "use"
  /\ key' = [key EXCEPT ![t] = Null]
  /\ Goto(t, "idle")
  /\ UNCHANGED <<victim, owed, entries, bytes, mu, clock, stores>>

-----------------------------------------------------------------------------
(* Store.                                                                  *)

\* An entry larger than the cache is not stored; then cacheMu is taken and the
\* key's former entry goes out.
StoreBegin(t) ==
  /\ pc[t] = "use" /\ stores < MaxStores
  /\ SizeOf[key[t]] <= MaxBytes /\ mu = Null
  /\ stores' = stores + 1
  /\ mu' = t
  /\ victim' = [victim EXCEPT ![t] = key[t]]
  /\ Goto(t, "take")
  /\ UNCHANGED <<key, owed, entries, bytes, clock>>

\* Mutant: the new entry's own size is not counted.
FitsWithout(k) == bytes <= MaxBytes

Fits(k) == bytes + SizeOf[k] <= MaxBytes

\* What Range settles on: an expired entry, or the oldest when it saw them all.
Oldest == {k \in Cached : \A j \in Cached : entries[k] <= entries[j]}
Evict(t) ==
  \/ \E k \in Cached : /\ Expired(k) /\ victim' = [victim EXCEPT ![t] = k]
                       /\ Goto(t, "takeExpired")
  \/ /\ \A k \in Cached : ~Expired(k)
     /\ \E k \in Oldest : victim' = [victim EXCEPT ![t] = k]
     /\ Goto(t, "take")

\* The head of the loop; an empty map ends it.
Room(t) ==
  /\ pc[t] = "room"
  /\ \/ (Fits(key[t]) \/ Cached = {}) /\ Goto(t, "put") /\ UNCHANGED victim
     \/ ~Fits(key[t]) /\ Evict(t)
  /\ UNCHANGED <<key, owed, entries, bytes, mu, clock, stores>>

Put(t) ==
  /\ pc[t] = "put"
  /\ entries' = [entries EXCEPT ![key[t]] = clock]
  /\ Goto(t, "add")
  /\ UNCHANGED <<key, victim, owed, bytes, mu, clock, stores>>

\* bytes.Add of the new entry, and cacheMu is given back.
AddSize(t) ==
  /\ pc[t] = "add"
  /\ bytes' = bytes + SizeOf[key[t]]
  /\ mu' = Null
  /\ Goto(t, "use")
  /\ UNCHANGED <<key, victim, owed, entries, clock, stores>>

-----------------------------------------------------------------------------
(* CleanupExpired, time.                                                   *)

CleanBegin ==
  /\ pc[Cleaner] = "idle" /\ mu = Null
  /\ \E k \in Key : Expired(k)
  /\ mu' = Cleaner
  /\ Goto(Cleaner, "clean")
  /\ UNCHANGED <<key, victim, owed, entries, bytes, clock, stores>>

CleanOne(k) ==
  /\ pc[Cleaner] = "clean" /\ Expired(k)
  /\ victim' = [victim EXCEPT ![Cleaner] = k]
  /\ Goto(Cleaner, "takeExpired")
  /\ UNCHANGED <<key, owed, entries, bytes, mu, clock, stores>>

CleanEnd ==
  /\ pc[Cleaner] = "clean"
  /\ mu' = Null
  /\ Goto(Cleaner, "idle")
  /\ UNCHANGED <<key, victim, owed, entries, bytes, clock, stores>>

Tick ==
  /\ clock < MaxClock
  /\ clock' = clock + 1
  /\ UNCHANGED <<pc, key, victim, owed, entries, bytes, mu, stores>>

-----------------------------------------------------------------------------
Init ==
  /\ pc = [t \in Everyone |-> "idle"]
  /\ key = [t \in Everyone |-> Null] /\ victim = [t \in Everyone |-> Null]
  /\ owed = [t \in Everyone |-> 0]
  /\ entries = [k \in Key |-> Null]
  /\ bytes = 0 /\ mu = Null /\ clock = 0 /\ stores = 0

Step(t) ==
  \/ \E k \in Key : Begin(t, k)
  \/ LoadExpired(t) \/ Delete(t) \/ End(t)
  \/ StoreBegin(t) \/ Room(t) \/ Put(t) \/ AddSize(t)

Next ==
  \/ \E t \in Thread : Step(t)
  \/ \E t \in Everyone : TakeOut(t) \/ Settle(t)
  \/ CleanBegin \/ CleanEnd \/ Tick
  \/ \E k \in Key : CleanOne(k)

Spec == Init /\ [][Next]_vars

-----------------------------------------------------------------------------
\* What each thread has put into the map and has not added to the counter yet.
Due == [t \in Thread |-> IF pc[t] = "add" THEN SizeOf[key[t]] ELSE 0]

\* The counter is the size of the map up to what the threads have yet to add or
\* subtract: no interleaving of lookups, stores and cleanups makes it drift.
CounterExact ==
  bytes + SumFunctionOnSet(Due, Thread)
    = SizeOfAll(Cached) + SumFunctionOnSet(owed, Everyone)

\* The map stays within its budget as long as nothing has expired, although the
\* counter lags behind the entries that lookups take out.
Budget == clock < TTL => SizeOfAll(Cached) <= MaxBytes

\* What holds of the map at any moment: its types, and its budget.
Inv == TypeOK /\ Budget

\* What goes because it has expired has: an entry is taken out by its key, some
\* time after it was looked at, and a new one may have been stored there.
OnlyExpiredTaken ==
  \A t \in Everyone :
    pc[t] = "takeExpired" /\ victim[t] \in Cached => Expired(victim[t])
=============================================================================
