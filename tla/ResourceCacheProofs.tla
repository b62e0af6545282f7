------------------------ MODULE ResourceCacheProofs ------------------------
(* The counter of the cache never drifts from the entries, the entries never *)
(* exceed their budget while nothing has expired, and what is taken out as   *)
(* expired has expired.                                                    *)
EXTENDS ResourceCache, FiniteSetTheorems, TLAPS, WellFoundedInduction

-----------------------------------------------------------------------------
(* Induction.                                                              *)

Below == {q \in Nat \X Nat : q[1] < q[2]}

\* A set of numbers with 0 and every successor is all of them.
LEMMA NatInduct ==
  ASSUME NEW S, 0 \in S, \A n \in Nat : n \in S => n + 1 \in S
  PROVE  \A n \in Nat : n \in S
<1> SUFFICES ASSUME Nat \ S # {} PROVE FALSE
  OBVIOUS
<1>1. IsWellFoundedOn(Below, Nat)
  BY NatLessThanWellFounded, Zenon DEF Below, OpToRel
<1> DEFINE T == Nat \ S
<1>2. T \subseteq Nat /\ T # {}
  OBVIOUS
<1> HIDE DEF T
<1>3. \E n \in T : \A m \in T : <<m, n>> \notin Below
  BY <1>1, <1>2, WFMin, Zenon
<1> USE DEF T
<1>4. PICK n \in Nat \ S : \A m \in Nat \ S : ~(m < n)
  BY <1>3 DEF Below
<1>5. n # 0 /\ n - 1 \in Nat
  BY <1>4
<1>6. n - 1 \in S
  BY <1>4, <1>5
<1> QED BY <1>4, <1>5, <1>6

-----------------------------------------------------------------------------
(* Sums over finite sets.                                                  *)

Some(s) == CHOOSE x \in s : TRUE

\* g sums f over each subset of S of at most n elements.
SumsUpTo(f, S, n, g) ==
  g = [s \in {r \in SUBSET S : Cardinality(r) <= n} |->
         IF s = {} THEN 0 ELSE f[Some(s)] + g[s \ {Some(s)}]]

Sums(f, S, g) ==
  g = [s \in SUBSET S |-> IF s = {} THEN 0 ELSE f[Some(s)] + g[s \ {Some(s)}]]

\* Taking one element out of a finite set.
LEMMA OneLess ==
  ASSUME NEW S, IsFiniteSet(S), NEW s \in SUBSET S
  PROVE  /\ Cardinality(s) \in Nat /\ IsFiniteSet(s)
         /\ Cardinality(s) = 0 <=> s = {}
         /\ \A x \in s : Cardinality(s \ {x}) = Cardinality(s) - 1
         /\ s # {} => Some(s) \in s
<1>1. IsFiniteSet(s) /\ Cardinality(s) \in Nat
  BY FS_Subset, FS_CardinalityType
<1>2. Cardinality(s) = 0 <=> s = {}
  BY <1>1, FS_EmptySet
<1>3. \A x \in s : Cardinality(s \ {x}) = Cardinality(s) - 1
  BY <1>1, FS_RemoveElement
<1> QED BY <1>1, <1>2, <1>3 DEF Some

\* The recursive definition has a solution, built size by size.
LEMMA SumsExist ==
  ASSUME NEW f, NEW S, IsFiniteSet(S)
  PROVE  \E g : Sums(f, S, g)
<1> DEFINE N == {n \in Nat : \E g : SumsUpTo(f, S, n, g)}
<1>1. 0 \in N
  <2> DEFINE g == [s \in {r \in SUBSET S : Cardinality(r) <= 0} |-> 0]
  <2>1. \A s \in {r \in SUBSET S : Cardinality(r) <= 0} : s = {}
    BY OneLess
  <2>2. SumsUpTo(f, S, 0, g)
    BY <2>1 DEF SumsUpTo
  <2> QED BY <2>2
<1>2. ASSUME NEW n \in Nat, n \in N
      PROVE  n + 1 \in N
  <2>1. PICK g : SumsUpTo(f, S, n, g)
    BY <1>2
  <2> DEFINE D(m) == {r \in SUBSET S : Cardinality(r) <= m}
             h == [s \in D(n + 1) |-> IF s = {} THEN 0 ELSE f[Some(s)] + g[s \ {Some(s)}]]
  <2>2. \A s \in D(n) : g[s] = IF s = {} THEN 0 ELSE f[Some(s)] + g[s \ {Some(s)}]
    BY <2>1 DEF SumsUpTo
  <2>3. \A s \in D(n) : s \in D(n + 1)
    BY OneLess
  <2>4. \A s \in D(n) : h[s] = g[s]
    BY <2>2, <2>3
  <2>5. \A s \in D(n + 1) : s # {} => s \ {Some(s)} \in D(n)
    BY OneLess
  <2>6. h = [s \in D(n + 1) |-> IF s = {} THEN 0 ELSE f[Some(s)] + h[s \ {Some(s)}]]
    BY <2>4, <2>5
  <2>7. SumsUpTo(f, S, n + 1, h)
    BY <2>6 DEF SumsUpTo
  <2> QED BY <2>7
<1> HIDE DEF N
<1>3. \A n \in Nat : n \in N
  BY <1>1, <1>2, NatInduct
<1> DEFINE c == Cardinality(S)
<1>4. c \in Nat /\ \A r \in SUBSET S : Cardinality(r) <= c
  BY FS_CardinalityType, FS_Subset
<1>5. PICK g : SumsUpTo(f, S, c, g)
  BY <1>3, <1>4 DEF N
<1>6. {r \in SUBSET S : Cardinality(r) <= c} = SUBSET S
  BY <1>4
<1>7. Sums(f, S, g)
  BY <1>5, <1>6 DEF SumsUpTo, Sums
<1> QED BY <1>7

\* The sum of the library is that solution at the whole set.
LEMMA SumIsSums ==
  ASSUME NEW f, NEW S, IsFiniteSet(S)
  PROVE  \E g : Sums(f, S, g) /\ SumFunctionOnSet(f, S) = g[S]
<1>1. SumFunctionOnSet(f, S) = (CHOOSE g : Sums(f, S, g))[S]
  BY DEF SumFunctionOnSet, FoldFunctionOnSet, MapThenFoldSet, Sums, Some
<1>2. Sums(f, S, CHOOSE g : Sums(f, S, g))
  BY SumsExist
<1> QED BY <1>1, <1>2

\* Two solutions agree wherever their functions do.
LEMMA SumsAgree ==
  ASSUME NEW f, NEW h, NEW S, NEW T, IsFiniteSet(S), IsFiniteSet(T),
         NEW g, NEW k, Sums(f, S, g), Sums(h, T, k),
         NEW R \in SUBSET (S \intersect T), \A x \in R : f[x] = h[x]
  PROVE  g[R] = k[R]
<1> DEFINE N == {n \in Nat : \A r \in SUBSET R : Cardinality(r) = n => g[r] = k[r]}
<1>0. /\ \A s \in SUBSET S : g[s] = IF s = {} THEN 0 ELSE f[Some(s)] + g[s \ {Some(s)}]
      /\ \A s \in SUBSET T : k[s] = IF s = {} THEN 0 ELSE h[Some(s)] + k[s \ {Some(s)}]
  BY DEF Sums
<1>1. 0 \in N
  BY <1>0, OneLess
<1>2. ASSUME NEW n \in Nat, n \in N
      PROVE  n + 1 \in N
  <2>1. ASSUME NEW r \in SUBSET R, Cardinality(r) = n + 1
        PROVE  g[r] = k[r]
    <3>1. r # {} /\ Some(r) \in r /\ Cardinality(r \ {Some(r)}) = n
      BY <2>1, OneLess
    <3>2. g[r \ {Some(r)}] = k[r \ {Some(r)}]
      BY <1>2, <3>1
    <3> QED BY <1>0, <3>1, <3>2
  <2> QED BY <2>1
<1> HIDE DEF N
<1>3. \A n \in Nat : n \in N
  BY <1>1, <1>2, NatInduct
<1>4. Cardinality(R) \in Nat
  BY OneLess
<1> QED BY <1>3, <1>4 DEF N

\* Any element may be taken out of a sum first, not only the one chosen.
LEMMA SumsRemove ==
  ASSUME NEW S, IsFiniteSet(S), NEW f, \A x \in S : f[x] \in Nat, NEW g, Sums(f, S, g)
  PROVE  \A r \in SUBSET S : g[r] \in Nat /\ \A x \in r : g[r] = f[x] + g[r \ {x}]
<1> DEFINE P(r) == g[r] \in Nat /\ \A x \in r : g[r] = f[x] + g[r \ {x}]
           N == {n \in Nat : \A r \in SUBSET S : Cardinality(r) <= n => P(r)}
<1>0. \A s \in SUBSET S : g[s] = IF s = {} THEN 0 ELSE f[Some(s)] + g[s \ {Some(s)}]
  BY DEF Sums
<1>4. P({})
  <2>1. g[{}] = 0
    BY <1>0
  <2> QED BY <2>1
<1>1. 0 \in N
  <2>1. \A r \in SUBSET S : Cardinality(r) <= 0 => r = {}
    BY OneLess
  <2> QED BY <1>4, <2>1
<1>2. ASSUME NEW n \in Nat, n \in N
      PROVE  n + 1 \in N
  <2>1. ASSUME NEW r \in SUBSET S, Cardinality(r) <= n + 1, r # {}
        PROVE  P(r)
    <3> DEFINE y == Some(r)
    <3>1. y \in r /\ \A x \in r : Cardinality(r \ {x}) <= n
      BY <2>1, OneLess
    <3>2. ASSUME NEW x \in r
          PROVE  /\ g[r \ {x}] \in Nat /\ f[x] \in Nat
                 /\ \A z \in r \ {x} : g[r \ {x}] = f[z] + g[(r \ {x}) \ {z}]
      BY <1>2, <3>1
    <3>3. g[r] = f[y] + g[r \ {y}] /\ g[r \ {y}] \in Nat /\ f[y] \in Nat
      BY <1>0, <2>1, <3>1, <3>2
    <3>4. g[r] \in Nat
      BY <3>3
    <3>5. ASSUME NEW x \in r, x # y
          PROVE  g[r] = f[x] + g[r \ {x}]
      <4>1. g[r \ {y}] = f[x] + g[(r \ {y}) \ {x}]
        BY <3>1, <3>2, <3>5
      <4>2. g[r \ {x}] = f[y] + g[(r \ {x}) \ {y}]
        BY <3>1, <3>2, <3>5
      <4>3. (r \ {y}) \ {x} = (r \ {x}) \ {y}
        OBVIOUS
      <4>4. g[(r \ {y}) \ {x}] \in Nat
        <5>1. Cardinality(r \ {y}) \in Nat
               /\ Cardinality((r \ {y}) \ {x}) = Cardinality(r \ {y}) - 1
          BY <3>1, <3>5, OneLess
        <5>2. Cardinality((r \ {y}) \ {x}) <= n
          BY <3>1, <5>1
        <5> QED BY <1>2, <5>2
      <4>5. f[x] \in Nat /\ f[y] \in Nat
        BY <3>2, <3>3
      <4> QED BY <3>3, <4>1, <4>2, <4>3, <4>4, <4>5
    <3> QED BY <3>3, <3>4, <3>5
  <2> HIDE DEF P
  <2> QED BY <1>4, <2>1
<1> HIDE DEF N
<1>3. \A n \in Nat : n \in N
  BY <1>1, <1>2, NatInduct
<1>5. \A r \in SUBSET S : Cardinality(r) \in Nat
  BY OneLess
<1> QED BY <1>3, <1>5 DEF N

\* The empty sum.
LEMMA SumOfNone ==
  ASSUME NEW f
  PROVE  SumFunctionOnSet(f, {}) = 0
<1>1. PICK g : Sums(f, {}, g) /\ SumFunctionOnSet(f, {}) = g[{}]
  BY SumIsSums, FS_EmptySet
<1> QED BY <1>1 DEF Sums

\* A sum depends on its summands only.
LEMMA SumSame ==
  ASSUME NEW S, IsFiniteSet(S), NEW f, NEW h, \A x \in S : f[x] = h[x]
  PROVE  SumFunctionOnSet(f, S) = SumFunctionOnSet(h, S)
<1>1. PICK g : Sums(f, S, g) /\ SumFunctionOnSet(f, S) = g[S]
  BY SumIsSums
<1>2. PICK k : Sums(h, S, k) /\ SumFunctionOnSet(h, S) = k[S]
  BY SumIsSums
<1>3. S \in SUBSET (S \intersect S)
  OBVIOUS
<1>4. g[S] = k[S]
  BY <1>1, <1>2, <1>3, SumsAgree
<1> QED BY <1>1, <1>2, <1>4

\* Any one summand may be split off.
LEMMA SumSplit ==
  ASSUME NEW S, IsFiniteSet(S), NEW f, \A x \in S : f[x] \in Nat
  PROVE  /\ SumFunctionOnSet(f, S) \in Nat
         /\ \A x \in S : /\ SumFunctionOnSet(f, S) = f[x] + SumFunctionOnSet(f, S \ {x})
                         /\ SumFunctionOnSet(f, S \ {x}) \in Nat
<1>1. PICK g : Sums(f, S, g) /\ SumFunctionOnSet(f, S) = g[S]
  BY SumIsSums
<1>2. \A r \in SUBSET S : g[r] \in Nat /\ \A x \in r : g[r] = f[x] + g[r \ {x}]
  <2>1. \A x \in S : f[x] \in Nat
    OBVIOUS
  <2>2. Sums(f, S, g)
    BY <1>1
  <2> QED BY <2>1, <2>2, SumsRemove
<1>3. ASSUME NEW x \in S
      PROVE  SumFunctionOnSet(f, S \ {x}) = g[S \ {x}]
  <2> DEFINE R == S \ {x}
  <2>1. IsFiniteSet(R) /\ R \in SUBSET S
    BY FS_RemoveElement
  <2>2. PICK k : Sums(f, R, k) /\ SumFunctionOnSet(f, R) = k[R]
    BY <2>1, SumIsSums
  <2>3. R \in SUBSET (S \intersect R)
    BY <2>1
  <2> HIDE DEF R
  <2>4. g[R] = k[R]
    BY <1>1, <2>1, <2>2, <2>3, SumsAgree
  <2> QED BY <2>2, <2>4 DEF R
<1> QED BY <1>1, <1>2, <1>3

-----------------------------------------------------------------------------
(* The inductive invariant.                                                *)

\* A thread at work holds the lock of its URL.
KeysOwn ==
  /\ key[Cleaner] = Null
  /\ \A t \in Thread : key[t] = Null <=> pc[t] = "idle"
  /\ \A t, s \in Thread : key[t] = key[s] /\ key[t] # Null => t = s

\* Who holds cacheMu, by where they are.
MuHolder ==
  /\ pc[Cleaner] \in {"idle", "clean", "takeExpired", "settle"}
  /\ mu = Cleaner <=> pc[Cleaner] # "idle"
  /\ \A t \in Thread : /\ pc[t] # "clean"
                       /\ pc[t] \in {"room", "put", "add"} => mu = t
                       /\ pc[t] \in {"idle", "use"} => mu # t

\* An entry is taken out by who holds cacheMu or the lock of its URL.
TakesOwn ==
  \A t \in Everyone : pc[t] \in {"take", "takeExpired"} =>
    victim[t] \in Key /\ (mu = t \/ (t \in Thread /\ victim[t] = key[t]))

\* A store has taken its own former entry out before it puts the new one in.
StoresOwn ==
  \A t \in Thread :
    /\ mu = t => SizeOf[key[t]] <= MaxBytes
    /\ mu = t /\ pc[t] # "add" =>
         entries[key[t]] = Null \/ (pc[t] = "take" /\ victim[t] = key[t])
    /\ pc[t] = "add" => entries[key[t]] # Null

\* Nothing is taken as expired in the first TTL.
TakesLate == \A t \in Everyone : pc[t] = "takeExpired" => TTL <= clock

\* A size is owed between the removal and the subtraction only.
OwedOnce == \A t \in Everyone : pc[t] # "settle" => owed[t] = 0

\* A store puts its entry in only where it fits.
PutFits ==
  clock < TTL => \A t \in Thread : pc[t] = "put" =>
                   SizeOfAll(Cached) + SizeOf[key[t]] <= MaxBytes

Locks == KeysOwn /\ MuHolder /\ TakesOwn /\ StoresOwn /\ TakesLate /\ OwedOnce

IInv == TypeOK /\ Locks /\ OnlyExpiredTaken /\ CounterExact /\ Budget /\ PutFits

-----------------------------------------------------------------------------
(* The locks.                                                              *)

\* The types of everything but the counter.
Types ==
  /\ pc \in [Everyone -> {"idle", "use", "take", "takeExpired", "settle", "room",
                          "put", "add", "clean"}]
  /\ key \in [Everyone -> Key \union {Null}]
  /\ victim \in [Everyone -> Key \union {Null}]
  /\ owed \in [Everyone -> Nat]
  /\ entries \in [Key -> 0..MaxClock \union {Null}]
  /\ mu \in Everyone \union {Null}
  /\ clock \in 0..MaxClock /\ stores \in 0..MaxStores

Safe == Types /\ Locks /\ OnlyExpiredTaken

\* A step of a thread keeps the locks: only who holds cacheMu and the lock of the URL
\* stores, so an entry about to be taken out as expired is not replaced.
LEMMA StepSafe ==
  ASSUME Safe, NEW t \in Thread, Step(t)
  PROVE  Safe'
<1> USE DEF Safe, Types, Locks, KeysOwn, MuHolder, TakesOwn, StoresOwn, TakesLate, OwedOnce,
            OnlyExpiredTaken, Everyone, Goto, Expired, Cached
<1> USE NullAssumption, FiniteAssumption, BoundsAssumption
<1>1. CASE \E k \in Key : Begin(t, k)
  BY <1>1 DEF Begin, UrlFree
<1>2. CASE LoadExpired(t)
  BY <1>2 DEF LoadExpired
<1>3. CASE Delete(t)
  BY <1>3 DEF Delete
<1>4. CASE End(t)
  BY <1>4 DEF End
<1>5. CASE StoreBegin(t)
  BY <1>5 DEF StoreBegin
<1>6. CASE Room(t)
  BY <1>6 DEF Room, Evict, Oldest
<1>7. CASE Put(t)
  BY <1>7 DEF Put
<1>8. CASE AddSize(t)
  BY <1>8 DEF AddSize
<1> QED BY <1>1, <1>2, <1>3, <1>4, <1>5, <1>6, <1>7, <1>8 DEF Step

\* Taking an entry out keeps the locks, whether or not it was still there.
LEMMA TakeSafe ==
  ASSUME Safe, NEW t \in Everyone, TakeOut(t)
  PROVE  Safe'
<1> USE DEF Safe, Types, Locks, KeysOwn, MuHolder, TakesOwn, StoresOwn, TakesLate, OwedOnce,
            OnlyExpiredTaken, Everyone, Goto, Expired, Cached
<1> USE NullAssumption, FiniteAssumption, BoundsAssumption, SizeAssumption
<1>1. CASE victim[t] \in Cached
  <2>1. /\ pc[t] \in {"take", "takeExpired"} /\ victim[t] \in Key /\ entries[victim[t]] # Null
        /\ entries' = [entries EXCEPT ![victim[t]] = Null]
        /\ owed' = [owed EXCEPT ![t] = SizeOf[victim[t]]]
        /\ pc' = [pc EXCEPT ![t] = "settle"] /\ victim' = [victim EXCEPT ![t] = Null]
        /\ UNCHANGED <<key, bytes, mu, clock, stores>>
    BY <1>1 DEF TakeOut, Take
  <2>2. Types'
    BY <2>1
  <2>3. KeysOwn' /\ MuHolder' /\ TakesOwn' /\ TakesLate'
    BY <2>1
  <2>4. StoresOwn'
    BY <2>1
  <2>5. OwedOnce'
    BY <2>1
  <2>6. OnlyExpiredTaken'
    BY <2>1
  <2> QED BY <2>2, <2>3, <2>4, <2>5, <2>6
<1>2. CASE victim[t] \notin Cached
  BY <1>2 DEF TakeOut, Take, Onward, GoneExpired
<1> QED BY <1>1, <1>2

\* The remaining steps keep them too.
LEMMA OtherSafe ==
  ASSUME Safe,
         \/ \E t \in Everyone : Settle(t)
         \/ CleanBegin \/ CleanEnd \/ Tick
         \/ \E k \in Key : CleanOne(k)
  PROVE  Safe'
<1> USE DEF Safe, Types, Locks, KeysOwn, MuHolder, TakesOwn, StoresOwn, TakesLate, OwedOnce,
            OnlyExpiredTaken, Everyone, Goto, Expired, Cached
<1> USE NullAssumption, FiniteAssumption, BoundsAssumption
<1>1. CASE \E t \in Everyone : Settle(t)
  BY <1>1 DEF Settle, Onward
<1>2. CASE CleanBegin
  BY <1>2 DEF CleanBegin
<1>3. CASE CleanEnd
  BY <1>3 DEF CleanEnd
<1>4. CASE Tick
  BY <1>4 DEF Tick
<1>5. CASE \E k \in Key : CleanOne(k)
  BY <1>5 DEF CleanOne
<1> QED BY <1>1, <1>2, <1>3, <1>4, <1>5

-----------------------------------------------------------------------------
(* The sums.                                                               *)

\* A sum of zeros.
LEMMA SumZero ==
  ASSUME NEW S, IsFiniteSet(S), NEW f, \A x \in S : f[x] = 0
  PROVE  SumFunctionOnSet(f, S) = 0
<1> DEFINE g == [s \in SUBSET S |-> 0]
           z == [x \in S |-> 0]
<1>1. Sums(z, S, g)
  BY OneLess DEF Sums
<1>2. PICK k : Sums(z, S, k) /\ SumFunctionOnSet(z, S) = k[S]
  BY SumIsSums
<1>3. S \in SUBSET (S \intersect S) /\ g[S] = 0
  OBVIOUS
<1> HIDE DEF g
<1>4. g[S] = k[S]
  BY <1>1, <1>2, <1>3, SumsAgree
<1>5. \A x \in S : f[x] = z[x]
  OBVIOUS
<1> HIDE DEF z
<1>6. SumFunctionOnSet(f, S) = SumFunctionOnSet(z, S)
  BY <1>5, SumSame
<1> QED BY <1>2, <1>3, <1>4, <1>6

\* One summand changes.
LEMMA SumChange ==
  ASSUME NEW S, IsFiniteSet(S), NEW f, NEW h, NEW x \in S,
         \A y \in S : f[y] \in Nat /\ h[y] \in Nat, \A y \in S \ {x} : f[y] = h[y]
  PROVE  SumFunctionOnSet(h, S) = SumFunctionOnSet(f, S) - f[x] + h[x]
<1>1. IsFiniteSet(S \ {x})
  BY FS_RemoveElement
<1>2. SumFunctionOnSet(f, S \ {x}) = SumFunctionOnSet(h, S \ {x})
  BY <1>1, SumSame
<1>3. \A y \in S : f[y] \in Nat
  OBVIOUS
<1>4. \A y \in S : h[y] \in Nat
  OBVIOUS
<1>5. /\ SumFunctionOnSet(f, S) = f[x] + SumFunctionOnSet(f, S \ {x})
      /\ SumFunctionOnSet(f, S \ {x}) \in Nat
  BY <1>3, SumSplit
<1>6. SumFunctionOnSet(h, S) = h[x] + SumFunctionOnSet(h, S \ {x})
  BY <1>4, SumSplit
<1> QED BY <1>2, <1>3, <1>4, <1>5, <1>6

\* The sizes of a set of keys.
LEMMA Sizes ==
  ASSUME NEW ks \in SUBSET Key
  PROVE  /\ SizeOfAll(ks) \in Nat
         /\ \A k \in ks : SizeOfAll(ks) = SizeOf[k] + SizeOfAll(ks \ {k})
                          /\ SizeOfAll(ks \ {k}) \in Nat
<1>1. IsFiniteSet(ks)
  BY FiniteAssumption, FS_Subset
<1>2. \A k \in ks : SizeOf[k] \in Nat
  BY SizeAssumption
<1> QED BY <1>1, <1>2, SumSplit DEF SizeOfAll

\* What is due is in the map already, and only who holds cacheMu owes it.
LEMMA DueBound ==
  ASSUME Safe
  PROVE  /\ SumFunctionOnSet(Due, Thread) \in Nat
         /\ SumFunctionOnSet(Due, Thread) <= SizeOfAll(Cached)
         /\ \A t \in Thread : Due[t] \in Nat
         /\ \A t \in Thread : mu = t /\ pc[t] # "add" => SumFunctionOnSet(Due, Thread) = 0
<1>1. \A t \in Thread : Due[t] \in Nat /\ (pc[t] # "add" => Due[t] = 0)
  BY SizeAssumption, NullAssumption DEF Due, Safe, Types, Locks, KeysOwn, Everyone
<1>2. SizeOfAll(Cached) \in Nat
  BY Sizes DEF Cached
<1>3. IsFiniteSet(Thread)
  BY FiniteAssumption
<1>4. CASE \A t \in Thread : pc[t] # "add"
  <2>1. SumFunctionOnSet(Due, Thread) = 0
    BY <1>1, <1>3, <1>4, SumZero
  <2> QED BY <1>1, <1>2, <2>1
<1>5. CASE \E t \in Thread : pc[t] = "add"
  <2>1. PICK a \in Thread : pc[a] = "add"
    BY <1>5
  <2>2. mu = a /\ \A t \in Thread : t # a => pc[t] # "add"
    BY <2>1 DEF Safe, Locks, MuHolder
  <2>3. key[a] \in Cached
    BY <2>1 DEF Safe, Types, Locks, KeysOwn, StoresOwn, Cached, Everyone
  <2>4. Due[a] = SizeOf[key[a]]
    BY <2>1 DEF Due
  <2>5. IsFiniteSet(Thread \ {a})
    BY <1>3, FS_RemoveElement
  <2>6. SumFunctionOnSet(Due, Thread \ {a}) = 0
    BY <1>1, <2>2, <2>5, SumZero
  <2>7. \A t \in Thread : Due[t] \in Nat
    BY <1>1
  <2>8. SumFunctionOnSet(Due, Thread) = Due[a] + SumFunctionOnSet(Due, Thread \ {a})
    BY <1>3, <2>7, SumSplit
  <2>9. /\ SizeOfAll(Cached) = SizeOf[key[a]] + SizeOfAll(Cached \ {key[a]})
        /\ SizeOfAll(Cached \ {key[a]}) \in Nat
    BY <2>3, Sizes DEF Cached
  <2> QED BY <1>1, <2>1, <2>2, <2>4, <2>6, <2>8, <2>9
<1> QED BY <1>4, <1>5

\* What is owed.
LEMMA OwedTypes ==
  ASSUME Safe
  PROVE  /\ IsFiniteSet(Everyone) /\ SumFunctionOnSet(owed, Everyone) \in Nat
         /\ \A t \in Everyone : owed[t] \in Nat /\ owed[t] <= SumFunctionOnSet(owed, Everyone)
<1>1. IsFiniteSet(Everyone)
  BY FiniteAssumption, FS_AddElement DEF Everyone
<1>2. \A t \in Everyone : owed[t] \in Nat
  BY DEF Safe, Types
<1>3. /\ SumFunctionOnSet(owed, Everyone) \in Nat
      /\ \A t \in Everyone :
           /\ SumFunctionOnSet(owed, Everyone) = owed[t] + SumFunctionOnSet(owed, Everyone \ {t})
           /\ SumFunctionOnSet(owed, Everyone \ {t}) \in Nat
  BY <1>1, <1>2, SumSplit
<1>4. ASSUME NEW t \in Everyone
      PROVE  owed[t] <= SumFunctionOnSet(owed, Everyone)
  <2>1. owed[t] \in Nat
    BY <1>2
  <2>2. /\ SumFunctionOnSet(owed, Everyone) = owed[t] + SumFunctionOnSet(owed, Everyone \ {t})
        /\ SumFunctionOnSet(owed, Everyone \ {t}) \in Nat
    BY <1>3
  <2> QED BY <2>1, <2>2
<1> QED BY <1>1, <1>2, <1>3, <1>4

-----------------------------------------------------------------------------
(* The counter.                                                            *)

\* The invariant by its parts: the locks, then the sums.
LEMMA IInvParts == IInv <=> Safe /\ bytes \in Nat /\ CounterExact /\ Budget /\ PutFits
BY DEF IInv, Safe, TypeOK, Types

\* Nothing has expired yet in the first TTL.
LEMMA NoneExpired ==
  ASSUME Safe, clock < TTL
  PROVE  \A k \in Key : ~Expired(k)
BY BoundsAssumption DEF Safe, Types, Expired, Cached

\* A step that touches neither the map nor the counter.
LEMMA QuietStep ==
  ASSUME IInv, Safe', UNCHANGED <<entries, owed, bytes>>, Due' = Due,
         clock' \in {clock, clock + 1},
         \A t \in Thread : pc'[t] = "put" => pc[t] = "put" /\ key'[t] = key[t]
  PROVE  IInv'
<1>1. Cached' = Cached /\ (clock' < TTL => clock < TTL)
  BY BoundsAssumption DEF Cached, IInv, TypeOK
<1>2. CounterExact'
  BY <1>1 DEF IInv, CounterExact, SizeOfAll
<1>3. Budget' /\ PutFits'
  BY <1>1 DEF IInv, Budget, PutFits, SizeOfAll
<1> QED BY <1>2, <1>3, IInvParts DEF IInv, TypeOK, Safe, Types

\* Nothing is due of a thread that neither begins nor ends to add.
LEMMA DueKept ==
  ASSUME \A t \in Thread : /\ pc'[t] = "add" <=> pc[t] = "add"
                           /\ pc[t] = "add" => key'[t] = key[t]
  PROVE  Due' = Due
BY DEF Due

\* The loop ends only where the new entry fits.
LEMMA RoomKeeps ==
  ASSUME IInv, Safe', NEW t \in Thread, Room(t)
  PROVE  IInv'
<1> USE DEF Room
<1>1. /\ pc[t] = "room" /\ pc' \in {[pc EXCEPT ![t] = "put"], [pc EXCEPT ![t] = "take"],
                                   [pc EXCEPT ![t] = "takeExpired"]}
      /\ Safe /\ mu = t /\ t \in Everyone
  BY DEF Evict, Goto, IInv, Safe, TypeOK, Types, Locks, MuHolder, Everyone
<1>2. Due' = Due
  <2>1. pc = [x \in Everyone |-> pc[x]] /\ Thread \subseteq Everyone
    BY DEF IInv, TypeOK, Everyone
  <2> QED BY <1>1, <2>1, DueKept
<1>3. CASE pc' # [pc EXCEPT ![t] = "put"]
  <2>1. \A x \in Thread : pc'[x] = "put" => pc[x] = "put"
    BY <1>1, <1>3 DEF IInv, TypeOK, Everyone
  <2> QED BY <1>2, <2>1, QuietStep DEF IInv, TypeOK
<1>4. CASE pc' = [pc EXCEPT ![t] = "put"]
  <2>1. UNCHANGED <<entries, owed, bytes, clock, key>> /\ Cached' = Cached
    BY DEF Cached
  <2>2. CounterExact'
    BY <1>2, <2>1 DEF IInv, CounterExact, SizeOfAll
  <2>3. Budget'
    BY <2>1 DEF IInv, Budget, SizeOfAll
  <2>4. key[t] \in Key /\ SizeOf[key[t]] <= MaxBytes
    BY <1>1 DEF Safe, Types, Locks, KeysOwn, StoresOwn, Everyone
  <2>5. Fits(key[t]) \/ Cached = {}
    BY <1>1, <1>4 DEF Evict, Goto, IInv, TypeOK, Everyone
  <2>6. bytes = SizeOfAll(Cached) + SumFunctionOnSet(owed, Everyone)
    <3>1. SumFunctionOnSet(Due, Thread) = 0
      BY <1>1, DueBound
    <3> QED BY <3>1 DEF IInv, CounterExact, TypeOK
  <2>7. SizeOfAll(Cached) + SizeOf[key[t]] <= MaxBytes
    <3>1. SizeOfAll(Cached) \in Nat /\ SizeOf[key[t]] \in Nat /\ SizeOfAll({}) = 0
            /\ SumFunctionOnSet(owed, Everyone) \in Nat
      BY <1>1, <2>4, Sizes, OwedTypes, SizeAssumption, SumOfNone DEF SizeOfAll, Cached
    <3> QED BY <2>4, <2>5, <2>6, <3>1, BoundsAssumption DEF Fits
  <2>8. PutFits'
    <3>1. ASSUME NEW x \in Thread, clock < TTL, pc'[x] = "put"
          PROVE  SizeOfAll(Cached) + SizeOf[key[x]] <= MaxBytes
      <4>1. CASE x = t
        BY <2>7, <4>1
      <4>2. CASE x # t
        BY <1>4, <3>1, <4>2 DEF IInv, PutFits, TypeOK, Everyone
      <4> QED BY <4>1, <4>2
    <3> QED BY <2>1, <3>1 DEF PutFits, SizeOfAll
  <2>9. bytes' \in Nat
    BY <2>1 DEF IInv, TypeOK
  <2> QED BY <2>2, <2>3, <2>8, <2>9, IInvParts DEF IInv, TypeOK, Types, Safe
<1> QED BY <1>3, <1>4

\* A new entry is due until it is added to the counter.
LEMMA PutKeeps ==
  ASSUME IInv, Safe', NEW t \in Thread, Put(t)
  PROVE  IInv'
<1> DEFINE k == key[t]
<1>1. /\ Safe /\ t \in Everyone /\ mu = t /\ pc[t] = "put" /\ k \in Key /\ k \notin Cached
  BY DEF Put, IInv, Safe, TypeOK, Types, Locks, KeysOwn, MuHolder, StoresOwn, Everyone, Cached
<1>2. /\ pc' = [pc EXCEPT ![t] = "add"] /\ UNCHANGED <<key, owed, bytes, clock>>
      /\ Cached' = Cached \union {k}
  <2>1. clock # Null
    BY <1>1, NullAssumption DEF Safe, Types
  <2> QED BY <1>1, <2>1 DEF Put, Goto, Cached, IInv, TypeOK
<1>3. SizeOf[k] \in Nat /\ SizeOfAll(Cached) \in Nat
  BY <1>1, SizeAssumption, Sizes DEF Cached
<1>4. SizeOfAll(Cached') = SizeOfAll(Cached) + SizeOf[k]
  <2>1. Cached' \subseteq Key /\ k \in Cached' /\ Cached' \ {k} = Cached
    BY <1>1, <1>2 DEF Cached
  <2>2. SizeOfAll(Cached') = SizeOf[k] + SizeOfAll(Cached' \ {k})
    BY <2>1, Sizes
  <2>3. SizeOfAll(Cached' \ {k}) = SizeOfAll(Cached)
    BY <2>1
  <2> QED BY <1>3, <2>2, <2>3
<1>5. SumFunctionOnSet(Due', Thread) = SumFunctionOnSet(Due, Thread) + SizeOf[k]
  <2>1. Due[t] = 0 /\ Due'[t] = SizeOf[k] /\ \A x \in Thread \ {t} : Due'[x] = Due[x]
    BY <1>1, <1>2 DEF Due, IInv, TypeOK, Everyone
  <2>2. \A x \in Thread : Due[x] \in Nat
    BY <1>1, DueBound
  <2>3. \A x \in Thread : Due[x] \in Nat /\ Due'[x] \in Nat
    BY <1>3, <2>1, <2>2
  <2> DEFINE f == Due
             h == Due'
  <2>6. /\ \A x \in Thread : f[x] \in Nat /\ h[x] \in Nat
        /\ \A x \in Thread \ {t} : f[x] = h[x]
    BY <2>1, <2>3
  <2> HIDE DEF f, h
  <2>4. SumFunctionOnSet(h, Thread) = SumFunctionOnSet(f, Thread) - f[t] + h[t]
    BY <2>6, FiniteAssumption, SumChange
  <2>5. SumFunctionOnSet(Due', Thread) = SumFunctionOnSet(Due, Thread) - Due[t] + Due'[t]
    BY <2>4 DEF f, h
  <2> QED BY <1>1, <1>3, <2>1, <2>5, DueBound
<1>6. CounterExact'
  <2>1. bytes \in Nat /\ SumFunctionOnSet(owed, Everyone) \in Nat
          /\ SumFunctionOnSet(Due, Thread) \in Nat
    BY <1>1, OwedTypes, DueBound DEF IInv, TypeOK
  <2>2. bytes + SumFunctionOnSet(Due, Thread)
          = SizeOfAll(Cached) + SumFunctionOnSet(owed, Everyone)
    BY DEF IInv, CounterExact
  <2>3. bytes + SumFunctionOnSet(Due', Thread)
          = SizeOfAll(Cached') + SumFunctionOnSet(owed, Everyone)
    BY <1>3, <1>4, <1>5, <2>1, <2>2
  <2> QED BY <1>2, <2>3 DEF CounterExact, SizeOfAll
<1>7. Budget' /\ PutFits'
  <2>1. clock < TTL => SizeOfAll(Cached) + SizeOf[k] <= MaxBytes
    BY <1>1 DEF IInv, PutFits
  <2>2. \A x \in Thread : pc'[x] # "put"
    BY <1>1, <1>2 DEF Safe, Types, Locks, MuHolder, Everyone
  <2>3. clock < TTL => SizeOfAll(Cached') <= MaxBytes
    BY <1>4, <2>1
  <2> QED BY <1>2, <2>2, <2>3 DEF Budget, PutFits, SizeOfAll
<1>8. bytes' \in Nat
  BY <1>2 DEF IInv, TypeOK
<1> QED BY <1>6, <1>7, <1>8, IInvParts DEF IInv, TypeOK, Types, Safe

\* Adding the size pays what was due.
LEMMA AddSizeKeeps ==
  ASSUME IInv, Safe', NEW t \in Thread, AddSize(t)
  PROVE  IInv'
<1> DEFINE k == key[t]
<1>1. /\ Safe /\ t \in Everyone /\ pc[t] = "add" /\ k \in Key
  BY DEF AddSize, IInv, Safe, TypeOK, Types, Locks, KeysOwn, Everyone
<1>2. /\ pc' = [pc EXCEPT ![t] = "use"] /\ UNCHANGED <<key, owed, entries, clock>>
      /\ bytes' = bytes + SizeOf[k] /\ Cached' = Cached
  BY DEF AddSize, Goto, Cached
<1>3. SizeOf[k] \in Nat
  BY <1>1, SizeAssumption
<1>4. SumFunctionOnSet(Due', Thread) = SumFunctionOnSet(Due, Thread) - SizeOf[k]
  <2>1. Due[t] = SizeOf[k] /\ Due'[t] = 0 /\ \A x \in Thread \ {t} : Due'[x] = Due[x]
    BY <1>1, <1>2 DEF Due, IInv, TypeOK, Everyone
  <2>2. \A x \in Thread : Due[x] \in Nat
    BY <1>1, DueBound
  <2>3. \A x \in Thread : Due[x] \in Nat /\ Due'[x] \in Nat
    BY <1>3, <2>1, <2>2
  <2> DEFINE f == Due
             h == Due'
  <2>6. /\ \A x \in Thread : f[x] \in Nat /\ h[x] \in Nat
        /\ \A x \in Thread \ {t} : f[x] = h[x]
    BY <2>1, <2>3
  <2> HIDE DEF f, h
  <2>4. SumFunctionOnSet(h, Thread) = SumFunctionOnSet(f, Thread) - f[t] + h[t]
    BY <2>6, FiniteAssumption, SumChange
  <2>5. SumFunctionOnSet(Due', Thread) = SumFunctionOnSet(Due, Thread) - Due[t] + Due'[t]
    BY <2>4 DEF f, h
  <2> QED BY <1>1, <1>3, <2>1, <2>5, DueBound
<1>5. CounterExact'
  <2>1. bytes \in Nat /\ SumFunctionOnSet(owed, Everyone) \in Nat
          /\ SumFunctionOnSet(Due, Thread) \in Nat /\ SizeOfAll(Cached) \in Nat
    BY <1>1, OwedTypes, DueBound, Sizes DEF IInv, TypeOK, Cached
  <2>2. bytes + SumFunctionOnSet(Due, Thread)
          = SizeOfAll(Cached) + SumFunctionOnSet(owed, Everyone)
    BY DEF IInv, CounterExact
  <2>3. (bytes + SizeOf[k]) + SumFunctionOnSet(Due', Thread)
          = SizeOfAll(Cached) + SumFunctionOnSet(owed, Everyone)
    BY <1>3, <1>4, <2>1, <2>2
  <2> QED BY <1>2, <2>3 DEF CounterExact, SizeOfAll
<1>6. Budget' /\ PutFits'
  <2>1. \A x \in Thread : pc'[x] = "put" => pc[x] = "put"
    BY <1>1, <1>2 DEF IInv, TypeOK, Everyone
  <2> QED BY <1>2, <2>1 DEF IInv, Budget, PutFits, SizeOfAll
<1>7. bytes' \in Nat
  BY <1>2, <1>3 DEF IInv, TypeOK
<1> QED BY <1>5, <1>6, <1>7, IInvParts DEF IInv, TypeOK, Types, Safe

\* Subtracting the size pays what was owed, and the counter stays at least zero.
LEMMA SettleKeeps ==
  ASSUME IInv, Safe', NEW t \in Everyone, Settle(t)
  PROVE  IInv'
<1>1. /\ Safe /\ pc[t] = "settle" /\ \A x \in Everyone : owed[x] \in Nat
  BY DEF Settle, IInv, Safe, TypeOK, Types
<1>2. /\ \E l \in {"use", "clean", "room"} : pc' = [pc EXCEPT ![t] = l]
      /\ UNCHANGED <<key, entries, clock>> /\ owed' = [owed EXCEPT ![t] = 0]
      /\ bytes' = bytes - owed[t] /\ Cached' = Cached
  BY DEF Settle, Goto, Onward, Cached
<1>3. \A x \in Thread : /\ pc'[x] = "add" <=> pc[x] = "add"
                        /\ pc'[x] = "put" <=> pc[x] = "put"
  BY <1>1, <1>2 DEF IInv, TypeOK, Everyone
<1>4. Due' = Due
  BY <1>2, <1>3, DueKept
<1>5. SumFunctionOnSet(owed', Everyone) = SumFunctionOnSet(owed, Everyone) - owed[t]
  <2>1. \A x \in Everyone : owed[x] \in Nat /\ owed'[x] \in Nat
    BY <1>1, <1>2
  <2>2. \A x \in Everyone \ {t} : owed[x] = owed'[x]
    BY <1>2
  <2> DEFINE f == owed
             h == owed'
  <2> HIDE DEF f, h
  <2>3. SumFunctionOnSet(h, Everyone) = SumFunctionOnSet(f, Everyone) - f[t] + h[t]
    BY <1>1, <2>1, <2>2, OwedTypes, SumChange DEF f, h
  <2>4. owed'[t] = 0
    BY <1>1, <1>2 DEF Safe, Types
  <2> QED BY <1>1, <2>3, <2>4, OwedTypes DEF f, h
<1>6. /\ bytes \in Nat /\ SumFunctionOnSet(owed, Everyone) \in Nat /\ owed[t] \in Nat
      /\ SumFunctionOnSet(Due, Thread) \in Nat /\ SizeOfAll(Cached) \in Nat
      /\ SumFunctionOnSet(Due, Thread) <= SizeOfAll(Cached)
      /\ owed[t] <= SumFunctionOnSet(owed, Everyone)
      /\ bytes + SumFunctionOnSet(Due, Thread)
           = SizeOfAll(Cached) + SumFunctionOnSet(owed, Everyone)
  BY <1>1, OwedTypes, DueBound, Sizes DEF IInv, TypeOK, Cached, CounterExact
<1>7. CounterExact'
  <2>1. (bytes - owed[t]) + SumFunctionOnSet(Due, Thread)
          = SizeOfAll(Cached) + SumFunctionOnSet(owed', Everyone)
    BY <1>5, <1>6
  <2> QED BY <1>2, <1>4, <2>1 DEF CounterExact, SizeOfAll
<1>8. bytes' \in Nat
  BY <1>2, <1>6
<1>9. Budget' /\ PutFits'
  BY <1>2, <1>3 DEF IInv, Budget, PutFits, SizeOfAll
<1> QED BY <1>7, <1>8, <1>9, IInvParts DEF IInv, TypeOK, Types, Safe

\* An entry is owed once, by who really took it out of the map.
LEMMA TakeKeeps ==
  ASSUME IInv, Safe', NEW t \in Everyone, TakeOut(t)
  PROVE  IInv'
<1> DEFINE k == victim[t]
<1>1. Safe /\ pc[t] \in {"take", "takeExpired"} /\ k \in Key /\ owed[t] = 0
  BY DEF TakeOut, IInv, Safe, TypeOK, Types, Locks, TakesOwn, OwedOnce
<1>2. UNCHANGED <<key, bytes, mu, clock>>
  BY DEF TakeOut
<1>3. CASE k \in Cached
  <2>1. /\ pc' = [pc EXCEPT ![t] = "settle"] /\ owed' = [owed EXCEPT ![t] = SizeOf[k]]
        /\ entries' = [entries EXCEPT ![k] = Null] /\ Cached' = Cached \ {k}
    BY <1>1, <1>3 DEF TakeOut, Take, Goto, Cached, IInv, TypeOK
  <2>2. \A x \in Thread : /\ pc'[x] = "add" <=> pc[x] = "add"
                          /\ pc'[x] = "put" => pc[x] = "put"
    BY <1>1, <2>1 DEF IInv, TypeOK, Everyone
  <2>3. Due' = Due
    BY <1>2, <2>2, DueKept
  <2>4. SizeOf[k] \in Nat /\ \A x \in Everyone : owed[x] \in Nat
    BY <1>1, SizeAssumption DEF Safe, Types
  <2>5. SumFunctionOnSet(owed', Everyone) = SumFunctionOnSet(owed, Everyone) + SizeOf[k]
    <3>1. \A x \in Everyone : owed[x] \in Nat /\ owed'[x] \in Nat
      BY <2>1, <2>4
    <3>2. \A x \in Everyone \ {t} : owed[x] = owed'[x]
      BY <2>1
    <3> DEFINE f == owed
               h == owed'
    <3>5. /\ \A x \in Everyone : f[x] \in Nat /\ h[x] \in Nat
          /\ \A x \in Everyone \ {t} : f[x] = h[x]
      BY <3>1, <3>2
    <3>6. IsFiniteSet(Everyone)
      BY <1>1, OwedTypes
    <3> HIDE DEF f, h, k
    <3>3. SumFunctionOnSet(h, Everyone) = SumFunctionOnSet(f, Everyone) - f[t] + h[t]
      BY <3>5, <3>6, SumChange
    <3>4. owed'[t] = SizeOf[k]
      BY <1>1, <2>1 DEF Safe, Types
    <3> QED BY <1>1, <2>4, <3>3, <3>4, OwedTypes DEF f, h
  <2>6. /\ SizeOfAll(Cached) = SizeOf[k] + SizeOfAll(Cached') /\ SizeOfAll(Cached') \in Nat
    BY <1>3, <2>1, Sizes DEF Cached
  <2>7. CounterExact'
    <3>1. /\ bytes \in Nat /\ SumFunctionOnSet(owed, Everyone) \in Nat
          /\ SumFunctionOnSet(Due, Thread) \in Nat
          /\ bytes + SumFunctionOnSet(Due, Thread)
               = SizeOfAll(Cached) + SumFunctionOnSet(owed, Everyone)
      BY <1>1, OwedTypes, DueBound DEF IInv, TypeOK, CounterExact
    <3>2. bytes + SumFunctionOnSet(Due, Thread)
            = SizeOfAll(Cached') + SumFunctionOnSet(owed', Everyone)
      BY <2>4, <2>5, <2>6, <3>1
    <3> QED BY <1>2, <2>3, <3>2 DEF CounterExact, SizeOfAll
  <2>8. Budget' /\ PutFits'
    <3>1. SizeOfAll(Cached') <= SizeOfAll(Cached)
      BY <2>4, <2>6
    <3>2. clock < TTL => SizeOfAll(Cached') <= MaxBytes
      <4>1. SizeOfAll(Cached) \in Nat
        BY Sizes DEF Cached
      <4> QED BY <2>6, <3>1, <4>1, BoundsAssumption DEF IInv, Budget
    <3>3. ASSUME NEW x \in Thread, clock < TTL, pc'[x] = "put"
          PROVE  SizeOfAll(Cached') + SizeOf[key[x]] <= MaxBytes
      <4>1. SizeOfAll(Cached) + SizeOf[key[x]] <= MaxBytes
        BY <2>2, <3>3 DEF IInv, PutFits
      <4>2. SizeOf[key[x]] \in Nat
        BY <2>2, <3>3, SizeAssumption DEF IInv, TypeOK, Locks, KeysOwn, Everyone
      <4> QED BY <2>4, <2>6, <4>1, <4>2, BoundsAssumption
    <3> QED BY <1>2, <3>2, <3>3 DEF Budget, PutFits, SizeOfAll
  <2>9. bytes' \in Nat
    BY <1>2 DEF IInv, TypeOK
  <2> QED BY <2>7, <2>8, <2>9, IInvParts DEF IInv, TypeOK, Types, Safe
<1>4. CASE k \notin Cached
  <2>1. UNCHANGED <<entries, owed>>
    BY <1>1, <1>4 DEF TakeOut, Take, Cached, IInv, TypeOK
  <2>2. \E l \in {"use", "clean", "room", "put", "take"} : pc' = [pc EXCEPT ![t] = l]
    BY <1>4 DEF TakeOut, Take, Onward, GoneExpired, Goto
  <2>3. \A x \in Thread : pc'[x] = "add" <=> pc[x] = "add"
    BY <1>1, <2>2 DEF IInv, TypeOK, Everyone
  <2>4. Due' = Due
    BY <1>2, <2>3, DueKept
  <2>5. CASE \A x \in Thread : pc'[x] = "put" => pc[x] = "put"
    BY <1>2, <2>1, <2>4, <2>5, QuietStep DEF IInv, TypeOK
  <2>6. CASE ~(clock < TTL)
    <3>1. CounterExact' /\ Budget' /\ PutFits' /\ bytes' \in Nat
      BY <1>2, <2>1, <2>4, <2>6
         DEF IInv, CounterExact, Budget, PutFits, SizeOfAll, Cached, TypeOK
    <3> QED BY <3>1, IInvParts DEF IInv, TypeOK, Types, Safe
  <2>7. clock < TTL => \A x \in Thread : pc'[x] = "put" => pc[x] = "put"
    <3>1. clock < TTL => pc[t] # "takeExpired"
      BY <1>1, BoundsAssumption DEF Safe, Types, Locks, TakesLate
    <3>2. clock < TTL => pc' \in {[pc EXCEPT ![t] = l] : l \in {"use", "clean", "room"}}
      BY <1>1, <1>4, <3>1 DEF TakeOut, Take, Onward, Goto
    <3> QED BY <1>1, <3>2 DEF IInv, TypeOK, Everyone
  <2> QED BY <2>5, <2>6, <2>7
<1> QED BY <1>3, <1>4

-----------------------------------------------------------------------------
(* The theorems.                                                           *)

\* The invariant holds of an empty cache.
LEMMA InitInvariant == Init => IInv
<1> SUFFICES ASSUME Init PROVE IInv
  OBVIOUS
<1> USE DEF Init
<1>1. Safe
  BY NullAssumption, BoundsAssumption
     DEF Safe, Types, Locks, KeysOwn, MuHolder, TakesOwn, StoresOwn, TakesLate, OwedOnce,
         OnlyExpiredTaken, Everyone
<1>2. Cached = {} /\ SizeOfAll(Cached) = 0
  BY SumOfNone DEF Cached, SizeOfAll
<1>3. SumFunctionOnSet(Due, Thread) = 0
  <2>1. \A t \in Thread : Due[t] = 0
    BY DEF Due, Everyone
  <2> QED BY <2>1, FiniteAssumption, SumZero
<1>4. SumFunctionOnSet(owed, Everyone) = 0
  <2>1. \A t \in Everyone : owed[t] = 0
    OBVIOUS
  <2> QED BY <1>1, <2>1, OwedTypes, SumZero
<1>5. CounterExact /\ Budget /\ PutFits /\ bytes \in Nat
  BY <1>2, <1>3, <1>4, BoundsAssumption DEF CounterExact, Budget, PutFits, Everyone
<1> QED BY <1>1, <1>5, IInvParts

\* The steps that touch neither the map nor the counter nor a store's decision.
LEMMA QuietKeeps ==
  ASSUME IInv, Safe',
         \/ \E t \in Thread : \/ \E k \in Key : Begin(t, k)
                              \/ LoadExpired(t) \/ Delete(t) \/ End(t) \/ StoreBegin(t)
         \/ CleanBegin \/ CleanEnd \/ Tick
         \/ \E k \in Key : CleanOne(k)
  PROVE  IInv'
<1>1. /\ UNCHANGED <<entries, owed, bytes>> /\ clock' \in {clock, clock + 1}
  BY DEF Begin, LoadExpired, Delete, End, StoreBegin, CleanBegin, CleanEnd, Tick, CleanOne
<1>2. \A x \in Thread : /\ pc'[x] = "add" <=> pc[x] = "add"
                        /\ pc'[x] = "put" <=> pc[x] = "put"
                        /\ pc[x] \in {"add", "put"} => key'[x] = key[x]
  BY FiniteAssumption DEF Begin, LoadExpired, Delete, End, StoreBegin, CleanBegin, CleanEnd,
     Tick, CleanOne, Goto, IInv, TypeOK, Everyone
<1>3. Due' = Due
  BY <1>2, DueKept
<1> QED BY <1>1, <1>2, <1>3, QuietStep

\* The invariant is inductive.
LEMMA StepInvariant == IInv /\ [Next]_vars => IInv'
<1> SUFFICES ASSUME IInv, [Next]_vars PROVE IInv'
  OBVIOUS
<1>1. Safe
  BY IInvParts
<1>2. CASE UNCHANGED vars
  BY <1>2 DEF IInv, TypeOK, Locks, KeysOwn, MuHolder, TakesOwn, StoresOwn, TakesLate, OwedOnce,
     OnlyExpiredTaken, CounterExact, Budget, PutFits, Due, Cached, Expired, SizeOfAll, vars
<1>3. ASSUME NEW t \in Thread, Step(t)
      PROVE  IInv'
  <2>1. Safe'
    BY <1>1, <1>3, StepSafe
  <2> QED BY <1>3, <2>1, QuietKeeps, RoomKeeps, PutKeeps, AddSizeKeeps DEF Step
<1>4. ASSUME NEW t \in Everyone, TakeOut(t) \/ Settle(t)
      PROVE  IInv'
  <2>1. Safe'
    BY <1>1, <1>4, TakeSafe, OtherSafe
  <2> QED BY <1>4, <2>1, TakeKeeps, SettleKeeps
<1>5. CASE CleanBegin \/ CleanEnd \/ Tick \/ \E k \in Key : CleanOne(k)
  <2>1. Safe'
    BY <1>1, <1>5, OtherSafe
  <2> QED BY <1>5, <2>1, QuietKeeps
<1> QED BY <1>2, <1>3, <1>4, <1>5 DEF Next

\* The inductive invariant holds of every behaviour of the cache.
THEOREM Invariance == Spec => []IInv
BY InitInvariant, StepInvariant, PTL DEF Spec

\* The map never exceeds MaxBytes while nothing has expired, and the counter never
\* becomes negative, for any number of threads, URLs and sizes.
THEOREM CacheInBudget == Spec => []Inv
<1>1. IInv => Inv
  BY DEF IInv, Inv
<1> QED BY <1>1, Invariance, PTL

\* The counter is the size of the map up to what is due and owed.
THEOREM CounterNeverDrifts == Spec => []CounterExact
<1>1. IInv => CounterExact
  BY DEF IInv
<1> QED BY <1>1, Invariance, PTL

\* What is taken out as expired has expired, although it was looked at before.
THEOREM ExpiredOnlyTaken == Spec => []OnlyExpiredTaken
<1>1. IInv => OnlyExpiredTaken
  BY DEF IInv
<1> QED BY <1>1, Invariance, PTL
=============================================================================
