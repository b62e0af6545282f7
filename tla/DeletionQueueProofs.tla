------------------------- MODULE DeletionQueueProofs -------------------------
(* The queue file stays ordered and well-formed, no file is deleted under a  *)
(* share, and DeletionQueue implements FileRetention: every step of a pass,   *)
(* with its failures and crashes, is one of the promised steps or none.       *)
EXTENDS DeletionQueue, SequenceTheorems, TLAPS, WellFoundedInduction

-----------------------------------------------------------------------------
(* Induction.                                                              *)

Below == {q \in Nat \X Nat : q[1] < q[2]}

\* Every set of numbers has a least one.
LEMMA Least ==
  ASSUME NEW T \in SUBSET Nat, T # {}
  PROVE  \E n \in T : \A m \in T : n <= m
<1>1. IsWellFoundedOn(Below, Nat)
  BY NatLessThanWellFounded, Zenon DEF Below, OpToRel
<1>2. \E n \in T : \A m \in T : <<m, n>> \notin Below
  BY <1>1, WFMin, Zenon
<1>3. PICK n \in T : \A m \in T : <<m, n>> \notin Below
  BY <1>2
<1>4. \A m \in T : ~(m < n)
  BY <1>3 DEF Below
<1> QED BY <1>4

\* A set of numbers with 0 and every successor is all of them.
LEMMA NatInduct ==
  ASSUME NEW S, 0 \in S, \A n \in Nat : n \in S => n + 1 \in S
  PROVE  \A n \in Nat : n \in S
<1> SUFFICES ASSUME Nat \ S # {} PROVE FALSE
  OBVIOUS
<1>1. PICK n \in Nat \ S : \A m \in Nat \ S : n <= m
  BY Least
<1>2. n # 0 /\ n - 1 \in Nat
  BY <1>1
<1>3. n - 1 \in S
  BY <1>1, <1>2
<1> QED BY <1>1, <1>2, <1>3

-----------------------------------------------------------------------------
(* What readRecords returns.                                               *)

\* g reads s up to each of the first n lines.
Reads(s, g, n) ==
  g = [i \in 0 .. n |-> IF i = 0 THEN <<>>
                        ELSE IF s[i] = Junk THEN g[i - 1] ELSE Append(g[i - 1], s[i])]

Sorted(r) == \A i, j \in 1 .. Len(r) : i < j => r[i].at <= r[j].at

\* The recursive definition has a solution, built line by line.
LEMMA ReadsExist ==
  ASSUME NEW s
  PROVE  \A n \in Nat : \E g : Reads(s, g, n)
<1> DEFINE S == {n \in Nat : \E g : Reads(s, g, n)}
<1>1. 0 \in S
  <2>1. Reads(s, [i \in 0..0 |-> <<>>], 0)
    BY DEF Reads
  <2> QED BY <2>1
<1>2. ASSUME NEW n \in Nat, n \in S
      PROVE  n + 1 \in S
  <2>1. PICK g : Reads(s, g, n)
    BY <1>2
  <2> DEFINE next == IF s[n + 1] = Junk THEN g[n] ELSE Append(g[n], s[n + 1])
             h == [i \in 0 .. n + 1 |-> IF i = n + 1 THEN next ELSE g[i]]
  <2>2. \A i \in 0 .. n + 1 : h[i] = IF i = n + 1 THEN next ELSE g[i]
    OBVIOUS
  <2>3. ASSUME NEW i \in 0 .. n + 1
        PROVE  h[i] = IF i = 0 THEN <<>>
                      ELSE IF s[i] = Junk THEN h[i - 1] ELSE Append(h[i - 1], s[i])
    <3>1. CASE i = n + 1
      BY <2>2, <3>1
    <3>2. CASE i \in 0 .. n
      <4>1. g[i] = IF i = 0 THEN <<>>
                   ELSE IF s[i] = Junk THEN g[i - 1] ELSE Append(g[i - 1], s[i])
        BY <2>1, <3>2 DEF Reads
      <4>2. h[i] = g[i] /\ (i # 0 => h[i - 1] = g[i - 1])
        BY <2>2, <3>2
      <4> QED BY <4>1, <4>2
    <3> QED BY <3>1, <3>2
  <2>4. Reads(s, h, n + 1)
    <3> HIDE DEF next
    <3> QED BY <2>3 DEF Reads
  <2> QED BY <2>4
<1> HIDE DEF S
<1>3. \A n \in Nat : n \in S
  BY <1>1, <1>2, NatInduct
<1> QED BY <1>3 DEF S

\* The records of s are in the order of their times.
Ascending(s) ==
  \A i, j \in 1 .. Len(s) : i < j /\ s[i] # Junk /\ s[j] # Junk => s[i].at <= s[j].at

\* r holds the records among the first n lines of s.
Holds(s, n, r) ==
  /\ r \in Seq(Record)
  /\ \A k \in 1 .. Len(r) : \E j \in 1 .. n : s[j] # Junk /\ s[j] = r[k]
  /\ \A j \in 1 .. n : s[j] # Junk => \E k \in 1 .. Len(r) : r[k] = s[j]
  /\ Ascending(s) => Sorted(r)

\* One more line.
LEMMA HoldsNext ==
  ASSUME NEW s \in Seq(Record \union {Junk}), NEW n \in Nat, n + 1 <= Len(s), NEW r, Holds(s, n, r)
  PROVE  Holds(s, n + 1, IF s[n + 1] = Junk THEN r ELSE Append(r, s[n + 1]))
<1>1. CASE s[n + 1] = Junk
  BY <1>1 DEF Holds
<1>2. CASE s[n + 1] # Junk
  <2> DEFINE t == Append(r, s[n + 1])
  <2>1. /\ s[n + 1] \in Record /\ r \in Seq(Record)
        /\ \A k \in 1 .. Len(r) : \E j \in 1 .. n : s[j] # Junk /\ s[j] = r[k]
        /\ Ascending(s) => Sorted(r)
    <3>1. s[n + 1] \in Record \union {Junk}
      OBVIOUS
    <3>2. s[n + 1] \in Record
      BY <1>2, <3>1
    <3>3. /\ r \in Seq(Record)
          /\ \A k \in 1 .. Len(r) : \E j \in 1 .. n : s[j] # Junk /\ s[j] = r[k]
          /\ Ascending(s) => Sorted(r)
      BY Zenon DEF Holds
    <3> QED BY <3>2, <3>3
  <2>2. /\ t \in Seq(Record) /\ Len(t) = Len(r) + 1 /\ Len(r) \in Nat
        /\ t[Len(r) + 1] = s[n + 1]
        /\ \A k \in 1 .. Len(r) : t[k] = r[k]
    BY <2>1
  <2> HIDE DEF t
  <2>3. \A k \in 1 .. Len(t) : \E j \in 1 .. n + 1 : s[j] # Junk /\ s[j] = t[k]
    <3> SUFFICES ASSUME NEW k \in 1 .. Len(t)
                 PROVE  \E j \in 1 .. n + 1 : s[j] # Junk /\ s[j] = t[k]
      OBVIOUS
    <3>1. CASE k = Len(r) + 1
      BY <1>2, <2>2, <3>1
    <3>2. CASE k \in 1 .. Len(r)
      BY <2>1, <2>2, <3>2
    <3> QED BY <2>2, <3>1, <3>2
  <2>4. \A j \in 1 .. n + 1 : s[j] # Junk => \E k \in 1 .. Len(t) : t[k] = s[j]
    <3> SUFFICES ASSUME NEW j \in 1 .. n + 1, s[j] # Junk
                 PROVE  \E k \in 1 .. Len(t) : t[k] = s[j]
      OBVIOUS
    <3>1. CASE j = n + 1
      BY <2>2, <3>1
    <3>2. CASE j \in 1 .. n
      <4>1. PICK k \in 1 .. Len(r) : r[k] = s[j]
        BY <3>2 DEF Holds
      <4> QED BY <2>2, <4>1
    <3> QED BY <3>1, <3>2
  <2>5. ASSUME Ascending(s) PROVE Sorted(t)
    <3> SUFFICES ASSUME NEW i \in 1 .. Len(t), NEW k \in 1 .. Len(t), i < k
                 PROVE  t[i].at <= t[k].at
      BY DEF Sorted
    <3>1. CASE k \in 1 .. Len(r)
      <4>1. i \in 1 .. Len(r) /\ t[i] = r[i] /\ t[k] = r[k]
        BY <2>2, <3>1
      <4> QED BY <2>1, <2>5, <3>1, <4>1 DEF Sorted
    <3>2. CASE k = Len(r) + 1
      <4>1. PICK j \in 1 .. n : s[j] # Junk /\ s[j] = r[i]
        BY <2>1, <2>2, <3>2
      <4>2. n \in 1 .. Len(s) /\ n + 1 \in 1 .. Len(s) /\ j \in 1 .. Len(s) /\ j < n + 1
        BY <4>1
      <4>3. s[j].at <= s[n + 1].at
        BY <1>2, <2>5, <4>1, <4>2 DEF Ascending
      <4> QED BY <2>2, <3>2, <4>1, <4>3
    <3> QED BY <2>2, <3>1, <3>2, SMTT(40)
  <2> QED BY <1>2, <2>2, <2>3, <2>4, <2>5 DEF Holds, t
<1> QED BY <1>1, <1>2

\* readRecords returns the records of the file, each of them and in their order.
LEMMA RecordsRead ==
  ASSUME NEW s \in Seq(Record \union {Junk})
  PROVE  /\ Records(s) \in Seq(Record)
         /\ Range(Records(s)) = Range(s) \ {Junk}
         /\ Ascending(s) => Sorted(Records(s))
<1>0. Len(s) \in Nat
  OBVIOUS
<1>1. PICK g : Reads(s, g, Len(s)) /\ Records(s) = g[Len(s)]
  <2> DEFINE read == CHOOSE g : Reads(s, g, Len(s))
  <2>1. Reads(s, read, Len(s))
    BY <1>0, ReadsExist
  <2>2. Records(s) = read[Len(s)]
    BY DEF Records, Reads
  <2> QED BY <2>1, <2>2
<1> DEFINE S == {n \in Nat : n <= Len(s) => Holds(s, n, g[n])}
<1>2. 0 \in S
  <2>1. g[0] = <<>>
    BY <1>0, <1>1 DEF Reads
  <2>2. Holds(s, 0, <<>>)
    BY DEF Holds, Sorted
  <2> QED BY <2>1, <2>2
<1>3. ASSUME NEW n \in Nat, n \in S
      PROVE  n + 1 \in S
  <2> SUFFICES ASSUME n + 1 <= Len(s) PROVE Holds(s, n + 1, g[n + 1])
    OBVIOUS
  <2>1. Holds(s, n, g[n])
    BY <1>0, <1>3
  <2>2. n + 1 \in 0 .. Len(s) /\ n + 1 # 0 /\ (n + 1) - 1 = n
    BY <1>0
  <2>3. g[n + 1] = IF s[n + 1] = Junk THEN g[n] ELSE Append(g[n], s[n + 1])
    BY <1>1, <2>2 DEF Reads
  <2> QED BY <2>1, <2>3, HoldsNext
<1> HIDE DEF S
<1>4. \A n \in Nat : n \in S
  BY <1>2, <1>3, NatInduct
<1>5. Holds(s, Len(s), Records(s))
  BY <1>0, <1>1, <1>4 DEF S
<1>6. Range(Records(s)) = Range(s) \ {Junk}
  <2>1. /\ Records(s) \in Seq(Record)
        /\ \A k \in 1 .. Len(Records(s)) :
             \E j \in 1 .. Len(s) : s[j] # Junk /\ s[j] = Records(s)[k]
        /\ \A j \in 1 .. Len(s) :
             s[j] # Junk => \E k \in 1 .. Len(Records(s)) : Records(s)[k] = s[j]
    BY <1>5 DEF Holds
  <2>2. DOMAIN s = 1 .. Len(s) /\ DOMAIN Records(s) = 1 .. Len(Records(s))
    BY <2>1
  <2>3. ASSUME NEW x \in Range(Records(s)) PROVE x \in Range(s) \ {Junk}
    <3>1. PICK k \in 1 .. Len(Records(s)) : Records(s)[k] = x
      BY <2>2, <2>3 DEF Range
    <3> QED BY <2>1, <2>2, <3>1 DEF Range
  <2>4. ASSUME NEW x \in Range(s) \ {Junk} PROVE x \in Range(Records(s))
    <3>1. PICK j \in 1 .. Len(s) : s[j] = x
      BY <2>2, <2>4 DEF Range
    <3> QED BY <2>1, <2>2, <2>4, <3>1 DEF Range
  <2> QED BY <2>3, <2>4
<1> QED BY <1>5, <1>6 DEF Holds

-----------------------------------------------------------------------------
(* The inductive invariant.                                                *)

PassType == pass \in [at : {"idle", "scan", "remove", "write"}, recs : Seq(Record),
                      i : Nat, kept : Seq(Record)]

\* A pass works on the records of the file, in order, and no file comes back.
PassInv ==
  /\ shared \subseteq present
  /\ \A rec \in Retired : rec.at <= clock
  /\ ~Unlocked => /\ Range(pass.recs) = Retired
                  /\ Sorted(pass.recs) /\ Sorted(pass.kept)
                  /\ pass.i >= 1

\* Within the loop, the records before i are kept or their files are gone.
LoopInv ==
  pass.at \in {"scan", "remove"} =>
    /\ \A k \in 1 .. Len(pass.kept) : \E j \in 1 .. Len(pass.recs) :
         j < pass.i /\ pass.recs[j] = pass.kept[k]
    /\ \A j \in 1 .. Len(pass.recs) : j < pass.i =>
         pass.recs[j] \in Range(pass.kept) \/ pass.recs[j].path \notin present

\* The record whose file os.Remove is to delete has expired and is not pinned: a
\* share made since the question pins only what was superseded a tick ago.
RemoveInv ==
  pass.at = "remove" =>
    /\ pass.i <= Len(pass.recs)
    /\ Expired(pass.recs[pass.i]) /\ ~Pinned(pass.recs[pass.i])

\* What the pass will write: some of the records, and all whose file is there.
WriteInv ==
  pass.at = "write" =>
    /\ Range(pass.kept) \subseteq Retired
    /\ \A rec \in Retired \ Range(pass.kept) : rec.path \notin present

IInv == Inv /\ PassType /\ PassInv /\ LoopInv /\ RemoveInv /\ WriteInv

\* Append puts one element into a sequence.
LEMMA RangeAppend ==
  ASSUME NEW T, NEW s \in Seq(T), NEW x \in T
  PROVE  Range(Append(s, x)) = Range(s) \union {x}
<1>1. /\ DOMAIN s = 1 .. Len(s) /\ Len(s) \in Nat
      /\ DOMAIN Append(s, x) = 1 .. Len(s) + 1
      /\ Append(s, x)[Len(s) + 1] = x
      /\ \A k \in 1 .. Len(s) : Append(s, x)[k] = s[k]
  OBVIOUS
<1>2. ASSUME NEW y \in Range(Append(s, x)) PROVE y \in Range(s) \union {x}
  BY <1>1, <1>2 DEF Range
<1>3. ASSUME NEW y \in Range(s) \union {x} PROVE y \in Range(Append(s, x))
  <2>1. CASE y \in Range(s)
    BY <1>1, <2>1 DEF Range
  <2>2. CASE y = x
    <3>1. Len(s) + 1 \in DOMAIN Append(s, x)
      BY <1>1
    <3> QED BY <1>1, <2>2, <3>1 DEF Range
  <2> QED BY <1>3, <2>1, <2>2
<1> QED BY <1>2, <1>3

\* What KeepRest keeps.
LEMMA Rest ==
  ASSUME NEW T, NEW r \in Seq(T), NEW kept \in Seq(T), NEW n \in 1 .. Len(r) + 1
  PROVE  LET rest == SubSeq(r, n, Len(r)) IN
         /\ kept \o rest \in Seq(T)
         /\ Len(kept \o rest) = Len(kept) + (Len(r) + 1 - n)
         /\ \A k \in 1 .. Len(kept) : (kept \o rest)[k] = kept[k]
         /\ \A k \in Len(kept) + 1 .. Len(kept \o rest) :
              (kept \o rest)[k] = r[n + k - (Len(kept) + 1)]
<1> DEFINE rest == SubSeq(r, n, Len(r))
<1>1. /\ rest \in Seq(T) /\ Len(rest) = Len(r) + 1 - n
      /\ \A k \in 1 .. Len(rest) : rest[k] = r[n + k - 1]
  OBVIOUS
<1> HIDE DEF rest
<1>2. /\ kept \o rest \in Seq(T) /\ Len(kept \o rest) = Len(kept) + Len(rest)
      /\ \A k \in 1 .. Len(kept) + Len(rest) :
           (kept \o rest)[k] = IF k <= Len(kept) THEN kept[k] ELSE rest[k - Len(kept)]
  BY <1>1, ConcatProperties
<1>3. ASSUME NEW k \in Len(kept) + 1 .. Len(kept \o rest)
      PROVE  (kept \o rest)[k] = r[n + k - (Len(kept) + 1)]
  <2>1. k - Len(kept) \in 1 .. Len(rest) /\ k \in 1 .. Len(kept) + Len(rest) /\ ~(k <= Len(kept))
    BY <1>1, <1>2, <1>3
  <2>2. (kept \o rest)[k] = rest[k - Len(kept)]
    BY <1>2, <2>1
  <2>3. rest[k - Len(kept)] = r[n + (k - Len(kept)) - 1]
    BY <1>1, <2>1
  <2>4. n + (k - Len(kept)) - 1 = n + k - (Len(kept) + 1)
    BY <1>1, <1>2, <1>3
  <2> QED BY <2>2, <2>3, <2>4
<1> QED BY <1>1, <1>2, <1>3 DEF rest

\* When the loop ends early, the kept records and the rest are what is written:
\* still in order, and nothing whose file is there is missing.
LEMMA KeepRestKeeps ==
  ASSUME IInv, pass.at \in {"scan", "remove"}, pass.i <= Len(pass.recs), KeepRest
  PROVE  /\ pass'.at = "write" /\ pass'.recs = pass.recs /\ pass'.i = pass.i
         /\ PassType' /\ Sorted(pass'.kept)
         /\ Range(pass'.kept) \subseteq Retired
         /\ \A rec \in Retired \ Range(pass'.kept) : rec.path \notin present
<1> DEFINE recs == pass.recs
           kept == pass.kept
           n == pass.i
           all == kept \o SubSeq(recs, n, Len(recs))
<1>1. /\ pass \in [at : {"idle", "scan", "remove", "write"}, recs : Seq(Record),
                   i : Nat, kept : Seq(Record)]
      /\ recs \in Seq(Record) /\ kept \in Seq(Record) /\ n \in 1 .. Len(recs)
      /\ Range(recs) = Retired /\ Sorted(recs) /\ Sorted(kept)
      /\ \A k \in 1 .. Len(kept) : \E j \in 1 .. Len(recs) : j < n /\ recs[j] = kept[k]
      /\ \A j \in 1 .. Len(recs) : j < n => recs[j] \in Range(kept) \/ recs[j].path \notin present
  BY DEF IInv, PassType, PassInv, LoopInv, Unlocked
<1>2. pass' = [pass EXCEPT !.at = "write", !.kept = all]
  BY DEF KeepRest
<1>3. /\ all \in Seq(Record) /\ Len(all) = Len(kept) + (Len(recs) + 1 - n)
      /\ \A k \in 1 .. Len(kept) : all[k] = kept[k]
      /\ \A k \in Len(kept) + 1 .. Len(all) : all[k] = recs[n + k - (Len(kept) + 1)]
  BY <1>1, Rest, SMTT(40)
<1>4. pass'.at = "write" /\ pass'.recs = recs /\ pass'.i = n /\ pass'.kept = all /\ PassType'
  BY <1>1, <1>2, <1>3 DEF PassType
<1> HIDE DEF recs, kept, n, all
<1>5. Len(kept) \in Nat /\ Len(recs) \in Nat /\ Len(all) \in Nat /\ n \in Nat
  BY <1>1, <1>3
<1>s. /\ \A k, m \in 1 .. Len(kept) : k < m => kept[k].at <= kept[m].at
      /\ \A k, m \in 1 .. Len(recs) : k < m => recs[k].at <= recs[m].at
  BY <1>1 DEF Sorted
<1>6. ASSUME NEW k \in 1 .. Len(all)
      PROVE  \E j \in 1 .. Len(recs) : /\ all[k] = recs[j]
                                       /\ k <= Len(kept) => j < n
                                       /\ k > Len(kept) => j = n + k - (Len(kept) + 1)
  <2>1. CASE k <= Len(kept)
    <3>1. PICK j \in 1 .. Len(recs) : j < n /\ recs[j] = kept[k]
      BY <1>1, <1>5, <2>1
    <3> QED BY <1>3, <1>5, <2>1, <3>1
  <2>2. CASE k > Len(kept)
    <3>1. n + k - (Len(kept) + 1) \in 1 .. Len(recs) /\ k \in Len(kept) + 1 .. Len(all)
      BY <1>1, <1>3, <1>5, <2>2
    <3> QED BY <1>3, <1>5, <2>2, <3>1
  <2> QED BY <1>5, <2>1, <2>2
<1>7. Sorted(all)
  <2> SUFFICES ASSUME NEW k \in 1 .. Len(all), NEW m \in 1 .. Len(all), k < m
               PROVE  all[k].at <= all[m].at
    BY DEF Sorted
  <2>1. CASE m <= Len(kept)
    <3>1. k \in 1 .. Len(kept) /\ m \in 1 .. Len(kept)
      BY <1>5, <2>1
    <3>2. all[k] = kept[k] /\ all[m] = kept[m]
      BY <1>3, <3>1
    <3> QED BY <1>s, <3>1, <3>2
  <2>2. CASE m > Len(kept)
    <3>1. PICK j \in 1 .. Len(recs) : /\ all[k] = recs[j]
                                      /\ k <= Len(kept) => j < n
                                      /\ k > Len(kept) => j = n + k - (Len(kept) + 1)
      BY <1>6
    <3>2. PICK l \in 1 .. Len(recs) : all[m] = recs[l] /\ l = n + m - (Len(kept) + 1)
      BY <1>6, <2>2
    <3>3. j < l
      <4>1. CASE k <= Len(kept)
        <5>1. l >= n
          BY <1>5, <2>2, <3>2
        <5> QED BY <1>5, <3>1, <4>1, <5>1
      <4>2. CASE k > Len(kept)
        BY <1>5, <3>1, <3>2, <4>2
      <4> QED BY <1>5, <4>1, <4>2
    <3> QED BY <1>s, <3>1, <3>2, <3>3
  <2> QED BY <1>5, <2>1, <2>2
<1>8. DOMAIN all = 1 .. Len(all) /\ DOMAIN recs = 1 .. Len(recs) /\ DOMAIN kept = 1 .. Len(kept)
  BY <1>1, <1>3
<1>9. Range(all) \subseteq Retired
  <2> SUFFICES ASSUME NEW k \in 1 .. Len(all) PROVE all[k] \in Range(recs)
    BY <1>1, <1>8 DEF Range
  <2>1. PICK j \in 1 .. Len(recs) : all[k] = recs[j]
    BY <1>6
  <2> QED BY <1>8, <2>1 DEF Range
<1>10. ASSUME NEW rec \in Retired \ Range(all)
       PROVE  rec.path \notin present
  <2>1. PICK j \in 1 .. Len(recs) : recs[j] = rec
    BY <1>1, <1>8 DEF Range
  <2>2. j < n
    <3> SUFFICES ASSUME j >= n PROVE FALSE
      BY <1>5
    <3> DEFINE k == Len(kept) + 1 + (j - n)
    <3>1. k \in Len(kept) + 1 .. Len(all) /\ n + k - (Len(kept) + 1) = j /\ k \in 1 .. Len(all)
      BY <1>1, <1>3, <1>5
    <3>2. all[k] = rec
      BY <1>3, <2>1, <3>1
    <3> QED BY <1>8, <3>1, <3>2 DEF Range
  <2>3. rec \notin Range(kept)
    <3> SUFFICES ASSUME NEW k \in 1 .. Len(kept), kept[k] = rec PROVE FALSE
      BY <1>8 DEF Range
    <3>1. k \in 1 .. Len(all) /\ all[k] = rec
      BY <1>1, <1>3, <1>5
    <3> QED BY <1>8, <3>1 DEF Range
  <2> QED BY <1>1, <2>1, <2>2, <2>3
<1> QED BY <1>4, <1>7, <1>9, <1>10 DEF recs, n

\* A protected record joins the kept ones.
LEMMA SkipKeeps ==
  ASSUME IInv, pass.at = "scan", pass.i <= Len(pass.recs), Skip(pass.recs[pass.i])
  PROVE  /\ pass'.at = "scan" /\ pass'.recs = pass.recs /\ pass'.i = pass.i + 1
         /\ PassType' /\ Sorted(pass'.kept)
         /\ \A k \in 1 .. Len(pass'.kept) : \E j \in 1 .. Len(pass.recs) :
              j < pass.i + 1 /\ pass.recs[j] = pass'.kept[k]
         /\ \A j \in 1 .. Len(pass.recs) : j < pass.i + 1 =>
              pass.recs[j] \in Range(pass'.kept) \/ pass.recs[j].path \notin present
<1> DEFINE recs == pass.recs
           kept == pass.kept
           n == pass.i
           all == Append(kept, recs[n])
<1>1. /\ pass \in [at : {"idle", "scan", "remove", "write"}, recs : Seq(Record),
                   i : Nat, kept : Seq(Record)]
      /\ recs \in Seq(Record) /\ kept \in Seq(Record) /\ n \in 1 .. Len(recs)
  BY DEF IInv, PassType, PassInv, Unlocked
<1>2. /\ \A k \in 1 .. Len(kept) : \E j \in 1 .. Len(recs) : j < n /\ recs[j] = kept[k]
      /\ \A j \in 1 .. Len(recs) : j < n => recs[j] \in Range(kept) \/ recs[j].path \notin present
      /\ \A k, m \in 1 .. Len(kept) : k < m => kept[k].at <= kept[m].at
      /\ \A k, m \in 1 .. Len(recs) : k < m => recs[k].at <= recs[m].at
  BY DEF IInv, PassInv, LoopInv, Unlocked, Sorted
<1>3. pass' = [pass EXCEPT !.i = n + 1, !.kept = all]
  BY DEF Skip
<1>4. recs[n] \in Record /\ Len(kept) \in Nat /\ Len(recs) \in Nat /\ n \in Nat
  BY <1>1
<1>5. /\ all \in Seq(Record) /\ Len(all) = Len(kept) + 1 /\ all[Len(kept) + 1] = recs[n]
      /\ \A k \in 1 .. Len(kept) : all[k] = kept[k]
  BY <1>1, <1>4
<1>6. Range(all) = Range(kept) \union {recs[n]}
  BY <1>1, <1>4, RangeAppend
<1> HIDE DEF all
<1>7. pass'.at = "scan" /\ pass'.recs = recs /\ pass'.i = n + 1 /\ pass'.kept = all /\ PassType'
  <2>1. n + 1 \in Nat /\ all \in Seq(Record)
    BY <1>4, <1>5
  <2> HIDE DEF n
  <2> QED BY <1>1, <1>3, <2>1 DEF PassType
<1> HIDE DEF recs, kept, n
<1>8. \A k \in 1 .. Len(all) : \E j \in 1 .. Len(recs) : j < n + 1 /\ recs[j] = all[k]
  <2> SUFFICES ASSUME NEW k \in 1 .. Len(all)
               PROVE  \E j \in 1 .. Len(recs) : j < n + 1 /\ recs[j] = all[k]
    OBVIOUS
  <2>1. CASE k = Len(kept) + 1
    BY <1>1, <1>4, <1>5, <2>1
  <2>2. CASE k \in 1 .. Len(kept)
    <3>1. PICK j \in 1 .. Len(recs) : j < n /\ recs[j] = kept[k]
      BY <1>2, <2>2
    <3> QED BY <1>4, <1>5, <2>2, <3>1
  <2> QED BY <1>4, <1>5, <2>1, <2>2
<1>9. Sorted(all)
  <2> SUFFICES ASSUME NEW k \in 1 .. Len(all), NEW m \in 1 .. Len(all), k < m
               PROVE  all[k].at <= all[m].at
    BY DEF Sorted
  <2>1. k \in 1 .. Len(kept) /\ all[k] = kept[k]
    BY <1>4, <1>5
  <2>2. CASE m = Len(kept) + 1
    <3>1. PICK j \in 1 .. Len(recs) : j < n /\ recs[j] = kept[k]
      BY <1>2, <2>1
    <3> QED BY <1>1, <1>2, <1>5, <2>1, <2>2, <3>1
  <2>3. CASE m \in 1 .. Len(kept)
    BY <1>2, <1>5, <2>1, <2>3
  <2> QED BY <1>4, <1>5, <2>2, <2>3
<1>10. \A j \in 1 .. Len(recs) : j < n + 1 => recs[j] \in Range(all) \/ recs[j].path \notin present
  <2> SUFFICES ASSUME NEW j \in 1 .. Len(recs), j < n + 1
               PROVE  recs[j] \in Range(all) \/ recs[j].path \notin present
    OBVIOUS
  <2>1. CASE j = n
    BY <1>6, <2>1
  <2>2. CASE j < n
    BY <1>2, <1>6, <2>2
  <2> QED BY <1>4, <2>1, <2>2
<1> QED BY <1>7, <1>8, <1>9, <1>10 DEF recs, n

\* Before the first capture.
LEMMA InitInv == Init => IInv
<1> SUFFICES ASSUME Init PROVE IInv
  OBVIOUS
<1>1. /\ lines = <<>> /\ torn = FALSE /\ Len(lines) = 0 /\ Range(lines) = {}
      /\ pass = [at |-> "idle", recs |-> <<>>, i |-> 0, kept |-> <<>>]
  BY DEF Init, Idle, Range
<1>2. pass.at = "idle" /\ pass.recs = <<>> /\ pass.i = 0 /\ pass.kept = <<>> /\ PassType
  BY <1>1 DEF PassType
<1>3. TypeOK
  <2>1. /\ MaxClock \in Nat /\ MaxAdds \in Nat /\ MaxFaults \in Nat
        /\ MaxTorn \in Nat /\ MaxCrashes \in Nat
    BY BoundsAssumption
  <2>2. lines \in Seq(Record \union {Junk}) /\ pass.i \in 0 .. Len(pass.recs) + 1
    BY <1>1, <1>2
  <2>3. pass.at = "idle" /\ pass.recs \in Seq(Record) /\ pass.kept \in Seq(Record)
    BY <1>2
  <2>4. torn \in BOOLEAN /\ ~torn
    BY <1>1
  <2>5. /\ present \subseteq Path /\ shared \subseteq Path
        /\ clock \in 0 .. MaxClock /\ adds \in 0 .. MaxAdds /\ faults \in 0 .. MaxFaults
        /\ tears \in 0 .. MaxTorn /\ crashes \in 0 .. MaxCrashes
    BY <2>1 DEF Init
  <2> QED BY <2>2, <2>3, <2>4, <2>5 DEF TypeOK
<1>4. Ordered
  BY <1>1 DEF Ordered
<1>5. PassInv
  BY <1>1, <1>2 DEF Init, PassInv, Retired, Unlocked
<1> QED BY <1>2, <1>3, <1>4, <1>5 DEF IInv, Inv, LoopInv, RemoveInv, WriteInv

\* All but the last line of a file.
LEMMA FrontIs ==
  ASSUME NEW T, NEW s \in Seq(T), s # <<>>
  PROVE  /\ Front(s) \in Seq(T) /\ Len(s) \in Nat \ {0} /\ Len(Front(s)) = Len(s) - 1
         /\ \A k \in 1 .. Len(s) - 1 : Front(s)[k] = s[k]
         /\ Range(Front(s)) \subseteq Range(s)
<1>1. Len(s) \in Nat \ {0} /\ DOMAIN s = 1 .. Len(s)
  BY EmptySeq
<1>2. /\ Front(s) \in Seq(T) /\ Len(Front(s)) = Len(s) - 1
      /\ \A k \in 1 .. Len(s) - 1 : Front(s)[k] = s[k]
  BY <1>1 DEF Front
<1>3. DOMAIN Front(s) = 1 .. Len(s) - 1
  BY <1>1, <1>2
<1>4. Range(Front(s)) \subseteq Range(s)
  BY <1>1, <1>2, <1>3 DEF Range
<1> QED BY <1>1, <1>2, <1>4

\* What an append leaves: its record at the end of the file, or, after a torn line, junk
\* in the place of both.
LEMMA AppendedLines ==
  ASSUME TypeOK, NEW rec \in Record \union {Junk}
  PROVE  /\ Appended(rec) \in Seq(Record \union {Junk}) /\ Appended(rec) # <<>>
         /\ Front(Appended(rec)) = IF torn THEN Front(lines) ELSE lines
         /\ Range(Appended(rec)) \ {Junk} =
              IF torn THEN Retired \ Unsure ELSE Retired \union ({rec} \ {Junk})
<1>0. lines \in Seq(Record \union {Junk})
  BY DEF TypeOK
<1>1. ASSUME NEW s \in Seq(Record \union {Junk}), NEW x \in Record \union {Junk}
      PROVE  /\ Append(s, x) \in Seq(Record \union {Junk}) /\ Append(s, x) # <<>>
             /\ Front(Append(s, x)) = s
             /\ Range(Append(s, x)) = Range(s) \union {x}
  <2> DEFINE T == Record \union {Junk}
             a == Append(s, x)
  <2> HIDE DEF T
  <2>1. /\ a \in Seq(T) /\ a # <<>> /\ Len(a) = Len(s) + 1 /\ s \in Seq(T)
        /\ \A k \in 1 .. Len(s) : a[k] = s[k]
    <3>1. s \in Seq(T) /\ x \in T
      BY DEF T
    <3> QED BY <3>1, AppendProperties
  <2>2. Front(a) = s
    <3> HIDE DEF a
    <3>1. /\ Front(a) \in Seq(T) /\ Len(Front(a)) = Len(a) - 1
          /\ \A k \in 1 .. Len(a) - 1 : Front(a)[k] = a[k]
      BY <2>1, FrontIs
    <3>2. Len(s) \in Nat /\ Len(Front(a)) = Len(s)
      BY <2>1, <3>1
    <3>3. \A k \in 1 .. Len(s) : Front(a)[k] = s[k]
      BY <2>1, <3>1, <3>2
    <3> QED BY <2>1, <3>1, <3>2, <3>3, SeqEqual
  <2> QED BY <2>1, <2>2, RangeAppend DEF T
<1>2. CASE torn
  <2>1. Front(lines) \in Seq(Record \union {Junk}) /\ Range(Front(lines)) \subseteq Range(lines)
    BY <1>0, <1>2, FrontIs DEF TypeOK
  <2>2. Appended(rec) = Append(Front(lines), Junk)
    BY <1>2 DEF Appended
  <2>3. Retired \ Unsure = Range(Front(lines)) \ {Junk}
    BY <1>2, <2>1 DEF Unsure, Retired
  <2> QED BY <1>1, <1>2, <2>1, <2>2, <2>3
<1>3. CASE ~torn
  BY <1>0, <1>1, <1>3 DEF Appended, Retired
<1> QED BY <1>2, <1>3

\* An append keeps the order: its record is not older than any, and junk is no record.
LEMMA AppendedOrdered ==
  ASSUME TypeOK, Ordered, \A r \in Retired : r.at <= clock,
         NEW rec \in Record \union {Junk}, rec # Junk => rec.at = clock
  PROVE  \A i, j \in 1 .. Len(Appended(rec)) :
           i < j /\ Appended(rec)[i] # Junk /\ Appended(rec)[j] # Junk =>
             Appended(rec)[i].at <= Appended(rec)[j].at
<1> DEFINE base == IF torn THEN Front(lines) ELSE lines
           last == IF torn THEN Junk ELSE rec
<1>0. lines \in Seq(Record \union {Junk}) /\ (torn => lines # <<>>)
  BY DEF TypeOK
<1>1. /\ base \in Seq(Record \union {Junk}) /\ Len(base) \in Nat /\ Len(base) <= Len(lines)
      /\ \A k \in 1 .. Len(base) : base[k] = lines[k]
  <2>1. CASE torn
    BY <1>0, <2>1, FrontIs
  <2>2. CASE ~torn
    BY <1>0, <2>2
  <2> QED BY <2>1, <2>2
<1>2. Appended(rec) = Append(base, last)
  BY DEF Appended
<1> HIDE DEF base
<1>3. /\ Len(Appended(rec)) = Len(base) + 1 /\ Appended(rec)[Len(base) + 1] = last
      /\ \A k \in 1 .. Len(base) : Appended(rec)[k] = base[k]
  BY <1>1, <1>2
<1>4. \A k \in 1 .. Len(base) : base[k] # Junk => base[k].at <= clock
  <2>1. \A k \in 1 .. Len(base) : lines[k] \in Range(lines)
    BY <1>0, <1>1 DEF Range
  <2> QED BY <1>1, <2>1 DEF Retired
<1>5. ASSUME NEW i \in 1 .. Len(Appended(rec)), NEW j \in 1 .. Len(Appended(rec)), i < j,
             Appended(rec)[i] # Junk, Appended(rec)[j] # Junk
      PROVE  Appended(rec)[i].at <= Appended(rec)[j].at
  <2>1. i \in 1 .. Len(base) /\ Appended(rec)[i] = base[i]
    BY <1>1, <1>3, <1>5
  <2>2. CASE j = Len(base) + 1
    <3>1. Appended(rec)[j] = rec /\ rec # Junk
      BY <1>3, <1>5, <2>2
    <3> QED BY <1>4, <1>5, <2>1, <3>1
  <2>3. CASE j \in 1 .. Len(base)
    <3>1. Appended(rec)[j] = lines[j] /\ Appended(rec)[i] = lines[i]
      BY <1>1, <1>3, <2>1, <2>3
    <3>2. i \in 1 .. Len(lines) /\ j \in 1 .. Len(lines)
      BY <1>0, <1>1, <2>1, <2>3
    <3> QED BY <1>5, <3>1, <3>2 DEF Ordered
  <2> QED BY <1>1, <1>3, <2>2, <2>3
<1> QED BY <1>5

\* Each step keeps the invariant.
LEMMA NextInv == IInv /\ [Next]_vars => IInv'
<1> SUFFICES ASSUME IInv, [Next]_vars PROVE IInv'
  OBVIOUS
<1> USE DEF IInv, Inv, TypeOK, Ordered, PassInv, LoopInv, RemoveInv, WriteInv, Unlocked,
            Succeeds, Fails, queueVars, Expired, Pinned
<1>0. /\ MaxClock \in Nat /\ MaxAdds \in Nat /\ MaxFaults \in Nat
      /\ MaxTorn \in Nat /\ MaxCrashes \in Nat /\ Retention \in Nat /\ Retention >= 1
  BY BoundsAssumption
<1>u. ASSUME NEW rec \in Record \union {Junk}, rec # Junk => rec.at = clock,
             lines' = Appended(rec)
      PROVE  /\ lines' \in Seq(Record \union {Junk}) /\ lines' # <<>>
             /\ Retired' \subseteq Retired \union ({rec} \ {Junk})
             /\ Ordered'
  <2>1. TypeOK /\ Ordered /\ \A r \in Retired : r.at <= clock
    OBVIOUS
  <2>2. Ordered'
    <3> HIDE DEF IInv, Inv, TypeOK, PassInv, LoopInv, RemoveInv, WriteInv
    <3> QED BY <1>u, <2>1, AppendedOrdered
  <2> HIDE DEF IInv, Inv, TypeOK, Ordered, PassInv, LoopInv, RemoveInv, WriteInv
  <2>3. /\ lines' \in Seq(Record \union {Junk}) /\ lines' # <<>>
        /\ Retired' \subseteq Retired \union ({rec} \ {Junk})
    BY <1>u, <2>1, AppendedLines DEF Retired
  <2> QED BY <2>2, <2>3
<1>1. ASSUME NEW p \in Path, Add(p)
      PROVE  IInv'
  <2> DEFINE rec == [path |-> p, at |-> clock]
  <2>1. rec \in Record /\ rec # Junk /\ rec.at = clock
    BY JunkAssumption DEF Record
  <2>2. /\ lines' \in Seq(Record \union {Junk})
        /\ Retired' \subseteq Retired \union {rec} /\ Ordered'
    BY <1>1, <1>u, <2>1 DEF Add
  <2>3. /\ torn' = FALSE /\ UNCHANGED <<pass, present, shared, clock, faults, tears, crashes>>
        /\ pass.at = "idle" /\ adds' \in 0 .. MaxAdds
    BY <1>1, <1>0 DEF Add
  <2>4. TypeOK'
    <3>1. pass' = pass
      BY <2>3
    <3> QED BY <2>2, <2>3, <3>1
  <2>5. PassInv'
    BY <2>1, <2>2, <2>3
  <2> HIDE DEF rec
  <2> QED BY <2>2, <2>3, <2>4, <2>5 DEF PassType
<1>2. ASSUME NEW p \in Path, AddTorn(p)
      PROVE  IInv'
  <2> DEFINE rec == [path |-> p, at |-> clock]
  <2>1. rec \in Record /\ rec.at = clock
    BY DEF Record
  <2>2. /\ lines' \in Seq(Record \union {Junk}) /\ lines' # <<>>
        /\ Retired' \subseteq Retired \union {rec} /\ Ordered'
    <3>1. PICK part \in {Junk, rec} : lines' = Appended(part)
      BY <1>2 DEF AddTorn
    <3> HIDE DEF rec
    <3> QED BY <1>u, <2>1, <3>1
  <2>3. /\ torn' = TRUE /\ UNCHANGED <<pass, present, shared, clock, adds, faults, crashes>>
        /\ pass.at = "idle" /\ tears' \in 0 .. MaxTorn
    BY <1>2, <1>0 DEF AddTorn
  <2>4. TypeOK'
    <3>1. pass' = pass
      BY <2>3
    <3> QED BY <2>2, <2>3, <3>1
  <2>5. PassInv'
    BY <2>1, <2>2, <2>3
  <2> HIDE DEF rec
  <2> QED BY <2>2, <2>3, <2>4, <2>5 DEF PassType
<1>3. CASE Begin
  <2>1. /\ Records(lines) \in Seq(Record) /\ Range(Records(lines)) = Retired
        /\ Sorted(Records(lines))
    BY RecordsRead DEF Ascending, Retired
  <2>2. /\ pass' = [at |-> "scan", recs |-> Records(lines), i |-> 1, kept |-> <<>>]
        /\ UNCHANGED <<lines, torn, present, shared, clock, adds, faults, tears, crashes>>
    BY <1>3 DEF Begin
  <2>3. PassType'
    BY <2>1, <2>2 DEF PassType
  <2>4. /\ pass'.at = "scan" /\ pass'.recs = Records(lines) /\ pass'.i = 1 /\ pass'.kept = <<>>
        /\ Sorted(<<>>)
    BY <2>2 DEF Sorted
  <2>5. TypeOK' /\ Ordered'
    BY <2>1, <2>2, <2>4
  <2>6. PassInv'
    BY <2>1, <2>2, <2>4 DEF Retired
  <2>7. LoopInv' /\ RemoveInv' /\ WriteInv'
    BY <2>1, <2>4
  <2> QED BY <2>3, <2>5, <2>6, <2>7
<1>4. CASE Scan
  <2>0. /\ UNCHANGED <<lines, torn, present, shared, clock, adds, tears, crashes>>
        /\ pass.at = "scan" /\ faults' \in 0 .. MaxFaults /\ Retired' = Retired
    BY <1>4, <1>0 DEF Scan, KeepRest, Skip, Retired
  <2>1. CASE pass.i > Len(pass.recs) /\ pass' = [pass EXCEPT !.at = "write"]
    <3>1. /\ PassType' /\ pass'.at = "write" /\ pass'.i = pass.i /\ pass'.recs = pass.recs
          /\ pass'.kept = pass.kept
      BY <2>1 DEF PassType
    <3>2. /\ Range(pass.recs) = Retired /\ DOMAIN pass.recs = 1 .. Len(pass.recs)
          /\ DOMAIN pass.kept = 1 .. Len(pass.kept)
      BY <2>0
    <3>3. \A j \in 1 .. Len(pass.recs) : j < pass.i
      BY <2>1 DEF PassType
    <3>4. Range(pass.kept) \subseteq Retired
      BY <2>0, <3>2 DEF Range
    <3>5. \A rec \in Retired \ Range(pass.kept) : rec.path \notin present
      BY <2>0, <3>2, <3>3 DEF Range
    <3> QED BY <2>0, <3>1, <3>4, <3>5
  <2>2. CASE pass.i <= Len(pass.recs) /\ KeepRest
    <3>1. /\ pass'.at = "write" /\ pass'.recs = pass.recs /\ pass'.i = pass.i
          /\ PassType' /\ Sorted(pass'.kept)
          /\ Range(pass'.kept) \subseteq Retired
          /\ \A rec \in Retired \ Range(pass'.kept) : rec.path \notin present
      BY <2>0, <2>2, KeepRestKeeps
    <3> QED BY <2>0, <3>1 DEF PassType
  <2>3. CASE pass.i <= Len(pass.recs) /\ Skip(pass.recs[pass.i])
    <3>1. /\ pass'.at = "scan" /\ pass'.recs = pass.recs /\ pass'.i = pass.i + 1
          /\ PassType' /\ Sorted(pass'.kept)
          /\ \A k \in 1 .. Len(pass'.kept) : \E j \in 1 .. Len(pass.recs) :
               j < pass.i + 1 /\ pass.recs[j] = pass'.kept[k]
          /\ \A j \in 1 .. Len(pass.recs) : j < pass.i + 1 =>
               pass.recs[j] \in Range(pass'.kept) \/ pass.recs[j].path \notin present
      BY <2>0, <2>3, SkipKeeps
    <3>2. TypeOK' /\ PassInv'
      BY <2>0, <2>3, <3>1, SMTT(40) DEF PassType
    <3> QED BY <2>0, <3>1, <3>2
  <2>4. CASE /\ pass.i <= Len(pass.recs)
             /\ Expired(pass.recs[pass.i]) /\ ~Pinned(pass.recs[pass.i])
             /\ pass' = [pass EXCEPT !.at = "remove"]
    <3>1. /\ PassType' /\ pass'.at = "remove" /\ pass'.i = pass.i /\ pass'.recs = pass.recs
          /\ pass'.kept = pass.kept
      BY <2>4 DEF PassType
    <3> QED BY <2>0, <2>4, <3>1, SMTT(40)
  <2> QED BY <1>4, <2>1, <2>2, <2>3, <2>4 DEF Scan
<1>5. CASE RemoveFile
  <2>0. /\ UNCHANGED <<lines, torn, shared, clock, adds, tears, crashes>>
        /\ pass.at = "remove" /\ faults' \in 0 .. MaxFaults /\ Retired' = Retired
    BY <1>5, <1>0, SMTT(40) DEF RemoveFile, Retired
  <2>1. CASE /\ present' = present \ {pass.recs[pass.i].path}
             /\ pass' = [pass EXCEPT !.at = "scan", !.i = @ + 1]
    <3>1. /\ PassType' /\ pass'.at = "scan" /\ pass'.i = pass.i + 1 /\ pass'.recs = pass.recs
          /\ pass'.kept = pass.kept
      <4>1. PassType /\ pass.i + 1 \in Nat
        BY DEF PassType
      <4> HIDE DEF IInv
      <4> QED BY <2>1, <4>1 DEF PassType
    <3>2. /\ pass.i \in 1 .. Len(pass.recs) /\ pass.i \in Nat /\ Len(pass.recs) \in Nat
          /\ \A j \in 1 .. Len(pass.recs) : j < pass.i =>
               pass.recs[j] \in Range(pass.kept) \/ pass.recs[j].path \notin present
          /\ \A k \in 1 .. Len(pass.kept) : \E j \in 1 .. Len(pass.recs) :
               j < pass.i /\ pass.recs[j] = pass.kept[k]
      <4>1. pass.i \in Nat /\ Len(pass.recs) \in Nat /\ pass.i >= 1 /\ pass.i <= Len(pass.recs)
        BY <2>0 DEF PassType
      <4>2. LoopInv
        OBVIOUS
      <4> HIDE DEF IInv
      <4> QED BY <2>0, <4>1, <4>2, SMTT(40)
    <3>3. LoopInv'
      <4> HIDE DEF IInv
      <4>1. \A j \in 1 .. Len(pass.recs) : j < pass.i + 1 =>
              pass.recs[j] \in Range(pass.kept) \/ pass.recs[j].path \notin present'
        BY <2>1, <3>2
      <4>2. \A k \in 1 .. Len(pass.kept) : \E j \in 1 .. Len(pass.recs) :
              j < pass.i + 1 /\ pass.recs[j] = pass.kept[k]
        BY <3>2
      <4> QED BY <3>1, <4>1, <4>2
    <3>4. shared \subseteq present'
      BY <2>0, <2>1
    <3>5. TypeOK' /\ PassInv'
      BY <2>0, <2>1, <3>1, <3>2, <3>4, SMTT(40)
    <3> QED BY <2>0, <3>1, <3>3, <3>5
  <2>2. CASE KeepRest /\ UNCHANGED present
    <3>1. /\ pass'.at = "write" /\ pass'.recs = pass.recs /\ pass'.i = pass.i
          /\ PassType' /\ Sorted(pass'.kept)
          /\ Range(pass'.kept) \subseteq Retired
          /\ \A rec \in Retired \ Range(pass'.kept) : rec.path \notin present
      BY <2>0, <2>2, KeepRestKeeps
    <3> QED BY <2>0, <2>2, <3>1 DEF PassType
  <2> QED BY <1>5, <2>1, <2>2 DEF RemoveFile
<1>6. CASE Write
  <2>0. /\ UNCHANGED <<present, shared, clock, adds, tears, crashes>>
        /\ pass.at = "write" /\ faults' \in 0 .. MaxFaults
        /\ pass' = [at |-> "idle", recs |-> <<>>, i |-> 0, kept |-> <<>>]
    BY <1>6, <1>0 DEF Write, Idle
  <2>1. PassType' /\ pass'.at = "idle" /\ pass'.i = 0 /\ pass'.recs = <<>> /\ pass'.kept = <<>>
    BY <2>0 DEF PassType
  <2>2. CASE lines' = pass.kept /\ torn' = FALSE
    <3>1. lines' \in Seq(Record \union {Junk}) /\ lines' \in Seq(Record)
      BY <2>2
    <3>2. Ordered'
      BY <2>0, <2>2 DEF Sorted
    <3>3. Retired' \subseteq Retired
      BY <2>0, <2>2 DEF Retired
    <3>4. PassInv'
      BY <2>0, <2>1, <3>3
    <3>5. TypeOK'
      <4>1. /\ pass'.recs \in Seq(Record) /\ pass'.kept \in Seq(Record)
            /\ pass'.i \in 0 .. Len(pass'.recs) + 1
        BY <2>1
      <4> QED BY <2>0, <2>1, <2>2, <3>1, <4>1
    <3> QED BY <2>1, <3>2, <3>4, <3>5
  <2>3. CASE UNCHANGED <<lines, torn>>
    BY <2>0, <2>1, <2>3 DEF Retired
  <2> QED BY <1>6, <2>2, <2>3 DEF Write
<1>7. ASSUME NEW p \in Path, Share(p)
      PROVE  IInv'
  <2>0. /\ UNCHANGED <<lines, torn, pass, present, clock, adds, faults, tears, crashes>>
        /\ shared' = shared \union {p} /\ p \in present /\ Retired' = Retired
        /\ \A rec \in Retired : rec.path = p => rec.at + 1 >= clock
    BY <1>7 DEF Share, Retired
  <2>1. RemoveInv'
    <3> SUFFICES ASSUME pass.at = "remove" PROVE pass.recs[pass.i].path # p
      BY <2>0
    <3>1. pass.recs[pass.i] \in Retired /\ pass.recs[pass.i].at \in Nat /\ clock \in Nat
      <4>1. pass.i \in DOMAIN pass.recs /\ pass.recs[pass.i] \in Record
        BY DEF PassType
      <4> QED BY <4>1, SMTT(40) DEF Range, Record
    <3>2. pass.recs[pass.i].at + Retention < clock
      OBVIOUS
    <3>3. pass.recs[pass.i].path = p => pass.recs[pass.i].at + 1 >= clock
      BY <2>0, <3>1
    <3> HIDE DEF IInv
    <3> QED BY <1>0, <3>1, <3>2, <3>3
  <2> QED BY <2>0, <2>1 DEF PassType
<1>8. ASSUME NEW p \in Path, Unshare(p)
      PROVE  IInv'
  BY <1>8 DEF Unshare, Retired, PassType
<1>9. CASE Tick
  <2>1. \A rec \in Retired : rec.at \in Nat
    BY DEF Retired, Range, Record
  <2> QED BY <1>9, <2>1, <1>0 DEF Tick, Retired, PassType
<1>10. CASE Crash
  <2>1. PassType' /\ pass'.at = "idle" /\ pass'.i = 0 /\ pass'.recs = <<>> /\ pass'.kept = <<>>
    BY <1>10 DEF Crash, Idle, PassType
  <2> QED BY <1>10, <2>1, <1>0 DEF Crash, Retired
<1>11. CASE UNCHANGED vars
  BY <1>11 DEF vars, PassType, Retired
<1> QED BY <1>1, <1>2, <1>3, <1>4, <1>5, <1>6, <1>7, <1>8, <1>9, <1>10, <1>11 DEF Next, Pass

-----------------------------------------------------------------------------
(* What the invariant gives.                                               *)

\* Every reachable state satisfies the invariant.
THEOREM Invariance == Spec => []IInv
<1> QED BY InitInv, NextInv, PTL DEF Spec

\* Whatever passes, torn appends, failures and crashes do to the queue file, it
\* consists of records and junk lines, and its records are in the order of their
\* times, which the loop of ProcessDeletionsWithProtection relies on to stop early.
THEOREM QueueOrdered == Spec => []Inv
<1>1. IInv => Inv
  BY DEF IInv
<1> QED BY <1>1, Invariance, PTL

\* A pass never deletes a file under an active share, even one made between the
\* question to protect and os.Remove.
THEOREM SharesKept == Spec => []SharedKept
<1>1. IInv => SharedKept
  BY DEF IInv, PassInv, SharedKept
<1> QED BY <1>1, Invariance, PTL

-----------------------------------------------------------------------------
(* The queue implements FileRetention.                                     *)

\* At first nothing is superseded.
LEMMA InitRetention == Init => Abstract!Init
BY DEF Init, Abstract!Init, Retired, Unsure, Range

\* An append retires its record, in doubt if it is torn, unless a torn line swallows it:
\* then what was in doubt is forgotten.
LEMMA AppendRetention ==
  ASSUME TypeOK, NEW part \in Record \union {Junk}, lines' = Appended(part),
         torn' \in BOOLEAN, UNCHANGED <<present, shared, clock>>
  PROVE  /\ torn => Abstract!Forget(Unsure)
         /\ ~torn => /\ Retired' = Retired \union ({part} \ {Junk})
                     /\ Unsure = {}
                     /\ Unsure' = IF torn' THEN ({part} \ {Junk}) \ Retired ELSE {}
<1>1. /\ Range(lines') \ {Junk} = Retired'
      /\ lines' \in Seq(Record \union {Junk})
      /\ Front(lines') = IF torn THEN Front(lines) ELSE lines
      /\ Retired' = IF torn THEN Retired \ Unsure ELSE Retired \union ({part} \ {Junk})
  BY AppendedLines DEF Retired
<1>2. CASE torn
  <2>1. Unsure = Retired \ Range(Front(lines)) /\ Retired' = Retired \ Unsure
    BY <1>1, <1>2 DEF Unsure
  <2>2. Unsure' = IF torn' THEN Retired' \ Range(Front(lines')) ELSE {}
    BY DEF Unsure
  <2>3. Unsure' = {}
    BY <1>1, <1>2, <2>1, <2>2
  <2> HIDE DEF Unsure
  <2>4. Abstract!Forget(Unsure)
    BY <2>1, <2>3 DEF Abstract!Forget
  <2> QED BY <1>2, <2>4
<1>3. CASE ~torn
  <2>1. Unsure = {} /\ Retired' = Retired \union ({part} \ {Junk}) /\ Front(lines') = lines
    BY <1>1, <1>3 DEF Unsure
  <2>2. Unsure' = IF torn' THEN Retired' \ Range(Front(lines')) ELSE {}
    BY DEF Unsure
  <2>3. Retired' \ Range(lines) = ({part} \ {Junk}) \ Retired
    BY <2>1 DEF Retired
  <2> QED BY <1>3, <2>1, <2>2, <2>3
<1> QED BY <1>2, <1>3

\* Add retires a file and AddTorn retires it in doubt or not at all, unless a torn line
\* swallows the record; os.Remove deletes an expired file, the rename of the rewritten
\* queue forgets what is gone; no other step of a pass and no crash shows.
LEMMA NextRetention == IInv /\ IInv' /\ [Next]_vars => [Abstract!Next]_(Abstract!vars)
<1> SUFFICES ASSUME IInv, IInv', [Next]_vars
             PROVE  Abstract!Next \/ UNCHANGED <<Retired, Unsure, present, shared, clock>>
  BY DEF Abstract!vars
<1> USE DEF Abstract!Next, queueVars
<1>0. TypeOK
  BY DEF IInv, Inv
<1>f. UNCHANGED <<lines, torn>> => UNCHANGED <<Retired, Unsure>>
  BY DEF Retired, Unsure
<1>s. Unsure \subseteq Retired
  BY DEF Unsure
<1>1. ASSUME NEW p \in Path, Add(p)
      PROVE  Abstract!Next \/ UNCHANGED <<Retired, Unsure, present, shared, clock>>
  <2> DEFINE rec == [path |-> p, at |-> clock]
  <2>1. rec \in Record /\ rec # Junk
    BY <1>0, JunkAssumption DEF Record, TypeOK
  <2>2. lines' = Appended(rec) /\ torn' = FALSE /\ UNCHANGED <<present, shared, clock>>
    BY <1>1 DEF Add
  <2>3. /\ torn => Abstract!Forget(Unsure)
        /\ ~torn => Retired' = Retired \union {rec} /\ Unsure = {} /\ Unsure' = {}
    <3> HIDE DEF rec
    <3> QED BY <1>0, <2>1, <2>2, AppendRetention
  <2>4. CASE torn
    BY <1>s, <2>3, <2>4
  <2>5. CASE ~torn
    <3>1. Abstract!Retire(p)
      BY <2>2, <2>3, <2>5 DEF Abstract!Retire
    <3> QED BY <3>1
  <2> QED BY <2>4, <2>5
<1>2. ASSUME NEW p \in Path, AddTorn(p)
      PROVE  Abstract!Next \/ UNCHANGED <<Retired, Unsure, present, shared, clock>>
  <2> DEFINE rec == [path |-> p, at |-> clock]
  <2>1. rec \in Record /\ rec # Junk
    BY <1>0, JunkAssumption DEF Record, TypeOK
  <2>2. PICK part \in {Junk, rec} : lines' = Appended(part)
    BY <1>2 DEF AddTorn
  <2>3. torn' = TRUE /\ UNCHANGED <<present, shared, clock>>
    BY <1>2 DEF AddTorn
  <2>4. /\ torn => Abstract!Forget(Unsure)
        /\ ~torn => /\ Retired' = Retired \union ({part} \ {Junk}) /\ Unsure = {}
                    /\ Unsure' = ({part} \ {Junk}) \ Retired
    <3> HIDE DEF rec
    <3> QED BY <1>0, <2>1, <2>2, <2>3, AppendRetention
  <2>5. CASE torn
    BY <1>s, <2>4, <2>5
  <2>6. CASE ~torn /\ part = Junk
    BY <2>3, <2>4, <2>6
  <2>7. CASE ~torn /\ part = rec
    <3>1. Retired' = Retired \union {rec} /\ Unsure' = Unsure \union ({rec} \ Retired)
      BY <2>1, <2>4, <2>7
    <3>2. Abstract!RetireInDoubt(p)
      BY <2>3, <3>1 DEF Abstract!RetireInDoubt
    <3> QED BY <3>2
  <2> QED BY <2>2, <2>5, <2>6, <2>7
<1>3. CASE Begin \/ Scan
  BY <1>3, <1>f DEF Begin, Scan
<1>4. CASE RemoveFile
  <2>1. UNCHANGED <<lines, torn, shared, clock>> /\ UNCHANGED <<Retired, Unsure>>
    BY <1>4, <1>f DEF RemoveFile
  <2>2. CASE UNCHANGED present
    BY <2>1, <2>2
  <2>3. CASE present' = present \ {pass.recs[pass.i].path}
    <3> DEFINE rec == pass.recs[pass.i]
    <3>1. rec.at + Retention < clock /\ rec.path \notin shared
      BY <1>4 DEF RemoveFile, IInv, RemoveInv, Expired, Pinned
    <3>2. rec \in Retired
      <4>1. pass.i \in DOMAIN pass.recs /\ Range(pass.recs) = Retired
        BY <1>4 DEF RemoveFile, IInv, RemoveInv, PassInv, PassType, Unlocked
      <4> QED BY <4>1 DEF Range
    <3>3. Abstract!Delete(rec)
      BY <2>1, <2>3, <3>1 DEF Abstract!Delete
    <3> QED BY <3>2, <3>3
  <2> QED BY <1>4, <2>2, <2>3 DEF RemoveFile
<1>5. CASE Write
  <2>1. UNCHANGED <<present, shared, clock>> /\ pass.at = "write"
    BY <1>5 DEF Write
  <2>2. CASE UNCHANGED <<lines, torn>>
    BY <2>1, <2>2, <1>f
  <2>3. CASE lines' = pass.kept /\ torn' = FALSE
    <3>1. /\ Range(pass.kept) \subseteq Retired
          /\ \A rec \in Retired \ Range(pass.kept) : rec.path \notin present
      BY <2>1 DEF IInv, WriteInv
    <3> DEFINE gone == Retired \ Range(pass.kept)
    <3>2. Retired' = Retired \ gone /\ Unsure' = {}
      BY <2>3, <3>1 DEF Retired, Unsure
    <3>3. Abstract!Forget(gone)
      BY <2>1, <3>1, <3>2 DEF Abstract!Forget
    <3> QED BY <3>3
  <2> QED BY <1>5, <2>2, <2>3 DEF Write
<1>6. ASSUME NEW p \in Path, Share(p) \/ Unshare(p)
      PROVE  Abstract!Next
  <2>1. shared' \subseteq Path /\ UNCHANGED <<lines, torn, present, clock>>
    BY <1>0, <1>6 DEF Share, Unshare, TypeOK
  <2> QED BY <2>1, <1>f DEF Abstract!Environment
<1>7. CASE Tick
  BY <1>7, <1>f DEF Tick, Abstract!Environment
<1>8. CASE Crash
  BY <1>8, <1>f DEF Crash
<1>9. CASE UNCHANGED vars
  BY <1>9, <1>f DEF vars
<1> QED BY <1>1, <1>2, <1>3, <1>4, <1>5, <1>6, <1>7, <1>8, <1>9 DEF Next, Pass

\* The file is a faithful memory of what was superseded: a pass deletes nothing that
\* is young or shared, and forgets nothing that is still on disk but what a failed
\* append left in doubt, through failed removals, failed writes, torn lines and crashes
\* at any step.
THEOREM QueueImplementsRetention == Spec => ImplementsRetention
<1> QED
  BY InitRetention, NextRetention, Invariance, PTL DEF Spec, ImplementsRetention, Abstract!Spec
=============================================================================
