------------------------ MODULE ResourceStoreProofs ------------------------
(* What racing downloads and captures keep of the rows, the cache and the   *)
(* shared files: reused files are whole, answers are faithful, a scan that   *)
(* went through leaves only whole files, a version is stored once, and calls *)
(* do not wait for each other in a circle.                                   *)
EXTENDS ResourceStore, FiniteSetTheorems, SequenceTheorems, TLAPS

-----------------------------------------------------------------------------
(* The order of last_seen: which row is the newest of a set of rows.       *)

\* The element of U at the last index of s.
NewestOf(s, U) ==
  LET i == SelectLastInSeq(s, LAMBDA r : r \in U)
  IN  IF i = 0 THEN Null ELSE s[i]

Elems(s) == {s[i] : i \in 1 .. Len(s)}

\* The sequence after UpdateResourceLastSeen of r.
Touched(s, r) == Append(RemoveFirst(s, r), r)

Below == {q \in Nat \X Nat : q[1] < q[2]}

\* Every set of numbers has a least one.
LEMMA Least ==
  ASSUME NEW T \in SUBSET Nat, T # {}
  PROVE  \E n \in T : \A m \in T : n <= m
<1>1. IsWellFoundedOn(Below, Nat)
  BY NatLessThanWellFounded, Zenon DEF Below, OpToRel
<1>2. \E n \in T : \A m \in T : <<m, n>> \notin Below
  BY <1>1, WFMin, Zenon
<1>3. PICK n \in T : \A m \in T : <<m, n>> \notin Below
  BY <1>2
<1>4. \A m \in T : ~(m < n)
  BY <1>3 DEF Below
<1> QED BY <1>4

\* Every set of indexes has a greatest one.
LEMMA Greatest ==
  ASSUME NEW n \in Nat, NEW T \in SUBSET (1 .. n), T # {}
  PROVE  \E i \in T : \A j \in T : j <= i
<1> DEFINE Gap == {n - i : i \in T}
<1>1. Gap \in SUBSET Nat /\ Gap # {}
  <2>1. \A i \in T : i \in 1 .. n
    OBVIOUS
  <2>2. \A i \in T : n - i \in Nat
    BY <2>1
  <2> QED BY <2>2
<1>2. PICK a \in Gap : \A b \in Gap : a <= b
  BY <1>1, Least
<1>3. PICK i \in T : a = n - i
  BY <1>2
<1>4. \A j \in T : n - i <= n - j
  BY <1>2, <1>3
<1> QED BY <1>4

\* The newest is the one at the last index of the set.
LEMMA NewestIs ==
  ASSUME NEW S, NEW s \in Seq(S), NEW U
  PROVE  \/ /\ NewestOf(s, U) = Null
            /\ \A i \in 1 .. Len(s) : s[i] \notin U
         \/ \E i \in 1 .. Len(s) :
              /\ NewestOf(s, U) = s[i] /\ s[i] \in U
              /\ \A j \in 1 .. Len(s) : s[j] \in U => j <= i
<1> DEFINE I == {i \in 1 .. Len(s) : s[i] \in U}
<1>1. Len(s) \in Nat
  OBVIOUS
<1>2. NewestOf(s, U) = IF (IF I # {} THEN Max(I) ELSE 0) = 0
                       THEN Null ELSE s[IF I # {} THEN Max(I) ELSE 0]
  BY DEF NewestOf, SelectLastInSeq
<1>3. CASE I = {}
  BY <1>2, <1>3
<1>4. CASE I # {}
  <2>1. PICK i \in I : \A j \in I : j <= i
    BY <1>1, <1>4, Greatest
  <2>2. Max(I) \in I /\ \A j \in I : j <= Max(I)
    BY <2>1 DEF Max
  <2>3. Max(I) # 0 /\ NewestOf(s, U) = s[Max(I)]
    BY <1>2, <1>4, <2>2
  <2> QED BY <2>2, <2>3
<1> QED BY <1>3, <1>4

\* It is a member of the set, and there is one if the set is in the sequence.
LEMMA NewestIn ==
  ASSUME NEW S, NEW s \in Seq(S), NEW U, Null \notin S
  PROVE  /\ NewestOf(s, U) = Null \/ (NewestOf(s, U) \in U /\ NewestOf(s, U) \in S)
         /\ \A i \in 1 .. Len(s) : s[i] \in U => NewestOf(s, U) # Null
<1>1. \A i \in 1 .. Len(s) : s[i] \in S
  BY ElementOfSeq
<1>2. CASE NewestOf(s, U) = Null /\ \A i \in 1 .. Len(s) : s[i] \notin U
  BY <1>2
<1>3. CASE \E i \in 1 .. Len(s) : NewestOf(s, U) = s[i] /\ s[i] \in U
  <2>1. PICK i \in 1 .. Len(s) : NewestOf(s, U) = s[i] /\ s[i] \in U
    BY <1>3
  <2>2. NewestOf(s, U) \in U /\ NewestOf(s, U) \in S
    BY <1>1, <2>1
  <2> QED BY <2>2
<1> QED BY <1>2, <1>3, NewestIs

\* The last index decides.
LEMMA NewestByIndex ==
  ASSUME NEW S, NEW s \in Seq(S), NEW U, NEW i \in 1 .. Len(s), s[i] \in U,
         \A j \in 1 .. Len(s) : s[j] \in U => j <= i
  PROVE  NewestOf(s, U) = s[i]
<1>1. PICK k \in 1 .. Len(s) :
        /\ NewestOf(s, U) = s[k] /\ s[k] \in U
        /\ \A j \in 1 .. Len(s) : s[j] \in U => j <= k
  BY NewestIs
<1>2. k <= i /\ i <= k
  BY <1>1
<1>3. k = i
  BY <1>2
<1> QED BY <1>1, <1>3

\* A row that is appended is the newest of the sets it is in, and changes no other.
LEMMA NewestAppended ==
  ASSUME NEW S, NEW s \in Seq(S), NEW r \in S, NEW U
  PROVE  NewestOf(Append(s, r), U) = IF r \in U THEN r ELSE NewestOf(s, U)
<1> DEFINE t == Append(s, r)
<1>1. /\ t \in Seq(S) /\ Len(t) = Len(s) + 1 /\ Len(s) \in Nat /\ t[Len(s) + 1] = r
      /\ \A i \in 1 .. Len(s) : t[i] = s[i]
  BY AppendProperties, LenProperties
<1> HIDE DEF t
<1>2. CASE r \in U
  <2>1. Len(t) \in 1 .. Len(t) /\ t[Len(t)] = r /\ \A j \in 1 .. Len(t) : j <= Len(t)
    BY <1>1
  <2>2. NewestOf(t, U) = t[Len(t)]
    BY <1>1, <1>2, <2>1, NewestByIndex
  <2> QED BY <1>2, <2>1, <2>2 DEF t
<1>3. CASE r \notin U
  <2>1. \A j \in 1 .. Len(t) : t[j] \in U => j \in 1 .. Len(s) /\ s[j] \in U
    BY <1>1, <1>3
  <2>2. CASE NewestOf(s, U) = Null /\ \A i \in 1 .. Len(s) : s[i] \notin U
    <3>1. \A j \in 1 .. Len(t) : t[j] \notin U
      BY <2>1, <2>2
    <3>2. NewestOf(t, U) = Null
      BY <1>1, <3>1, NewestIs
    <3> QED BY <1>3, <2>2, <3>2 DEF t
  <2>3. CASE \E i \in 1 .. Len(s) :
               /\ NewestOf(s, U) = s[i] /\ s[i] \in U
               /\ \A j \in 1 .. Len(s) : s[j] \in U => j <= i
    <3>1. PICK i \in 1 .. Len(s) :
               /\ NewestOf(s, U) = s[i] /\ s[i] \in U
               /\ \A j \in 1 .. Len(s) : s[j] \in U => j <= i
      BY <2>3
    <3>2. i \in 1 .. Len(t) /\ t[i] = s[i]
      BY <1>1
    <3>3. NewestOf(t, U) = t[i]
      BY <1>1, <2>1, <3>1, <3>2, NewestByIndex
    <3> QED BY <1>3, <3>1, <3>2, <3>3 DEF t
  <2> QED BY <2>2, <2>3, NewestIs
<1> QED BY <1>2, <1>3

\* Taking out one occurrence of a row leaves the others in their order.
LEMMA RemoveFirstIs ==
  ASSUME NEW S, NEW s \in Seq(S), NEW r
  PROVE  /\ RemoveFirst(s, r) \in Seq(S)
         /\ \/ RemoveFirst(s, r) = s
            \/ \E k \in 1 .. Len(s) :
                 /\ s[k] = r /\ Len(RemoveFirst(s, r)) = Len(s) - 1
                 /\ \A i \in 1 .. (k - 1) : RemoveFirst(s, r)[i] = s[i]
                 /\ \A i \in k .. (Len(s) - 1) : RemoveFirst(s, r)[i] = s[i + 1]
<1> DEFINE I == {i \in 1 .. Len(s) : s[i] = r}
<1>1. CASE I = {}
  BY <1>1 DEF RemoveFirst
<1>2. CASE I # {}
  <2> DEFINE k == Min(I)
  <2>1. k \in I
    <3>1. I \in SUBSET Nat
      OBVIOUS
    <3>2. PICK n \in I : \A m \in I : n <= m
      BY <1>2, <3>1, Least
    <3> QED BY <3>2 DEF Min
  <2>2. RemoveFirst(s, r) = RemoveAt(s, k)
    BY <1>2 DEF RemoveFirst, SelectInSeq
  <2> HIDE DEF k
  <2>3. k \in 1 .. Len(s) /\ s[k] = r /\ Len(s) \in Nat
    BY <2>1
  <2> DEFINE a == SubSeq(s, 1, k - 1)
             b == SubSeq(s, k + 1, Len(s))
  <2>4. /\ a \in Seq(S) /\ Len(a) = k - 1
        /\ \A i \in 1 .. (k - 1) : a[i] = s[i]
    <3>1. \A i \in 1 .. (k - 1) : s[i] \in S
      BY <2>3, ElementOfSeq
    <3> QED BY <2>3, <3>1, SubSeqProperties
  <2>5. /\ b \in Seq(S) /\ Len(b) = Len(s) - k
        /\ \A i \in 1 .. (Len(s) - k) : b[i] = s[k + i]
    <3>1. \A i \in (k + 1) .. Len(s) : s[i] \in S
      BY <2>3, ElementOfSeq
    <3> QED BY <2>3, <3>1, SubSeqProperties
  <2>6. RemoveFirst(s, r) = a \o b
    BY <2>2 DEF RemoveAt
  <2> HIDE DEF a, b
  <2>7. /\ a \o b \in Seq(S) /\ Len(a \o b) = Len(a) + Len(b)
        /\ \A i \in 1 .. (Len(a) + Len(b)) :
             (a \o b)[i] = IF i <= Len(a) THEN a[i] ELSE b[i - Len(a)]
    BY <2>4, <2>5, ConcatProperties
  <2>8. Len(a) + Len(b) = Len(s) - 1
    BY <2>3, <2>4, <2>5
  <2>9. \A i \in 1 .. (k - 1) : (a \o b)[i] = s[i]
    BY <2>3, <2>4, <2>7, <2>8
  <2>10. ASSUME NEW i \in k .. (Len(s) - 1)
         PROVE  (a \o b)[i] = s[i + 1]
    <3>1. i \in 1 .. (Len(a) + Len(b)) /\ ~(i <= Len(a)) /\ i - Len(a) \in 1 .. (Len(s) - k)
          /\ k + (i - Len(a)) = i + 1
      BY <2>3, <2>4, <2>8
    <3> QED BY <2>5, <2>7, <3>1
  <2> QED BY <2>3, <2>6, <2>7, <2>8, <2>9, <2>10
<1> QED BY <1>1, <1>2

\* Touching a row changes the newest of the sets it is in, and of no other.
LEMMA NewestTouched ==
  ASSUME NEW S, NEW s \in Seq(S), NEW r \in S, NEW U
  PROVE  /\ Touched(s, r) \in Seq(S)
         /\ NewestOf(Touched(s, r), U) = IF r \in U THEN r ELSE NewestOf(s, U)
<1> DEFINE t == RemoveFirst(s, r)
<1>1. t \in Seq(S)
  BY RemoveFirstIs
<1>2. Touched(s, r) \in Seq(S)
  BY <1>1, AppendProperties DEF Touched
<1>3. NewestOf(Touched(s, r), U) = IF r \in U THEN r ELSE NewestOf(t, U)
  BY <1>1, NewestAppended DEF Touched
<1>4. ASSUME r \notin U
      PROVE  NewestOf(t, U) = NewestOf(s, U)
  <2>1. CASE t = s
    BY <2>1
  <2>2. CASE \E k \in 1 .. Len(s) :
               /\ s[k] = r /\ Len(t) = Len(s) - 1
               /\ \A i \in 1 .. (k - 1) : t[i] = s[i]
               /\ \A i \in k .. (Len(s) - 1) : t[i] = s[i + 1]
    <3>1. PICK k \in 1 .. Len(s) :
               /\ s[k] = r /\ Len(t) = Len(s) - 1
               /\ \A i \in 1 .. (k - 1) : t[i] = s[i]
               /\ \A i \in k .. (Len(s) - 1) : t[i] = s[i + 1]
      BY <2>2
    <3> HIDE DEF t
    <3>2. Len(s) \in Nat
      BY LenProperties
    <3>3. CASE NewestOf(s, U) = Null /\ \A i \in 1 .. Len(s) : s[i] \notin U
      <4>1. ASSUME NEW j \in 1 .. Len(t) PROVE t[j] \notin U
        <5>1. CASE j < k
          BY <3>1, <3>2, <3>3, <5>1
        <5>2. CASE ~(j < k)
          <6>1. j \in k .. (Len(s) - 1) /\ j + 1 \in 1 .. Len(s)
            BY <3>1, <3>2, <5>2
          <6> QED BY <3>1, <3>3, <6>1
        <5> QED BY <5>1, <5>2
      <4> QED BY <1>1, <3>3, <4>1, NewestIs
    <3>4. CASE \E i \in 1 .. Len(s) :
                 /\ NewestOf(s, U) = s[i] /\ s[i] \in U
                 /\ \A j \in 1 .. Len(s) : s[j] \in U => j <= i
      <4>1. PICK i \in 1 .. Len(s) :
                 /\ NewestOf(s, U) = s[i] /\ s[i] \in U
                 /\ \A j \in 1 .. Len(s) : s[j] \in U => j <= i
        BY <3>4
      <4>2. i # k
        BY <1>4, <3>1, <4>1
      <4> DEFINE n == IF i < k THEN i ELSE i - 1
      <4>3. n \in 1 .. Len(t) /\ t[n] = s[i]
        <5>1. CASE i < k
          BY <3>1, <3>2, <5>1
        <5>2. CASE ~(i < k)
          <6>1. n = i - 1 /\ n \in k .. (Len(s) - 1) /\ n + 1 = i
            BY <3>2, <4>2, <5>2
          <6> QED BY <3>1, <3>2, <6>1
        <5> QED BY <5>1, <5>2
      <4>4. ASSUME NEW j \in 1 .. Len(t), t[j] \in U PROVE j <= n
        <5>1. CASE j < k
          <6>1. j \in 1 .. Len(s) /\ s[j] \in U
            BY <3>1, <3>2, <4>4, <5>1
          <6> QED BY <3>2, <4>1, <5>1, <6>1
        <5>2. CASE ~(j < k)
          <6>1. j \in k .. (Len(s) - 1) /\ j + 1 \in 1 .. Len(s)
            BY <3>1, <3>2, <5>2
          <6>2. s[j + 1] \in U
            BY <3>1, <4>4, <6>1
          <6>3. j + 1 <= i
            BY <4>1, <6>1, <6>2
          <6> QED BY <3>2, <5>2, <6>3
        <5> QED BY <5>1, <5>2
      <4> HIDE DEF n
      <4>5. NewestOf(t, U) = t[n]
        <5>1. t[n] \in U
          BY <4>1, <4>3
        <5> QED BY <1>1, <4>3, <4>4, <5>1, NewestByIndex
      <4> QED BY <4>1, <4>3, <4>5
    <3> QED BY <3>3, <3>4, NewestIs
  <2> QED BY <2>1, <2>2, RemoveFirstIs
<1> QED BY <1>2, <1>3, <1>4

\* A touched sequence has all the rows it had, and the one that was touched.
LEMMA TouchedHas ==
  ASSUME NEW S, NEW s \in Seq(S), NEW r \in S
  PROVE  \A x \in Elems(s) \union {r} : x \in Elems(Touched(s, r))
<1> SUFFICES ASSUME NEW x, x = r \/ \E i \in 1 .. Len(s) : s[i] = x
             PROVE  \E i \in 1 .. Len(Touched(s, r)) : Touched(s, r)[i] = x
  BY DEF Elems
<1> DEFINE t == RemoveFirst(s, r)
           v == Touched(s, r)
<1>1. t \in Seq(S) /\ Len(t) \in Nat /\ Len(s) \in Nat
  BY RemoveFirstIs, LenProperties
<1>2. /\ Len(v) = Len(t) + 1 /\ v[Len(t) + 1] = r
      /\ \A i \in 1 .. Len(t) : v[i] = t[i]
  BY <1>1, AppendProperties DEF Touched
<1> HIDE DEF v
<1>3. CASE x = r
  BY <1>1, <1>2, <1>3 DEF v
<1>4. CASE x # r
  <2>1. \E i \in 1 .. Len(t) : t[i] = x
    <3>1. PICK j \in 1 .. Len(s) : s[j] = x
      BY <1>4
    <3>2. CASE t = s
      BY <3>1, <3>2
    <3>3. CASE \E k \in 1 .. Len(s) :
                 /\ s[k] = r /\ Len(t) = Len(s) - 1
                 /\ \A i \in 1 .. (k - 1) : t[i] = s[i]
                 /\ \A i \in k .. (Len(s) - 1) : t[i] = s[i + 1]
      <4>1. PICK k \in 1 .. Len(s) :
                 /\ s[k] = r /\ Len(t) = Len(s) - 1
                 /\ \A i \in 1 .. (k - 1) : t[i] = s[i]
                 /\ \A i \in k .. (Len(s) - 1) : t[i] = s[i + 1]
        BY <3>3
      <4> HIDE DEF t
      <4>2. CASE j < k
        <5>1. j \in 1 .. (k - 1) /\ j \in 1 .. Len(t)
          BY <1>1, <4>1, <4>2
        <5>2. t[j] = s[j]
          BY <4>1, <5>1
        <5> QED BY <3>1, <5>1, <5>2
      <4>3. CASE k < j
        <5>1. j - 1 \in k .. (Len(s) - 1) /\ j - 1 \in 1 .. Len(t) /\ (j - 1) + 1 = j
          BY <1>1, <3>1, <4>1, <4>3
        <5>2. t[j - 1] = s[(j - 1) + 1]
          BY <4>1, <5>1
        <5> QED BY <3>1, <5>1, <5>2
      <4>4. j # k
        BY <1>4, <3>1, <4>1
      <4> QED BY <4>2, <4>3, <4>4
    <3> QED BY <3>2, <3>3, RemoveFirstIs
  <2>2. PICK i \in 1 .. Len(t) : t[i] = x
    BY <2>1
  <2>3. i \in 1 .. Len(v) /\ v[i] = x
    BY <1>1, <1>2, <2>2
  <2> QED BY <2>3 DEF v
<1> QED BY <1>3, <1>4

\* Fewer rows with the newest of them have the same newest.
LEMMA NewestOfLess ==
  ASSUME NEW S, NEW s \in Seq(S), NEW U, NEW V, V \subseteq U, Null \notin V,
         NewestOf(s, U) \in V
  PROVE  NewestOf(s, V) = NewestOf(s, U)
<1>1. PICK i \in 1 .. Len(s) :
        /\ NewestOf(s, U) = s[i] /\ s[i] \in U
        /\ \A j \in 1 .. Len(s) : s[j] \in U => j <= i
  BY NewestIs
<1>2. \A j \in 1 .. Len(s) : s[j] \in V => j <= i
  BY <1>1
<1>3. NewestOf(s, V) = s[i]
  BY <1>1, <1>2, NewestByIndex
<1> QED BY <1>1, <1>3

-----------------------------------------------------------------------------
(* What a call knows.                                                      *)

\* A call with a validated body in its hands, not yet answered; one that looks
\* at its URL's rows or will, which only calls for non-frames do.
Holds(o) == pc[o] \in {"match", "byHash", "stat", "rename", "write", "writing", "insert"}
Asks(o) == pc[o] \in {"acquire", "fetch", "revalidated", "fallback", "match"}

\* The types, with what the cases of the files, the order and the bounds need.
Types ==
  /\ TypeOK
  /\ files \in [Content -> {"none", "full", "polluted"} \union Op]
  /\ scan \in [at : {"off", "check", "remove"}, left : SUBSET Content,
               file : Content \union {Null}]
  /\ order \in Seq(Op)
  /\ changes \in Nat /\ late \in Nat

\* The lock on the URL.
Locked == \A p, q \in Op : InFlight(p) /\ InFlight(q) /\ url[p] = url[q] => p = q

\* A row exists once its call has returned, and the order has all of them.
Table ==
  /\ \A r \in Op : rows[r].state # "absent" =>
       /\ pc[r] = "done" /\ rows[r].url \in Url /\ rows[r].hash \in Content
       /\ \E i \in 1 .. Len(order) : order[i] = r
  /\ \A s \in Seeded : rows[s].state # "absent"

\* An entry is a row of its URL, and its validator stands for that row's body.
Stands(e, u) ==
  e.row # Null => /\ rows[e.row].state # "absent" /\ rows[e.row].url = u
                  /\ e.tag # Null => rows[e.row].hash = e.tag

\* What a call has in its variables: the entry of its URL, the body it was served and
\* a validator that stands for it.
Call(o) ==
  /\ InFlight(o) => url[o] \in Url /\ Stands(local[o].cached, url[o])
  /\ Asks(o) => url[o] \notin FrameUrl
  /\ pc[o] \in {"idle", "acquire", "fetch", "fallback"} => body[o] = Null
  /\ Holds(o) \/ pc[o] = "revalidated" =>
       body[o] \in Content /\ local[o].meta.tag \in {body[o], Null}
  /\ pc[o] = "revalidated" => local[o].cached.tag = body[o]
  /\ ~InFlight(o) => local[o] = NoLocal

\* An answer is a row of the URL that was asked for, with the body that was served.
Answered ==
  \A o \in Op : result[o] # Null =>
    /\ pc[o] = "done"
    /\ rows[result[o]].state # "absent" /\ rows[result[o]].url = url[o]
    /\ body[o] # Null => rows[result[o]].hash = body[o]

Known == (\A u \in Url : Stands(cache[u], u)) /\ (\A o \in Op : Call(o)) /\ Answered

-----------------------------------------------------------------------------
(* Files.                                                                  *)

\* The file is whole, or there is a reason for it not to be.
Excused(c) ==
  \/ files[c] = "full" \/ c \in cuts
  \/ \E o \in Op : pc[o] = "writing" /\ body[o] = c
  \/ \E s \in Seeded : rows[s].hash = c /\ (Usable(s) \/ files[c] = "polluted")

\* A file that is being written has its writer, and a call links only a file that is
\* whole or excused.
Writers ==
  /\ \A c \in Content :
       /\ files[c] \in Op => c \in cuts \/ (pc[files[c]] = "writing" /\ body[files[c]] = c)
       /\ files[c] = "polluted" => \E s \in Seeded : rows[s].hash = c
  /\ \A o \in Op : /\ pc[o] = "writing" => files[body[o]] \in Op \union {"full"}
                   /\ pc[o] = "insert" => Excused(body[o])
  /\ SharedFileWhole

\* The scan runs alone; what it has been through is quarantined or whole.
Scanning ==
  scan.at # "off" =>
    /\ Quiet
    /\ \A r \in Op : Usable(r) => rows[r].hash \in scan.left \/ files[rows[r].hash] = "full"
    /\ scan.at = "remove" =>
         scan.file \in Content /\ \A r \in Op : Usable(r) => rows[r].hash # scan.file

\* The inductive invariant.
IInv == Types /\ Locked /\ Table /\ Known /\ Writers /\ Scanning

\* The rows of a URL that may be reused.
Rows(u) == {r \in Op : Usable(r) /\ rows[r].url = u}

\* Touching a row moves it to the end of the order.
LEMMA TouchIs == \A r : Touch(r) <=> order' = Touched(order, r)
  BY DEF Touch, Touched

\* The newest row of a URL is the newest of its reusable rows.
LEMMA NewestOfRows ==
  ASSUME order \in Seq(Op), NEW u
  PROVE  Newest(u) = NewestOf(order, Rows(u))
<1>1. \A i \in 1 .. Len(order) :
        order[i] \in Rows(u) <=> (Usable(order[i]) /\ rows[order[i]].url = u)
  BY ElementOfSeq DEF Rows
<1>2. {i \in 1 .. Len(order) : order[i] \in Rows(u)}
      = {i \in 1 .. Len(order) : Usable(order[i]) /\ rows[order[i]].url = u}
  BY <1>1
<1> QED BY <1>2, Zenon DEF Newest, NewestOf, SelectLastInSeq

\* The newest row of a URL, if there is one, is a reusable row of that URL.
LEMMA NewestUsable ==
  ASSUME order \in Seq(Op), NEW u
  PROVE  Newest(u) = Null \/ (Newest(u) \in Op /\ Usable(Newest(u)) /\ rows[Newest(u)].url = u)
<1>1. Null \notin Op
  BY NullAssumption
<1>2. NewestOf(order, Rows(u)) = Null \/ NewestOf(order, Rows(u)) \in Rows(u)
  BY <1>1, NewestIn, Zenon
<1> QED BY <1>2, NewestOfRows DEF Rows

\* The types, in parts.
CallTypes ==
  /\ pc \in [Op -> Label]
  /\ url \in [Op -> Url \union {Null}]
  /\ body \in [Op -> Content \union {Null}]
  /\ local \in [Op -> Local]
  /\ result \in [Op -> Op \union {Null}]

\* Temporary files belong to calls that are downloading or storing.
TmpTypes == tmp \subseteq {o \in Op : pc[o] \notin {"idle", "acquire", "fetch", "done"}}

StoreTypes ==
  /\ cache \in [Url -> Entry] /\ rows \in [Op -> Row]
  /\ files \in [Content -> {"none", "full", "polluted"} \union Op]
  /\ origin \in [Url -> Content] /\ cuts \subseteq Content
  /\ scan \in [at : {"off", "check", "remove"}, left : SUBSET Content,
               file : Content \union {Null}]
  /\ changes \in Nat /\ late \in Nat

\* The types of a state are those of the calls, their temporary files and the store.
LEMMA TypesAre == Types <=> CallTypes /\ TmpTypes /\ StoreTypes /\ order \in Seq(Op)
  BY DEF Types, TypeOK, CallTypes, TmpTypes, StoreTypes

\* The same of the next state.
LEMMA TypesAreNext ==
  Types' <=> CallTypes' /\ TmpTypes' /\ StoreTypes' /\ order' \in Seq(Op)
  BY DEF Types, TypeOK, CallTypes, TmpTypes, StoreTypes

\* The empty records have their types.
LEMMA NoneTyped == NoLocal \in Local /\ NoEntry \in Entry /\ NoRow \in Row /\ NoMeta \in Meta
  BY BoundsAssumption DEF NoLocal, NoEntry, NoRow, NoMeta, Local, Entry, Row, Meta

\* A call that returns leaves the types of all calls.
LEMMA ReturnTyped ==
  ASSUME CallTypes, TmpTypes, NEW o \in Op, NEW r \in Op \union {Null}, Return(o, r),
         UNCHANGED body, UNCHANGED url \/ url' \in [Op -> Url \union {Null}]
  PROVE  CallTypes' /\ TmpTypes'
<1>1. pc' \in [Op -> Label]
  BY DEF CallTypes, Return, Goto, Label
<1>2. local' \in [Op -> Local]
  BY NoneTyped DEF CallTypes, Return
<1>3. result' \in [Op -> Op \union {Null}]
  BY DEF CallTypes, Return
<1>4. TmpTypes'
  BY DEF CallTypes, TmpTypes, Return, Goto, DropTmp
<1> QED BY <1>1, <1>2, <1>3, <1>4 DEF CallTypes

\* An entry that is remembered is a typed one.
LEMMA RememberTyped ==
  ASSUME StoreTypes, NEW u \in Url, NEW r \in Op \union {Null}, NEW m \in Meta, Remember(u, r, m)
  PROVE  cache' \in [Url -> Entry]
<1>1. [row |-> r, tag |-> m.tag, fresh |-> m.fresh] \in Entry
  BY DEF Meta, Entry
<1> QED BY <1>1 DEF Remember, StoreTypes

\* What a call keeps in its variables has its type.
LEMMA LocalTyped ==
  ASSUME CallTypes, NEW o \in Op
  PROVE  /\ local[o] \in Local /\ local[o].meta \in Meta /\ local[o].cached \in Entry
         /\ local[o].cached.row \in Op \union {Null} /\ local[o].attempt \in 0 .. Retries
  BY DEF CallTypes, Local, Entry

\* Loading an entry into a call keeps the types.
LEMMA LoadTyped ==
  ASSUME CallTypes, NEW o \in Op, NEW e \in Entry
  PROVE  [local EXCEPT ![o].cached = e] \in [Op -> Local]
<1>1. [local[o] EXCEPT !.cached = e] \in Local
  BY LocalTyped DEF Local
<1> QED BY <1>1 DEF CallTypes

\* Taking the validators of an answer keeps the types.
LEMMA MetaTyped ==
  ASSUME CallTypes, NEW o \in Op, NEW t \in Content \union {Null}, NEW f \in BOOLEAN
  PROVE  [local EXCEPT ![o].meta = [tag |-> t, fresh |-> f]] \in [Op -> Local]
<1>1. [local[o] EXCEPT !.meta = [tag |-> t, fresh |-> f]] \in Local
  BY LocalTyped DEF Local, Meta
<1> QED BY <1>1 DEF CallTypes

\* An attempt that is not the last can be counted.
LEMMA AttemptTyped ==
  ASSUME CallTypes, NEW o \in Op, local[o].attempt < Retries
  PROVE  [local EXCEPT ![o].attempt = @ + 1] \in [Op -> Local]
<1>1. local[o].attempt + 1 \in 0 .. Retries
  BY LocalTyped, BoundsAssumption
<1>2. [local[o] EXCEPT !.attempt = @ + 1] \in Local
  BY <1>1, LocalTyped DEF Local
<1> QED BY <1>2 DEF CallTypes

\* The order remains a sequence of calls when a row is touched.
LEMMA OrderTyped ==
  ASSUME order \in Seq(Op), NEW r \in Op, Touch(r)
  PROVE  order' \in Seq(Op)
  BY TouchIs, NewestTouched

\* The rows a call finds for a URL are rows of the table.
LEMMA Rowed ==
  ASSUME StoreTypes, order \in Seq(Op), NEW u
  PROVE  /\ Newest(u) \in Op \union {Null} /\ \A r \in Previous(u) : r \in Op
  BY NewestUsable DEF Previous, Usable

\* No row has the null number.
LEMMA UsableTyped == \A r : Usable(r) => r # Null
  BY DEF Usable

\* Every step keeps the types.
LEMMA TypesKept ==
  ASSUME IInv, [Next]_vars
  PROVE  Types'
<1>0. CallTypes /\ TmpTypes /\ StoreTypes /\ order \in Seq(Op)
  BY TypesAre DEF IInv
<1> USE <1>0 DEF Succeeds, Fails
<1>1. ASSUME NEW o \in Op, NEW u \in Url, Begin(o, u)
      PROVE  Types'
  <2>1. UNCHANGED <<rows, files, origin, cuts, scan, changes, late, order, body>>
        /\ url' = [url EXCEPT ![o] = u]
    BY <1>1 DEF Begin
  <2>2. cache[u] \in Entry /\ cache[u].row \in Op \union {Null}
    BY DEF StoreTypes, Entry
  <2>3. url' \in [Op -> Url \union {Null}]
    BY <2>1 DEF CallTypes
  <2>4. CASE Return(o, cache[u].row) /\ UNCHANGED cache
    BY <2>1, <2>2, <2>3, <2>4, ReturnTyped, TypesAreNext DEF StoreTypes
  <2>5. CASE /\ Load(o, cache[u]) /\ UNCHANGED <<result, tmp>>
             /\ cache' = [cache EXCEPT ![u] = NoEntry] \/ UNCHANGED cache
    <3>1. cache' \in [Url -> Entry]
      BY <2>5, NoneTyped DEF StoreTypes
    <3>2. local' \in [Op -> Local]
      BY <2>2, <2>5, LoadTyped DEF Load
    <3>3. pc' = [pc EXCEPT ![o] = "acquire"] /\ pc[o] = "idle"
      BY <1>1, <2>5 DEF Begin, Load, Goto
    <3>4. CallTypes'
      BY <2>1, <2>3, <2>5, <3>2, <3>3 DEF CallTypes, Label
    <3>5. TmpTypes'
      BY <2>5, <3>3 DEF TmpTypes, CallTypes
    <3> QED BY <2>1, <3>1, <3>4, <3>5, TypesAreNext DEF StoreTypes
  <2> QED BY <1>1, <2>4, <2>5 DEF Begin
<1>2. ASSUME NEW o \in Op, NEW u \in Url, NEW c \in Content, BeginInline(o, u, c)
      PROVE  Types'
  BY <1>2, TypesAreNext DEF BeginInline, Goto, CallTypes, TmpTypes, StoreTypes, Label, diskVars,
      boundVars
<1>3. ASSUME NEW o \in Op, Acquire(o)
      PROVE  Types'
  BY <1>3, TypesAreNext
  DEF Acquire, Goto, CallTypes, TmpTypes, StoreTypes, Label, diskVars, boundVars
<1>4. ASSUME NEW o \in Op, Fetch(o)
      PROVE  Types'
  <2>1. /\ UNCHANGED <<url, result, rows, order, files, cache, origin, scan, cuts, boundVars>>
        /\ pc[o] = "fetch"
    BY <1>4 DEF Fetch
  <2>2. StoreTypes' /\ order' \in Seq(Op)
    BY <2>1 DEF StoreTypes, boundVars
  <2>3. CASE Respond200(o)
    <3>1. PICK t \in {origin[url[o]], Null}, f \in BOOLEAN :
            local' = [local EXCEPT ![o].meta = [tag |-> t, fresh |-> f]]
      BY <2>3 DEF Respond200
    <3>2. body'[o] = origin[url[o]] /\ body' = [body EXCEPT ![o] = origin[url[o]]]
          /\ pc' = [pc EXCEPT ![o] = "match"]
      BY <2>3 DEF Respond200, Goto, CallTypes
    <3>3. origin[url[o]] \in Content
      BY <2>1 DEF CallTypes, StoreTypes, IInv, Known, Call, InFlight
    <3>4. local' \in [Op -> Local]
      BY <3>1, <3>3, MetaTyped
    <3>5. CallTypes'
      BY <2>1, <3>2, <3>3, <3>4 DEF CallTypes, Label
    <3>6. TmpTypes'
      BY <2>1, <2>3, <3>2 DEF TmpTypes, CallTypes, Respond200
    <3> QED BY <2>2, <3>5, <3>6, TypesAreNext
  <2>4. CASE Respond304(o)
    <3>1. PICK f \in BOOLEAN :
            local' = [local EXCEPT ![o].meta = [tag |-> origin[url[o]], fresh |-> f]]
      BY <2>4 DEF Respond304
    <3>2. body' = [body EXCEPT ![o] = origin[url[o]]] /\ UNCHANGED tmp
          /\ pc' = [pc EXCEPT ![o] = "revalidated"]
      BY <2>4 DEF Respond304, Goto
    <3>3. origin[url[o]] \in Content
      BY <2>1 DEF CallTypes, StoreTypes, IInv, Known, Call, InFlight
    <3>4. local' \in [Op -> Local]
      BY <3>1, <3>3, MetaTyped
    <3>5. CallTypes'
      BY <2>1, <3>2, <3>3, <3>4 DEF CallTypes, Label
    <3>6. TmpTypes'
      BY <2>1, <3>2 DEF TmpTypes, CallTypes
    <3> QED BY <2>2, <3>5, <3>6, TypesAreNext
  <2>5. CASE RespondError(o)
    <3>1. UNCHANGED <<body, tmp>> /\ \E l \in {"acquire", "fallback"} : pc' = [pc EXCEPT ![o] = l]
      BY <2>5 DEF RespondError, Goto
    <3>2. local' \in [Op -> Local]
      BY <2>5, AttemptTyped DEF RespondError, CallTypes
    <3>3. CallTypes'
      BY <2>1, <3>1, <3>2 DEF CallTypes, Label
    <3>4. TmpTypes'
      BY <2>1, <3>1 DEF TmpTypes, CallTypes
    <3> QED BY <2>2, <3>3, <3>4, TypesAreNext
  <2> QED BY <1>4, <2>3, <2>4, <2>5 DEF Fetch
<1>5. ASSUME NEW o \in Op, Revalidate(o)
      PROVE  Types'
  <2>1. UNCHANGED <<url, body, rows, files, origin, cuts, scan, changes, late, order>>
    BY <1>5 DEF Revalidate
  <2>2. local[o].meta \in Meta /\ local[o].cached.row \in Op \union {Null}
    BY LocalTyped
  <2>3. url[o] \in Url
    BY <1>5 DEF Revalidate, IInv, Known, Call, InFlight
  <2>4. cache' \in [Url -> Entry]
    BY <1>5, <2>2, <2>3, RememberTyped DEF Revalidate, StoreTypes
  <2>5. CallTypes' /\ TmpTypes'
    BY <1>5, <2>1, <2>2, ReturnTyped DEF Revalidate
  <2> QED BY <2>1, <2>4, <2>5, TypesAreNext DEF StoreTypes
<1>6. ASSUME NEW o \in Op, Fallback(o)
      PROVE  Types'
  <2>1. UNCHANGED <<url, body, rows, files, origin, cuts, scan, changes, late>>
    BY <1>6 DEF Fallback
  <2>2. url[o] \in Url
    BY <1>6 DEF Fallback, IInv, Known, Call, InFlight
  <2>3. CASE \E r \in Previous(url[o]) :
               Touch(r) /\ Remember(url[o], r, NoMeta) /\ Return(o, r)
    <3>1. PICK r \in Previous(url[o]) :
               Touch(r) /\ Remember(url[o], r, NoMeta) /\ Return(o, r)
      BY <2>3
    <3>2. r \in Op
      BY Rowed
    <3>3. cache' \in [Url -> Entry]
      BY <2>2, <3>1, <3>2, RememberTyped, NoneTyped
    <3>4. CallTypes' /\ TmpTypes'
      BY <2>1, <3>1, <3>2, ReturnTyped
    <3>5. order' \in Seq(Op)
      BY <3>1, <3>2, OrderTyped
    <3> QED BY <2>1, <3>3, <3>4, <3>5, TypesAreNext DEF StoreTypes
  <2>4. CASE Return(o, Null) /\ UNCHANGED <<order, cache>>
    BY <2>1, <2>4, ReturnTyped, TypesAreNext DEF StoreTypes
  <2> QED BY <1>6, <2>3, <2>4 DEF Fallback
<1>7. ASSUME NEW o \in Op, Match(o)
      PROVE  Types'
  <2>1. UNCHANGED <<url, body, rows, files, origin, cuts, scan, changes, late>>
    BY <1>7 DEF Match
  <2>2. url[o] \in Url
    BY <1>7 DEF Match, IInv, Known, Call, InFlight
  <2> DEFINE r == IF local[o].cached.row \in Same(o) THEN local[o].cached.row
                  ELSE Newest(url[o])
  <2>3. CASE Same(o) # {} /\ Touch(r) /\ Remember(url[o], r, local[o].meta) /\ Return(o, r)
    <3>1. r \in Op
      BY <2>3, Rowed, LocalTyped DEF Same, Usable
    <3> HIDE DEF r
    <3>2. cache' \in [Url -> Entry]
      BY <2>2, <2>3, <3>1, RememberTyped, LocalTyped
    <3>3. CallTypes' /\ TmpTypes'
      BY <2>1, <2>3, <3>1, ReturnTyped
    <3>4. order' \in Seq(Op)
      BY <2>3, <3>1, OrderTyped
    <3> QED BY <2>1, <3>2, <3>3, <3>4, TypesAreNext DEF StoreTypes
  <2>4. CASE Goto(o, "byHash") /\ UNCHANGED <<local, result, tmp, order, cache>>
    BY <1>7, <2>1, <2>4, TypesAreNext DEF Match, Goto, CallTypes, TmpTypes, StoreTypes, Label
  <2>5. CASE Return(o, Null) /\ UNCHANGED <<order, cache>>
    BY <2>1, <2>5, ReturnTyped, TypesAreNext DEF StoreTypes
  <2> QED BY <1>7, <2>3, <2>4, <2>5 DEF Match
<1>8. ASSUME NEW o \in Op, ByHash(o)
      PROVE  Types'
  <2>1. UNCHANGED <<url, body, rows, files, cache, origin, cuts, scan, changes, late, order>>
        /\ pc[o] = "byHash"
    BY <1>8 DEF ByHash
  <2>2. CASE /\ UNCHANGED <<local, result, tmp>>
             /\ \E l \in {"insert", "stat"} : pc' = [pc EXCEPT ![o] = l]
    BY <2>1, <2>2, TypesAreNext DEF CallTypes, TmpTypes, StoreTypes, Label
  <2>3. CASE Return(o, Null)
    BY <2>1, <2>3, ReturnTyped, TypesAreNext DEF StoreTypes
  <2> QED BY <1>8, <2>2, <2>3 DEF ByHash, Goto
<1>9. ASSUME NEW o \in Op, Stat(o)
      PROVE  Types'
  <2>1. /\ UNCHANGED <<url, body, local, result, rows, order, files, cache, origin, scan, cuts,
                       boundVars>>
        /\ pc[o] = "stat" /\ tmp' \subseteq tmp
        /\ \E l \in {"insert", "rename", "write"} : pc' = [pc EXCEPT ![o] = l]
    BY <1>9 DEF Stat, Goto
  <2>2. CallTypes' /\ StoreTypes'
    BY <2>1 DEF CallTypes, StoreTypes, Label, boundVars
  <2>3. TmpTypes'
    BY <2>1 DEF CallTypes, TmpTypes
  <2> QED BY <2>1, <2>2, <2>3, TypesAreNext
<1>10. ASSUME NEW o \in Op, Rename(o)
       PROVE  Types'
  <2>1. /\ UNCHANGED <<url, body, local, result, rows, order, cache, origin, scan, cuts,
                       changes, late>>
        /\ pc[o] = "rename" /\ tmp' \subseteq tmp
        /\ \E l \in {"insert", "write"} : pc' = [pc EXCEPT ![o] = l]
        /\ files' = [files EXCEPT ![body[o]] = "full"] \/ UNCHANGED files
    BY <1>10 DEF Rename, Goto
  <2>2. CallTypes' /\ StoreTypes'
    BY <2>1 DEF CallTypes, StoreTypes, Label
  <2>3. TmpTypes'
    BY <2>1 DEF CallTypes, TmpTypes
  <2> QED BY <2>1, <2>2, <2>3, TypesAreNext
<1>11. ASSUME NEW o \in Op, Truncate(o)
       PROVE  Types'
  <2>1. CallTypes' /\ StoreTypes'
    BY <1>11 DEF CallTypes, StoreTypes, Label, boundVars, Truncate, Goto
  <2>2. TmpTypes'
    BY <1>11 DEF CallTypes, TmpTypes, Truncate, Goto
  <2> QED BY <1>11, <2>1, <2>2, TypesAreNext DEF Truncate
<1>12. ASSUME NEW o \in Op, FinishWrite(o)
       PROVE  Types'
  <2>1. /\ UNCHANGED <<url, body, rows, order, cache, origin, scan, changes, late>>
        /\ pc[o] = "writing"
    BY <1>12 DEF FinishWrite
  <2>2. body[o] \in Content
    BY <2>1 DEF IInv, Known, Call, Holds
  <2>3. CASE /\ files' = IF files[body[o]] = o THEN [files EXCEPT ![body[o]] = "full"] ELSE files
             /\ tmp' = tmp \ {o} /\ Goto(o, "insert") /\ UNCHANGED <<local, result, cuts>>
    <3>1. CallTypes'
      BY <2>1, <2>3 DEF CallTypes, Label, Goto
    <3>2. TmpTypes'
      BY <2>1, <2>3 DEF CallTypes, TmpTypes, Goto
    <3>3. StoreTypes'
      BY <2>1, <2>3 DEF StoreTypes
    <3> QED BY <2>1, <3>1, <3>2, <3>3, TypesAreNext
  <2>4. CASE cuts' = cuts \union {body[o]} /\ Return(o, Null) /\ UNCHANGED files
    <3>1. StoreTypes'
      BY <2>1, <2>2, <2>4 DEF StoreTypes
    <3> QED BY <2>1, <2>4, <3>1, ReturnTyped, TypesAreNext
  <2> QED BY <1>12, <2>3, <2>4 DEF FinishWrite
<1>13. ASSUME NEW o \in Op, Insert(o)
       PROVE  Types'
  <2>1. UNCHANGED <<url, body, files, origin, cuts, scan, changes, late>>
    BY <1>13 DEF Insert
  <2>2. url[o] \in Url /\ body[o] \in Content
    BY <1>13 DEF Insert, IInv, Known, Call, InFlight, Holds
  <2>3. CASE /\ rows' = [rows EXCEPT ![o] =
                            [url |-> url[o], hash |-> body[o], state |-> "usable"]]
             /\ order' = Append(order, o)
             /\ Remember(url[o], o, local[o].meta) /\ Return(o, o)
    <3>1. cache' \in [Url -> Entry]
      BY <2>2, <2>3, RememberTyped, LocalTyped
    <3>2. CallTypes' /\ TmpTypes'
      BY <2>1, <2>3, ReturnTyped
    <3>3. order' \in Seq(Op)
      BY <2>3
    <3>4. rows' \in [Op -> Row]
      BY <2>2, <2>3 DEF StoreTypes, Row
    <3> QED BY <2>1, <3>1, <3>2, <3>3, <3>4, TypesAreNext DEF StoreTypes
  <2>4. CASE Return(o, Null) /\ UNCHANGED <<rows, order, cache>>
    BY <2>1, <2>4, ReturnTyped, TypesAreNext DEF StoreTypes
  <2> QED BY <1>13, <2>3, <2>4 DEF Insert
<1>14. ASSUME NEW o \in Op, LateTouch(o)
       PROVE  Types'
  <2>1. /\ UNCHANGED <<opVars, rows, files, tmp, cache, origin, scan, cuts, changes>>
        /\ late' = late + 1 /\ Touch(result[o]) /\ result[o] \in Op
    BY <1>14 DEF LateTouch, CallTypes
  <2>2. order' \in Seq(Op)
    BY <2>1, OrderTyped
  <2> QED BY <2>1, <2>2, TypesAreNext DEF CallTypes, TmpTypes, StoreTypes, opVars
<1>15. ASSUME NEW u \in Url, CacheStale(u)
       PROVE  Types'
  <2>1. /\ UNCHANGED <<opVars, diskVars, origin, scan, cuts, boundVars>>
        /\ cache' = [cache EXCEPT ![u].fresh = FALSE]
    BY <1>15 DEF CacheStale
  <2>2. [cache[u] EXCEPT !.fresh = FALSE] \in Entry
    BY ZenonT(60) DEF StoreTypes, Entry
  <2>3. cache' \in [Url -> Entry]
    BY <2>1, <2>2 DEF StoreTypes
  <2> QED
    BY <2>1, <2>3, TypesAreNext
    DEF CallTypes, TmpTypes, StoreTypes, opVars, diskVars, boundVars
<1>16. ASSUME NEW u \in Url, CacheEvict(u)
       PROVE  Types'
  BY <1>16, NoneTyped, TypesAreNext
  DEF CacheEvict, CallTypes, TmpTypes, StoreTypes, opVars, diskVars, boundVars
<1>17. ASSUME NEW u \in Url, NEW c \in Content, OriginChange(u, c)
       PROVE  Types'
  BY <1>17, TypesAreNext DEF OriginChange, CallTypes, TmpTypes, StoreTypes, opVars, diskVars
<1>18. ASSUME NEW c \in Content, ScanFile(c)
       PROVE  Types'
  <2>1. UNCHANGED <<opVars, order, files, tmp, cache, origin, cuts, changes, late>>
    BY <1>18 DEF ScanFile
  <2>2. rows' \in [Op -> Row]
    <3>1. ASSUME NEW r \in Op PROVE Quarantined(c)[r] \in Row
      BY SMTT(40) DEF StoreTypes, Row, Quarantined
    <3>2. Quarantined(c) \in [Op -> Row]
      BY <3>1 DEF Quarantined
    <3> QED BY <1>18, <3>2 DEF ScanFile, StoreTypes
  <2>3. scan' \in [at : {"off", "check", "remove"}, left : SUBSET Content,
                  file : Content \union {Null}]
    BY <1>18 DEF ScanFile, StoreTypes, NoScan
  <2> QED BY <2>1, <2>2, <2>3, TypesAreNext DEF CallTypes, TmpTypes, StoreTypes, opVars
<1>19. CASE ScanStart
  <2>1. UNCHANGED <<opVars, diskVars, origin, cuts, changes, late>>
    BY <1>19 DEF ScanStart
  <2>2. HashesInUse \subseteq Content
    BY DEF HashesInUse, IInv, Table, Usable
  <2>3. cache' \in [Url -> Entry]
    BY <1>19, NoneTyped DEF ScanStart
  <2>4. scan' \in [at : {"off", "check", "remove"}, left : SUBSET Content,
                  file : Content \union {Null}]
    BY <1>19, <2>2 DEF ScanStart
  <2> QED BY <2>1, <2>3, <2>4, TypesAreNext DEF CallTypes, TmpTypes, StoreTypes, opVars, diskVars
<1>20. CASE ScanRemove
  <2>1. UNCHANGED <<opVars, rows, order, tmp, cache, origin, cuts, changes, late>>
    BY <1>20 DEF ScanRemove
  <2>2. files' \in [Content -> {"none", "full", "polluted"} \union Op]
    BY <1>20 DEF ScanRemove, StoreTypes
  <2>3. scan' \in [at : {"off", "check", "remove"}, left : SUBSET Content,
                  file : Content \union {Null}]
    <3>1. CASE scan' = NoScan
      BY <3>1 DEF NoScan
    <3>2. CASE scan' = [scan EXCEPT !.at = "check", !.file = Null]
      BY <3>2 DEF StoreTypes
    <3> QED BY <1>20, <3>1, <3>2 DEF ScanRemove
  <2> QED BY <2>1, <2>2, <2>3, TypesAreNext DEF CallTypes, TmpTypes, StoreTypes, opVars
<1>21. CASE ScanEnd
  BY <1>21, TypesAreNext
  DEF ScanEnd, NoScan, CallTypes, TmpTypes, StoreTypes, opVars, diskVars, boundVars
<1>22. CASE Crash
  <2>1. UNCHANGED <<url, body, result, rows, order, files, origin, changes, late>>
    BY <1>22 DEF Crash
  <2>2. pc' \in [Op -> Label] /\ local' \in [Op -> Local] /\ cache' \in [Url -> Entry]
    BY <1>22, NoneTyped DEF Crash, CallTypes, Label
  <2>3. cuts' \subseteq Content
    BY <1>22 DEF Crash, StoreTypes, IInv, Known, Call, Holds
  <2>4. tmp' = {} /\ scan' = NoScan
    BY <1>22 DEF Crash
  <2> QED
    BY <2>1, <2>2, <2>3, <2>4, TypesAreNext DEF CallTypes, TmpTypes, StoreTypes, NoScan
<1>23. CASE UNCHANGED vars
  BY <1>23, TypesAreNext
  DEF vars, opVars, diskVars, boundVars, CallTypes, TmpTypes, StoreTypes
<1> QED
  BY <1>1, <1>2, <1>3, <1>4, <1>5, <1>6, <1>7, <1>8, <1>9, <1>10, <1>11, <1>12, <1>13, <1>14,
     <1>15, <1>16, <1>17, <1>18, <1>19, <1>20, <1>21, <1>22, <1>23 DEF Next, Advance

\* Every step keeps the lock of a URL with at most one call.
LEMMA LockedKept ==
  ASSUME IInv, [Next]_vars
  PROVE  Locked'
<1> USE NullAssumption DEF IInv, Types, TypeOK, Locked
<1>1. ASSUME NEW o \in Op, NEW u \in Url, Begin(o, u)
      PROVE  Locked'
  BY <1>1 DEF Begin, Return, Goto, InFlight, UrlFree, Load
<1>2. ASSUME NEW o \in Op, NEW u \in Url, NEW c \in Content, BeginInline(o, u, c)
      PROVE  Locked'
  BY <1>2 DEF BeginInline, Goto, InFlight, UrlFree
<1>3. ASSUME NEW o \in Op, Acquire(o)
      PROVE  Locked'
  BY <1>3 DEF Acquire, Goto, InFlight
<1>4. ASSUME NEW o \in Op, Fetch(o)
      PROVE  Locked'
  BY <1>4 DEF Fetch, Goto, InFlight, Respond200, Respond304, RespondError
<1>5. ASSUME NEW o \in Op, Revalidate(o)
      PROVE  Locked'
  BY <1>5 DEF Revalidate, Return, Goto, InFlight
<1>6. ASSUME NEW o \in Op, Fallback(o)
      PROVE  Locked'
  <2>1. pc' = [pc EXCEPT ![o] = "done"] /\ UNCHANGED url
    BY <1>6 DEF Fallback, Return, Goto
  <2> QED BY <2>1 DEF InFlight
<1>7. ASSUME NEW o \in Op, Match(o)
      PROVE  Locked'
  BY <1>7 DEF Match, Return, Goto, InFlight
<1>8. ASSUME NEW o \in Op, ByHash(o)
      PROVE  Locked'
  BY <1>8 DEF ByHash, Return, Goto, InFlight
<1>9. ASSUME NEW o \in Op, Stat(o)
      PROVE  Locked'
  BY <1>9 DEF Stat, Goto, InFlight
<1>10. ASSUME NEW o \in Op, Rename(o)
       PROVE  Locked'
  BY <1>10 DEF Rename, Goto, InFlight
<1>11. ASSUME NEW o \in Op, Truncate(o)
       PROVE  Locked'
  BY <1>11 DEF Truncate, Goto, InFlight
<1>12. ASSUME NEW o \in Op, FinishWrite(o)
       PROVE  Locked'
  BY <1>12 DEF FinishWrite, Return, Goto, InFlight
<1>13. ASSUME NEW o \in Op, Insert(o)
       PROVE  Locked'
  BY <1>13 DEF Insert, Return, Goto, InFlight
<1>14. ASSUME NEW o \in Op, LateTouch(o)
       PROVE  Locked'
  BY <1>14 DEF LateTouch, InFlight, opVars
<1>15. ASSUME NEW u \in Url, CacheStale(u)
       PROVE  Locked'
  BY <1>15 DEF CacheStale, InFlight, opVars
<1>16. ASSUME NEW u \in Url, CacheEvict(u)
       PROVE  Locked'
  BY <1>16 DEF CacheEvict, InFlight, opVars
<1>17. ASSUME NEW u \in Url, NEW c \in Content, OriginChange(u, c)
       PROVE  Locked'
  BY <1>17 DEF OriginChange, InFlight, opVars
<1>18. ASSUME NEW c \in Content, ScanFile(c)
       PROVE  Locked'
  BY <1>18 DEF ScanFile, InFlight, opVars
<1>19. CASE ScanStart
  BY <1>19 DEF ScanStart, InFlight, opVars
<1>20. CASE ScanRemove
  BY <1>20 DEF ScanRemove, InFlight, opVars
<1>21. CASE ScanEnd
  BY <1>21 DEF ScanEnd, InFlight, opVars
<1>22. CASE Crash
  BY <1>22 DEF Crash, InFlight
<1>23. CASE UNCHANGED vars
  BY <1>23 DEF vars, opVars, diskVars, boundVars, InFlight
<1> QED
  BY <1>1, <1>2, <1>3, <1>4, <1>5, <1>6, <1>7, <1>8, <1>9, <1>10, <1>11, <1>12, <1>13, <1>14,
     <1>15, <1>16, <1>17, <1>18, <1>19, <1>20, <1>21, <1>22, <1>23 DEF Next, Advance

\* A call that has not returned has no row yet.
LEMMA NotYetARow ==
  IInv => \A o \in Op : pc[o] # "done" => rows[o].state = "absent" /\ o \notin Seeded
  BY SetsAssumption DEF IInv, Table

\* Rows stay in the table with their URL and hash.
RowsGrow ==
  \A r \in Op : rows[r].state # "absent" =>
    /\ rows'[r].state # "absent" /\ rows'[r].url = rows[r].url /\ rows'[r].hash = rows[r].hash

\* A row never goes, and its URL and its hash never change.
LEMMA RowsOnlyGrow ==
  ASSUME IInv, [Next]_vars
  PROVE  RowsGrow
<1> USE DEF RowsGrow
<1>1. ASSUME NEW o \in Op, NEW u \in Url, Begin(o, u)
      PROVE  RowsGrow
  BY <1>1 DEF Begin, Usable
<1>2. ASSUME NEW o \in Op, NEW u \in Url, NEW c \in Content, BeginInline(o, u, c)
      PROVE  RowsGrow
  BY <1>2 DEF BeginInline, diskVars
<1>3. ASSUME NEW o \in Op, Acquire(o)
      PROVE  RowsGrow
  BY <1>3 DEF Acquire, diskVars
<1>4. ASSUME NEW o \in Op, Fetch(o)
      PROVE  RowsGrow
  BY <1>4 DEF Fetch
<1>5. ASSUME NEW o \in Op, Revalidate(o)
      PROVE  RowsGrow
  BY <1>5 DEF Revalidate, Usable
<1>6. ASSUME NEW o \in Op, Fallback(o)
      PROVE  RowsGrow
  BY <1>6 DEF Fallback
<1>7. ASSUME NEW o \in Op, Match(o)
      PROVE  RowsGrow
  BY <1>7 DEF Match
<1>8. ASSUME NEW o \in Op, ByHash(o)
      PROVE  RowsGrow
  BY <1>8 DEF ByHash, Usable
<1>9. ASSUME NEW o \in Op, Stat(o)
      PROVE  RowsGrow
  BY <1>9 DEF Stat
<1>10. ASSUME NEW o \in Op, Rename(o)
       PROVE  RowsGrow
  BY <1>10 DEF Rename
<1>11. ASSUME NEW o \in Op, Truncate(o)
       PROVE  RowsGrow
  BY <1>11 DEF Truncate
<1>12. ASSUME NEW o \in Op, FinishWrite(o)
       PROVE  RowsGrow
  BY <1>12 DEF FinishWrite
<1>13. ASSUME NEW o \in Op, Insert(o)
       PROVE  RowsGrow
  <2>1. rows[o].state = "absent"
    BY <1>13, NotYetARow DEF Insert
  <2> QED BY <1>13, <2>1 DEF Insert, IInv, Types, TypeOK
<1>14. ASSUME NEW o \in Op, LateTouch(o)
       PROVE  RowsGrow
  BY <1>14 DEF LateTouch
<1>15. ASSUME NEW u \in Url, CacheStale(u)
       PROVE  RowsGrow
  BY <1>15 DEF CacheStale, diskVars
<1>16. ASSUME NEW u \in Url, CacheEvict(u)
       PROVE  RowsGrow
  BY <1>16 DEF CacheEvict, diskVars
<1>17. ASSUME NEW u \in Url, NEW c \in Content, OriginChange(u, c)
       PROVE  RowsGrow
  BY <1>17 DEF OriginChange, diskVars
<1>18. ASSUME NEW c \in Content, ScanFile(c)
       PROVE  RowsGrow
  <2>1. \A r \in Op : rows[r].state # "absent" =>
          /\ Quarantined(c)[r].state # "absent" /\ Quarantined(c)[r].url = rows[r].url
          /\ Quarantined(c)[r].hash = rows[r].hash
    BY DEF IInv, Types, TypeOK, Row, Quarantined
  <2> QED BY <1>18, <2>1 DEF ScanFile
<1>19. CASE ScanStart
  BY <1>19 DEF ScanStart, diskVars
<1>20. CASE ScanRemove
  BY <1>20 DEF ScanRemove
<1>21. CASE ScanEnd
  BY <1>21 DEF ScanEnd, diskVars
<1>22. CASE Crash
  BY <1>22 DEF Crash
<1>23. CASE UNCHANGED vars
  BY <1>23 DEF vars, opVars, diskVars, boundVars
<1> QED
  BY <1>1, <1>2, <1>3, <1>4, <1>5, <1>6, <1>7, <1>8, <1>9, <1>10, <1>11, <1>12, <1>13, <1>14,
     <1>15, <1>16, <1>17, <1>18, <1>19, <1>20, <1>21, <1>22, <1>23 DEF Next, Advance

\* The table stays right when rows are only touched.
LEMMA TableFrame ==
  ASSUME IInv, UNCHANGED rows, order' = order \/ (\E r \in Op : Touch(r)),
         \A r \in Op : pc[r] = "done" => pc'[r] = "done"
  PROVE  Table'
<1>1. order \in Seq(Op)
  BY DEF IInv, Types
<1>2. ASSUME NEW x \in Op, \E i \in 1 .. Len(order) : order[i] = x
      PROVE  \E i \in 1 .. Len(order') : order'[i] = x
  <2>1. CASE order' = order
    BY <1>2, <2>1
  <2>2. CASE \E r \in Op : Touch(r)
    <3>1. PICK r \in Op : Touch(r)
      BY <2>2
    <3>2. order' = Touched(order, r)
      BY <3>1, TouchIs
    <3>3. x \in Elems(order)
      BY <1>2 DEF Elems
    <3>4. x \in Elems(order')
      BY <1>1, <3>2, <3>3, TouchedHas
    <3> QED BY <3>4 DEF Elems
  <2> QED BY <2>1, <2>2
<1> QED BY <1>2 DEF IInv, Table

\* Every step keeps the table and its order.
LEMMA TableKept ==
  ASSUME IInv, [Next]_vars
  PROVE  Table'
<1> USE TableFrame DEF IInv, Types, TypeOK
<1>1. ASSUME NEW o \in Op, NEW u \in Url, Begin(o, u)
      PROVE  Table'
  BY <1>1 DEF Begin, Return, Goto, Load
<1>2. ASSUME NEW o \in Op, NEW u \in Url, NEW c \in Content, BeginInline(o, u, c)
      PROVE  Table'
  BY <1>2 DEF BeginInline, Goto, diskVars
<1>3. ASSUME NEW o \in Op, Acquire(o)
      PROVE  Table'
  BY <1>3 DEF Acquire, Goto, diskVars
<1>4. ASSUME NEW o \in Op, Fetch(o)
      PROVE  Table'
  BY <1>4 DEF Fetch, Goto, Respond200, Respond304, RespondError
<1>5. ASSUME NEW o \in Op, Revalidate(o)
      PROVE  Table'
  BY <1>5 DEF Revalidate, Return, Goto
<1>6. ASSUME NEW o \in Op, Fallback(o)
      PROVE  Table'
  <2>1. \A r \in Previous(url[o]) : r \in Op
    BY NewestUsable DEF Previous, Usable
  <2> QED BY <1>6, <2>1 DEF Fallback, Return, Goto
<1>7. ASSUME NEW o \in Op, Match(o)
      PROVE  Table'
  <2> DEFINE r == IF local[o].cached.row \in Same(o) THEN local[o].cached.row
                  ELSE Newest(url[o])
  <2>1. Same(o) # {} => r \in Op
    BY NewestUsable DEF Same, Usable, Local, Entry
  <2>2. order' = order \/ (Touch(r) /\ Same(o) # {})
    <3>1. \/ (Same(o) # {} /\ Touch(r))
          \/ UNCHANGED <<local, result, tmp, order, cache>> \/ UNCHANGED <<order, cache>>
      BY <1>7, Zenon DEF Match
    <3> HIDE DEF r
    <3> QED BY <3>1
  <2>3. UNCHANGED rows /\ \A p \in Op : pc[p] = "done" => pc'[p] = "done"
    BY <1>7 DEF Match, Return, Goto
  <2> QED BY <2>1, <2>2, <2>3
<1>8. ASSUME NEW o \in Op, ByHash(o)
      PROVE  Table'
  BY <1>8 DEF ByHash, Return, Goto
<1>9. ASSUME NEW o \in Op, Stat(o)
      PROVE  Table'
  BY <1>9 DEF Stat, Goto
<1>10. ASSUME NEW o \in Op, Rename(o)
       PROVE  Table'
  BY <1>10 DEF Rename, Goto
<1>11. ASSUME NEW o \in Op, Truncate(o)
       PROVE  Table'
  BY <1>11 DEF Truncate, Goto
<1>12. ASSUME NEW o \in Op, FinishWrite(o)
       PROVE  Table'
  BY <1>12 DEF FinishWrite, Return, Goto
<1>13. ASSUME NEW o \in Op, Insert(o)
       PROVE  Table'
  <2>1. CASE UNCHANGED <<rows, order>>
    BY <1>13, <2>1 DEF Insert, Return, Goto
  <2>2. CASE /\ rows' = [rows EXCEPT ![o] =
                            [url |-> url[o], hash |-> body[o], state |-> "usable"]]
             /\ order' = Append(order, o) /\ pc' = [pc EXCEPT ![o] = "done"]
    <3>1. order \in Seq(Op) /\ Len(order) \in Nat
      BY LenProperties
    <3>2. /\ Len(order') = Len(order) + 1 /\ order'[Len(order) + 1] = o
          /\ \A i \in 1 .. Len(order) : order'[i] = order[i]
      BY <2>2, <3>1, AppendProperties
    <3>3. url[o] \in Url /\ body[o] \in Content
      BY <1>13 DEF Insert, Known, Call, InFlight, Holds
    <3>4. ASSUME NEW r \in Op, rows'[r].state # "absent"
          PROVE  /\ pc'[r] = "done" /\ rows'[r].url \in Url /\ rows'[r].hash \in Content
                 /\ \E i \in 1 .. Len(order') : order'[i] = r
      <4>1. CASE r = o
        <5>1. Len(order) + 1 \in 1 .. Len(order')
          BY <3>1, <3>2
        <5> QED BY <2>2, <3>2, <3>3, <4>1, <5>1
      <4>2. CASE r # o
        <5>1. rows[r].state # "absent" /\ rows'[r] = rows[r] /\ pc'[r] = pc[r]
          BY <2>2, <3>4, <4>2
        <5>2. PICK i \in 1 .. Len(order) : order[i] = r
          BY <5>1 DEF Table
        <5>3. i \in 1 .. Len(order') /\ order'[i] = r
          BY <3>1, <3>2, <5>2
        <5> QED BY <5>1, <5>3 DEF Table
      <4> QED BY <4>1, <4>2
    <3>5. \A s \in Seeded : rows'[s].state # "absent"
      BY <2>2, SetsAssumption DEF Table
    <3> QED BY <3>4, <3>5 DEF Table
  <2> QED BY <1>13, <2>1, <2>2 DEF Insert, Return, Goto
<1>14. ASSUME NEW o \in Op, LateTouch(o)
       PROVE  Table'
  <2>1. result[o] \in Op /\ Touch(result[o]) /\ UNCHANGED <<pc, rows>>
    BY <1>14 DEF LateTouch, opVars
  <2> QED BY <2>1
<1>15. ASSUME NEW u \in Url, CacheStale(u)
       PROVE  Table'
  BY <1>15 DEF CacheStale, opVars, diskVars
<1>16. ASSUME NEW u \in Url, CacheEvict(u)
       PROVE  Table'
  BY <1>16 DEF CacheEvict, opVars, diskVars
<1>17. ASSUME NEW u \in Url, NEW c \in Content, OriginChange(u, c)
       PROVE  Table'
  BY <1>17 DEF OriginChange, opVars, diskVars
<1>18. ASSUME NEW c \in Content, ScanFile(c)
       PROVE  Table'
  <2>1. CASE UNCHANGED rows
    BY <1>18, <2>1 DEF ScanFile, opVars
  <2>2. CASE rows' = Quarantined(c)
    <3>1. \A r \in Op :
            /\ Quarantined(c)[r].url = rows[r].url /\ Quarantined(c)[r].hash = rows[r].hash
            /\ Quarantined(c)[r].state # "absent" <=> rows[r].state # "absent"
      BY DEF Row, Quarantined, Usable
    <3>2. UNCHANGED <<order, pc>>
      BY <1>18 DEF ScanFile, opVars
    <3>3. ASSUME NEW r \in Op, rows'[r].state # "absent"
          PROVE  /\ pc'[r] = "done" /\ rows'[r].url \in Url /\ rows'[r].hash \in Content
                 /\ \E i \in 1 .. Len(order') : order'[i] = r
      BY <2>2, <3>1, <3>2, <3>3 DEF Table
    <3>4. \A s \in Seeded : rows'[s].state # "absent"
      BY <2>2, <3>1, SetsAssumption DEF Table
    <3> QED BY <3>3, <3>4 DEF Table
  <2> QED BY <1>18, <2>1, <2>2 DEF ScanFile
<1>19. CASE ScanStart
  BY <1>19 DEF ScanStart, opVars, diskVars
<1>20. CASE ScanRemove
  BY <1>20 DEF ScanRemove, opVars
<1>21. CASE ScanEnd
  BY <1>21 DEF ScanEnd, opVars, diskVars
<1>22. CASE Crash
  BY <1>22 DEF Crash, InFlight
<1>23. CASE UNCHANGED vars
  BY <1>23 DEF vars, opVars, diskVars, boundVars
<1> QED
  BY <1>1, <1>2, <1>3, <1>4, <1>5, <1>6, <1>7, <1>8, <1>9, <1>10, <1>11, <1>12, <1>13, <1>14,
     <1>15, <1>16, <1>17, <1>18, <1>19, <1>20, <1>21, <1>22, <1>23 DEF Next, Advance

\* An entry stands for its row in the next state.
StandsNext(e, u) ==
  e.row # Null => /\ rows'[e.row].state # "absent" /\ rows'[e.row].url = u
                  /\ e.tag # Null => rows'[e.row].hash = e.tag

\* What an entry stands for it stands for in the next state too.
LEMMA StandsOn ==
  ASSUME IInv, [Next]_vars, NEW e \in Entry, NEW u, Stands(e, u)
  PROVE  StandsNext(e, u)
<1>1. e.row # Null => e.row \in Op
  BY DEF Entry
<1>2. RowsGrow
  BY RowsOnlyGrow
<1> QED BY <1>1, <1>2 DEF Stands, StandsNext, RowsGrow

\* An empty entry stands for anything.
LEMMA NoneStands == \A u : Stands(NoEntry, u) /\ StandsNext(NoEntry, u)
  BY DEF Stands, StandsNext, NoEntry

\* The explicit form of the next state says the same.
LEMMA StandsIsNext == \A u : Stands(cache[u], u)' <=> StandsNext(cache'[u], u)
  BY DEF Stands, StandsNext

\* The cache stays right if each entry stays or stands for its row.
LEMMA CachesFrame ==
  ASSUME IInv, [Next]_vars,
         \A v \in Url : cache'[v] = cache[v] \/ StandsNext(cache'[v], v)
  PROVE  (\A v \in Url : Stands(cache[v], v))'
<1>1. \A v \in Url : cache[v] \in Entry /\ Stands(cache[v], v)
  BY DEF IInv, Types, TypeOK, Known
<1>2. \A v \in Url : StandsNext(cache[v], v)
  BY <1>1, StandsOn
<1>3. ASSUME NEW v \in Url PROVE StandsNext(cache'[v], v)
  BY <1>2
<1> QED BY <1>3, StandsIsNext

\* An entry that is remembered stands for its row if that row has its hash.
LEMMA Remembered ==
  ASSUME IInv, NEW u \in Url, NEW r, NEW m, Remember(u, r, m),
         rows'[r].state # "absent", rows'[r].url = u, m.tag # Null => rows'[r].hash = m.tag
  PROVE  \A v \in Url : cache'[v] = cache[v] \/ StandsNext(cache'[v], v)
<1>1. cache \in [Url -> Entry]
  BY DEF IInv, Types, TypeOK
<1>2. \A v \in Url : v # u => cache'[v] = cache[v]
  BY <1>1 DEF Remember
<1>3. cache'[u] = [row |-> r, tag |-> m.tag, fresh |-> m.fresh]
  BY <1>1 DEF Remember
<1>4. StandsNext(cache'[u], u)
  BY <1>3 DEF StandsNext
<1> QED BY <1>2, <1>4

\* Every step keeps the cache right.
LEMMA CachesKept ==
  ASSUME IInv, [Next]_vars
  PROVE  (\A v \in Url : Stands(cache[v], v))'
<1>0. SUFFICES \A v \in Url : cache'[v] = cache[v] \/ StandsNext(cache'[v], v)
  BY CachesFrame
<1> DEFINE Goal == \A v \in Url : cache'[v] = cache[v] \/ StandsNext(cache'[v], v)
<1>a. cache \in [Url -> Entry] /\ \A v \in Url : StandsNext(NoEntry, v)
  BY NoneStands DEF IInv, Types, TypeOK
<1>b. ASSUME NEW o \in Op, InFlight(o)
      PROVE  /\ url[o] \in Url /\ Stands(local[o].cached, url[o])
             /\ local[o].cached.row \in Op \union {Null}
  BY <1>b DEF IInv, Types, TypeOK, Known, Call, Local, Entry
<1>c. \A r : Usable(r) => r # Null /\ rows[r].state # "absent"
  BY DEF Usable
<1> USE <1>a
<1>1. ASSUME NEW o \in Op, NEW u \in Url, Begin(o, u)
      PROVE  Goal
  BY <1>1 DEF Begin, Load
<1>2. ASSUME NEW o \in Op, NEW u \in Url, NEW c \in Content, BeginInline(o, u, c)
      PROVE  Goal
  BY <1>2 DEF BeginInline, Load
<1>3. ASSUME NEW o \in Op, Acquire(o)
      PROVE  Goal
  BY <1>3 DEF Acquire, Load
<1>4. ASSUME NEW o \in Op, Fetch(o)
      PROVE  Goal
  BY <1>4 DEF Fetch, Load
<1>5. ASSUME NEW o \in Op, Revalidate(o)
      PROVE  Goal
  <2>1. CASE UNCHANGED cache
    BY <2>1
  <2>2. CASE /\ Usable(local[o].cached.row)
             /\ Remember(url[o], local[o].cached.row, local[o].meta)
    <3>1. InFlight(o) /\ UNCHANGED rows
      BY <1>5 DEF Revalidate, InFlight
    <3>2. /\ local[o].meta.tag \in {body[o], Null} /\ local[o].cached.tag = body[o]
          /\ body[o] # Null
      BY <1>5, NullAssumption DEF Revalidate, IInv, Known, Call
    <3>3. /\ rows[local[o].cached.row].state # "absent"
          /\ rows[local[o].cached.row].url = url[o]
          /\ rows[local[o].cached.row].hash = body[o]
      BY <1>b, <1>c, <2>2, <3>1, <3>2 DEF Stands
    <3> QED BY <1>b, <2>2, <3>1, <3>2, <3>3, Remembered
  <2> QED BY <1>5, <2>1, <2>2 DEF Revalidate
<1>6. ASSUME NEW o \in Op, Fallback(o)
      PROVE  Goal
  <2>1. CASE UNCHANGED cache
    BY <2>1
  <2>2. CASE \E r \in Previous(url[o]) : Remember(url[o], r, NoMeta)
    <3>1. PICK r \in Previous(url[o]) : Remember(url[o], r, NoMeta)
      BY <2>2
    <3>2. rows[r].url = url[o] /\ rows[r].state # "absent" /\ NoMeta.tag = Null
      BY NewestUsable, <1>c DEF Previous, NoMeta, IInv, Types
    <3>3. InFlight(o) /\ UNCHANGED rows
      BY <1>6 DEF Fallback, InFlight
    <3> QED BY <1>b, <3>1, <3>2, <3>3, Remembered
  <2> QED BY <1>6, <2>1, <2>2 DEF Fallback
<1>7. ASSUME NEW o \in Op, Match(o)
      PROVE  Goal
  <2>1. CASE UNCHANGED cache
    BY <2>1
  <2>2. CASE \E r \in Same(o) : Remember(url[o], r, local[o].meta)
    <3>1. PICK r \in Same(o) : Remember(url[o], r, local[o].meta)
      BY <2>2
    <3>2. InFlight(o) /\ UNCHANGED rows /\ Holds(o)
      BY <1>7 DEF Match, InFlight, Holds
    <3>3. rows[r].url = url[o] /\ rows[r].state # "absent" /\ rows[r].hash = body[o]
      BY NewestUsable, <1>b, <1>c, <3>2 DEF Same, Stands, IInv, Types
    <3>4. local[o].meta.tag \in {body[o], Null}
      BY <3>2 DEF IInv, Known, Call
    <3> QED BY <1>b, <3>1, <3>2, <3>3, <3>4, Remembered
  <2>3. Same(o) # {} => \E r \in Same(o) :
          r = IF local[o].cached.row \in Same(o) THEN local[o].cached.row ELSE Newest(url[o])
    BY DEF Same
  <2> QED BY <1>7, <2>1, <2>2, <2>3 DEF Match
<1>8. ASSUME NEW o \in Op, ByHash(o)
      PROVE  Goal
  BY <1>8 DEF ByHash, Load
<1>9. ASSUME NEW o \in Op, Stat(o)
      PROVE  Goal
  BY <1>9 DEF Stat, Load
<1>10. ASSUME NEW o \in Op, Rename(o)
       PROVE  Goal
  BY <1>10 DEF Rename, Load
<1>11. ASSUME NEW o \in Op, Truncate(o)
       PROVE  Goal
  BY <1>11 DEF Truncate, Load
<1>12. ASSUME NEW o \in Op, FinishWrite(o)
       PROVE  Goal
  BY <1>12 DEF FinishWrite, Load
<1>13. ASSUME NEW o \in Op, Insert(o)
       PROVE  Goal
  <2>1. CASE UNCHANGED cache
    BY <2>1
  <2>2. CASE /\ rows' = [rows EXCEPT ![o] =
                            [url |-> url[o], hash |-> body[o], state |-> "usable"]]
             /\ Remember(url[o], o, local[o].meta)
    <3>1. InFlight(o) /\ Holds(o)
      BY <1>13 DEF Insert, InFlight, Holds
    <3>2. rows'[o].url = url[o] /\ rows'[o].state # "absent" /\ rows'[o].hash = body[o]
      BY <2>2 DEF IInv, Types, TypeOK
    <3>3. local[o].meta.tag \in {body[o], Null}
      BY <3>1 DEF IInv, Known, Call
    <3> QED BY <1>b, <2>2, <3>1, <3>2, <3>3, Remembered
  <2> QED BY <1>13, <2>1, <2>2 DEF Insert
<1>14. ASSUME NEW o \in Op, LateTouch(o)
       PROVE  Goal
  BY <1>14 DEF LateTouch, Load
<1>15. ASSUME NEW u \in Url, CacheStale(u)
       PROVE  Goal
  <2>1. \A v \in Url : v # u => cache'[v] = cache[v]
    BY <1>15 DEF CacheStale
  <2>2. /\ cache'[u].row = cache[u].row /\ cache'[u].tag = cache[u].tag
    BY <1>15 DEF CacheStale, Entry
  <2>3. StandsNext(cache[u], u)
    BY StandsOn DEF IInv, Known
  <2> QED BY <2>1, <2>2, <2>3 DEF StandsNext
<1>16. ASSUME NEW u \in Url, CacheEvict(u)
       PROVE  Goal
  BY <1>16 DEF CacheEvict, Load
<1>17. ASSUME NEW u \in Url, NEW c \in Content, OriginChange(u, c)
       PROVE  Goal
  BY <1>17 DEF OriginChange, Load
<1>18. ASSUME NEW c \in Content, ScanFile(c)
       PROVE  Goal
  BY <1>18 DEF ScanFile, Load
<1>19. CASE ScanStart
  BY <1>19 DEF ScanStart, Load
<1>20. CASE ScanRemove
  BY <1>20 DEF ScanRemove, Load
<1>21. CASE ScanEnd
  BY <1>21 DEF ScanEnd, Load
<1>22. CASE Crash
  BY <1>22 DEF Crash, Load
<1>23. CASE UNCHANGED vars
  BY <1>23 DEF vars, opVars, diskVars, boundVars, Load
<1> QED
  BY <1>1, <1>2, <1>3, <1>4, <1>5, <1>6, <1>7, <1>8, <1>9, <1>10, <1>11, <1>12, <1>13, <1>14,
     <1>15, <1>16, <1>17, <1>18, <1>19, <1>20, <1>21, <1>22, <1>23 DEF Next, Advance

\* A call that does not move.
SameCall(p) ==
  pc'[p] = pc[p] /\ url'[p] = url[p] /\ body'[p] = body[p] /\ local'[p] = local[p]

\* A call that does not move still knows what it knew.
LEMMA CallStays ==
  ASSUME IInv, [Next]_vars, NEW p \in Op, SameCall(p)
  PROVE  Call(p)'
<1>1. Call(p) /\ local[p].cached \in Entry
  BY DEF IInv, Types, TypeOK, Known, Local
<1>2. InFlight(p) => StandsNext(local[p].cached, url[p])
  BY <1>1, StandsOn DEF Call
<1> QED BY <1>1, <1>2 DEF SameCall, Call, InFlight, Asks, Holds, Stands, StandsNext

\* A call that has returned knows nothing any more.
LEMMA CallOver ==
  ASSUME NEW p, pc'[p] = "done", local'[p] = NoLocal
  PROVE  Call(p)'
  BY DEF Call, InFlight, Asks, Holds

\* A step of one call concerns no other.
LEMMA CallsFrame ==
  ASSUME IInv, [Next]_vars, NEW o, Call(o)', \A p \in Op : p # o => SameCall(p)
  PROVE  (\A p \in Op : Call(p))'
<1>1. ASSUME NEW p \in Op PROVE Call(p)'
  BY CallStays
<1> QED BY <1>1

\* A step of no call leaves what they know.
LEMMA CallsStay ==
  ASSUME IInv, [Next]_vars, UNCHANGED <<pc, url, body, local>>
  PROVE  (\A p \in Op : Call(p))'
<1>1. ASSUME NEW p \in Op PROVE Call(p)'
  BY CallStays DEF SameCall
<1> QED BY <1>1

\* A call that returns concerns no other.
LEMMA ReturnFrame ==
  ASSUME IInv, [Next]_vars, NEW o \in Op, NEW r, Return(o, r), UNCHANGED body,
         \A p \in Op : p # o => url'[p] = url[p]
  PROVE  (\A p \in Op : Call(p))'
<1>1. Call(o)'
  BY CallOver DEF Return, Goto, IInv, Types, TypeOK
<1>2. \A p \in Op : p # o => SameCall(p)
  BY DEF Return, Goto, SameCall, IInv, Types, TypeOK
<1> QED BY <1>1, <1>2, CallsFrame

\* A step of one call that keeps what it knows.
LEMMA CallMoves ==
  ASSUME IInv, [Next]_vars, NEW o \in Op, NEW l, pc' = [pc EXCEPT ![o] = l],
         UNCHANGED <<url, body, local>>, Holds(o),
         l \in {"byHash", "stat", "rename", "write", "writing", "insert"}
  PROVE  (\A p \in Op : Call(p))'
<1>1. pc'[o] = l /\ Call(o) /\ local[o].cached \in Entry
  BY DEF IInv, Types, TypeOK, Known, Local
<1>2. StandsNext(local[o].cached, url[o]) /\ InFlight(o)
  BY <1>1, StandsOn DEF Call, InFlight, Holds
<1>3. Call(o)'
  BY <1>1, <1>2 DEF Call, InFlight, Asks, Holds, Stands, StandsNext
<1>4. \A p \in Op : p # o => SameCall(p)
  BY DEF SameCall, IInv, Types, TypeOK
<1> QED BY <1>3, <1>4, CallsFrame

\* Every step keeps what the calls know right.
LEMMA CallsKept ==
  ASSUME IInv, [Next]_vars
  PROVE  (\A p \in Op : Call(p))'
<1> DEFINE Goal == (\A p \in Op : Call(p))'
<1>1. ASSUME NEW o \in Op, NEW u \in Url, Begin(o, u)
      PROVE  Goal
  <2>0. IInv /\ [Next]_vars
    OBVIOUS
  <2>1. UNCHANGED <<rows, body>> /\ url' = [url EXCEPT ![o] = u] /\ u \notin FrameUrl
    BY <1>1 DEF Begin
  <2>2. url \in [Op -> Url \union {Null}] /\ pc \in [Op -> Label] /\ local \in [Op -> Local]
        /\ pc[o] = "idle"
    BY <1>1 DEF Begin, IInv, Types, TypeOK
  <2>3. CASE Return(o, cache[u].row)
    BY <2>1, <2>2, <2>3, ReturnFrame
  <2>4. CASE Load(o, cache[u])
    <3>1. body[o] = Null /\ Stands(cache[u], u) /\ cache[u] \in Entry
      BY <2>2 DEF IInv, Known, Call, Types, TypeOK
    <3>2. StandsNext(cache[u], u)
      BY <3>1, StandsOn
    <3>3. /\ pc'[o] = "acquire" /\ url'[o] = u /\ body'[o] = Null
          /\ local'[o].cached = cache[u]
      BY <2>1, <2>2, <2>4, <3>1 DEF Load, Goto, Local
    <3>4. Call(o)'
      BY <2>1, <3>2, <3>3 DEF Call, InFlight, Asks, Holds, Stands, StandsNext
    <3>5. \A p \in Op : p # o => SameCall(p)
      BY <2>1, <2>2, <2>4 DEF SameCall, Load, Goto
    <3> QED BY <3>4, <3>5, CallsFrame
  <2> QED BY <1>1, <2>3, <2>4 DEF Begin
<1>2. ASSUME NEW o \in Op, NEW u \in Url, NEW c \in Content, BeginInline(o, u, c)
      PROVE  Goal
  <2>1. /\ url'[o] = u /\ body'[o] = c /\ pc'[o] = "byHash" /\ local'[o] = local[o]
        /\ pc[o] = "idle"
    BY <1>2 DEF BeginInline, Goto, IInv, Types, TypeOK
  <2>2. local[o] = NoLocal
    BY <2>1 DEF IInv, Known, Call, InFlight
  <2>3. Call(o)'
    BY <2>1, <2>2
    DEF Call, InFlight, Asks, Holds, Stands, NoLocal, NoEntry, NoMeta
  <2>4. \A p \in Op : p # o => SameCall(p)
    BY <1>2 DEF BeginInline, Goto, SameCall, IInv, Types, TypeOK
  <2> QED BY <2>3, <2>4, CallsFrame
<1>3. ASSUME NEW o \in Op, Acquire(o)
      PROVE  Goal
  <2>1. /\ pc' = [pc EXCEPT ![o] = "fetch"] /\ UNCHANGED <<url, body, local>>
        /\ pc[o] = "acquire" /\ pc'[o] = "fetch"
    BY <1>3 DEF Acquire, Goto, IInv, Types, TypeOK
  <2>2. Call(o) /\ local[o].cached \in Entry
    BY DEF IInv, Types, TypeOK, Known, Local
  <2>3. StandsNext(local[o].cached, url[o])
    BY <2>1, <2>2, StandsOn DEF Call, InFlight
  <2>4. Call(o)'
    BY <2>1, <2>2, <2>3 DEF Call, InFlight, Asks, Holds, Stands, StandsNext
  <2>5. \A p \in Op : p # o => SameCall(p)
    BY <2>1 DEF SameCall, IInv, Types, TypeOK
  <2> QED BY <2>4, <2>5, CallsFrame
<1>4. ASSUME NEW o \in Op, Fetch(o)
      PROVE  Goal
  <2>1. /\ UNCHANGED <<url, rows>> /\ pc[o] = "fetch"
        /\ pc \in [Op -> Label] /\ local \in [Op -> Local] /\ url \in [Op -> Url \union {Null}]
        /\ body \in [Op -> Content \union {Null}]
    BY <1>4 DEF Fetch, IInv, Types, TypeOK
  <2>2. /\ Call(o) /\ local[o].cached \in Entry /\ url[o] \in Url
        /\ origin[url[o]] \in Content
    BY <2>1 DEF IInv, Types, TypeOK, Known, Local, Call, InFlight
  <2>3. StandsNext(local[o].cached, url[o])
    BY <2>1, <2>2, StandsOn DEF Call, InFlight
  <2>4. \A p \in Op : p # o => SameCall(p)
    BY <1>4, <2>1 DEF Fetch, Respond200, Respond304, RespondError, Goto, SameCall
  <2>5. CASE Respond200(o)
    <3>1. PICK t \in {origin[url[o]], Null}, f \in BOOLEAN :
            local' = [local EXCEPT ![o].meta = [tag |-> t, fresh |-> f]]
      BY <2>5 DEF Respond200
    <3>2. /\ local'[o].meta.tag = t /\ local'[o].cached = local[o].cached
          /\ body'[o] = origin[url[o]] /\ pc'[o] = "match"
      BY <2>1, <2>5, <3>1 DEF Respond200, Goto, Local
    <3>3. Call(o)'
      BY <2>1, <2>2, <2>3, <3>1, <3>2 DEF Call, InFlight, Asks, Holds, Stands, StandsNext
    <3> QED BY <2>4, <3>3, CallsFrame
  <2>6. CASE Respond304(o)
    <3>1. PICK f \in BOOLEAN :
            local' = [local EXCEPT ![o].meta = [tag |-> origin[url[o]], fresh |-> f]]
      BY <2>6 DEF Respond304
    <3>2. /\ local'[o].meta.tag = origin[url[o]] /\ local'[o].cached = local[o].cached
          /\ body'[o] = origin[url[o]] /\ pc'[o] = "revalidated"
          /\ local[o].cached.tag = origin[url[o]]
      BY <2>1, <2>6, <3>1 DEF Respond304, Goto, Local
    <3>3. Call(o)'
      BY <2>1, <2>2, <2>3, <3>1, <3>2 DEF Call, InFlight, Asks, Holds, Stands, StandsNext
    <3> QED BY <2>4, <3>3, CallsFrame
  <2>7. CASE RespondError(o)
    <3>1. local'[o].cached = local[o].cached /\ body'[o] = body[o]
          /\ pc'[o] \in {"acquire", "fallback"}
      BY <2>1, <2>7 DEF RespondError, Goto, Local
    <3>3. Call(o)'
      BY <2>1, <2>2, <2>3, <3>1 DEF Call, InFlight, Asks, Holds, Stands, StandsNext
    <3> QED BY <2>4, <3>3, CallsFrame
  <2> QED BY <1>4, <2>5, <2>6, <2>7 DEF Fetch
<1>5. ASSUME NEW o \in Op, Revalidate(o)
      PROVE  Goal
  BY <1>5, ReturnFrame DEF Revalidate
<1>6. ASSUME NEW o \in Op, Fallback(o)
      PROVE  Goal
  BY <1>6, ReturnFrame DEF Fallback
<1>7. ASSUME NEW o \in Op, Match(o)
      PROVE  Goal
  <2>1. Holds(o)
    BY <1>7 DEF Match, Holds
  <2>2. CASE \E r : Return(o, r)
    BY <1>7, <2>2, ReturnFrame DEF Match
  <2>3. CASE ~\E r : Return(o, r)
    BY <1>7, <2>1, <2>3, CallMoves DEF Match, Goto
  <2> QED BY <2>2, <2>3
<1>8. ASSUME NEW o \in Op, ByHash(o)
      PROVE  Goal
  <2>1. Holds(o)
    BY <1>8 DEF ByHash, Holds
  <2>2. CASE \E r : Return(o, r)
    BY <1>8, <2>2, ReturnFrame DEF ByHash
  <2>3. CASE ~\E r : Return(o, r)
    BY <1>8, <2>1, <2>3, CallMoves DEF ByHash, Goto
  <2> QED BY <2>2, <2>3
<1>9. ASSUME NEW o \in Op, Stat(o)
      PROVE  Goal
  <2>1. Holds(o)
    BY <1>9 DEF Stat, Holds
  <2>2. CASE \E r : Return(o, r)
    BY <1>9, <2>2, ReturnFrame DEF Stat
  <2>3. CASE ~\E r : Return(o, r)
    BY <1>9, <2>1, <2>3, CallMoves DEF Stat, Goto
  <2> QED BY <2>2, <2>3
<1>10. ASSUME NEW o \in Op, Rename(o)
       PROVE  Goal
  <2>1. Holds(o)
    BY <1>10 DEF Rename, Holds
  <2>2. CASE \E r : Return(o, r)
    BY <1>10, <2>2, ReturnFrame DEF Rename
  <2>3. CASE ~\E r : Return(o, r)
    BY <1>10, <2>1, <2>3, CallMoves DEF Rename, Goto
  <2> QED BY <2>2, <2>3
<1>11. ASSUME NEW o \in Op, Truncate(o)
       PROVE  Goal
  <2>1. Holds(o)
    BY <1>11 DEF Truncate, Holds
  <2>2. CASE \E r : Return(o, r)
    BY <1>11, <2>2, ReturnFrame DEF Truncate
  <2>3. CASE ~\E r : Return(o, r)
    BY <1>11, <2>1, <2>3, CallMoves DEF Truncate, Goto
  <2> QED BY <2>2, <2>3
<1>12. ASSUME NEW o \in Op, FinishWrite(o)
       PROVE  Goal
  <2>1. Holds(o)
    BY <1>12 DEF FinishWrite, Holds
  <2>2. CASE \E r : Return(o, r)
    BY <1>12, <2>2, ReturnFrame DEF FinishWrite
  <2>3. CASE ~\E r : Return(o, r)
    BY <1>12, <2>1, <2>3, CallMoves DEF FinishWrite, Goto
  <2> QED BY <2>2, <2>3
<1>13. ASSUME NEW o \in Op, Insert(o)
       PROVE  Goal
  BY <1>13, ReturnFrame DEF Insert
<1>14. ASSUME NEW o \in Op, LateTouch(o)
       PROVE  Goal
  BY <1>14, CallsStay DEF LateTouch, opVars
<1>15. ASSUME NEW u \in Url, CacheStale(u)
       PROVE  Goal
  BY <1>15, CallsStay DEF CacheStale, opVars
<1>16. ASSUME NEW u \in Url, CacheEvict(u)
       PROVE  Goal
  BY <1>16, CallsStay DEF CacheEvict, opVars
<1>17. ASSUME NEW u \in Url, NEW c \in Content, OriginChange(u, c)
       PROVE  Goal
  BY <1>17, CallsStay DEF OriginChange, opVars
<1>18. ASSUME NEW c \in Content, ScanFile(c)
       PROVE  Goal
  BY <1>18, CallsStay DEF ScanFile, opVars
<1>19. CASE ScanStart
  BY <1>19, CallsStay DEF ScanStart, opVars
<1>20. CASE ScanRemove
  BY <1>20, CallsStay DEF ScanRemove, opVars
<1>21. CASE ScanEnd
  BY <1>21, CallsStay DEF ScanEnd, opVars
<1>22. CASE Crash
  <2>1. ASSUME NEW p \in Op PROVE Call(p)'
    <3>1. /\ pc'[p] = IF InFlight(p) THEN "done" ELSE pc[p]
          /\ local'[p] = NoLocal /\ UNCHANGED body
      BY <1>22 DEF Crash
    <3>2. CASE InFlight(p)
      BY <3>1, <3>2, CallOver
    <3>3. CASE ~InFlight(p)
      BY <3>1, <3>3 DEF Call, InFlight, Asks, Holds, IInv, Known
    <3> QED BY <3>2, <3>3
  <2> QED BY <2>1
<1>23. CASE UNCHANGED vars
  BY <1>23, CallsStay DEF vars, opVars, diskVars, boundVars
<1> QED
  BY <1>1, <1>2, <1>3, <1>4, <1>5, <1>6, <1>7, <1>8, <1>9, <1>10, <1>11, <1>12, <1>13, <1>14,
     <1>15, <1>16, <1>17, <1>18, <1>19, <1>20, <1>21, <1>22, <1>23 DEF Next, Advance

\* An answer that was given stays right.
LEMMA AnswerFrame ==
  ASSUME IInv, [Next]_vars, NEW p \in Op, result'[p] = result[p],
         pc[p] = "done" => pc'[p] = "done" /\ url'[p] = url[p] /\ body'[p] = body[p]
  PROVE  result'[p] # Null =>
           /\ pc'[p] = "done"
           /\ rows'[result'[p]].state # "absent" /\ rows'[result'[p]].url = url'[p]
           /\ body'[p] # Null => rows'[result'[p]].hash = body'[p]
<1>1. RowsGrow
  BY RowsOnlyGrow
<1>2. result[p] # Null => result[p] \in Op
  BY DEF IInv, Types, TypeOK
<1> QED BY <1>1, <1>2 DEF RowsGrow, IInv, Known, Answered

\* A step that gives no answer leaves those that were given.
LEMMA AnsweredStays ==
  ASSUME IInv, [Next]_vars, UNCHANGED result,
         \A p \in Op : pc[p] = "done" => pc'[p] = "done" /\ url'[p] = url[p] /\ body'[p] = body[p]
  PROVE  Answered'
  BY AnswerFrame DEF Answered

\* A call that returns a row of its URL with its hash answers rightly.
LEMMA ReturnAnswers ==
  ASSUME IInv, [Next]_vars, NEW o \in Op, NEW r, Return(o, r), UNCHANGED body,
         \A p \in Op : p # o => url'[p] = url[p],
         r # Null => /\ rows'[r].state # "absent" /\ rows'[r].url = url'[o]
                     /\ body[o] # Null => rows'[r].hash = body[o]
  PROVE  Answered'
<1>1. /\ \A p \in Op : p # o => result'[p] = result[p] /\ pc'[p] = pc[p]
      /\ result'[o] = r /\ pc'[o] = "done"
  BY DEF Return, Goto, IInv, Types, TypeOK
<1>2. ASSUME NEW p \in Op, result'[p] # Null
      PROVE  /\ pc'[p] = "done"
             /\ rows'[result'[p]].state # "absent" /\ rows'[result'[p]].url = url'[p]
             /\ body'[p] # Null => rows'[result'[p]].hash = body'[p]
  <2>1. CASE p = o
    BY <1>1, <1>2, <2>1
  <2>2. CASE p # o
    BY <1>1, <1>2, <2>2, AnswerFrame
  <2> QED BY <2>1, <2>2
<1> QED BY <1>2 DEF Answered

\* Every step keeps the answers right.
LEMMA AnsweredKept ==
  ASSUME IInv, [Next]_vars
  PROVE  Answered'
<1> DEFINE Goal == Answered'
<1>a. \A r : Usable(r) => r # Null /\ rows[r].state # "absent"
  BY DEF Usable
<1>b. \A p \in Op : InFlight(p) => url[p] \in Url /\ Stands(local[p].cached, url[p])
  BY DEF IInv, Known, Call
<1>1. ASSUME NEW o \in Op, NEW u \in Url, Begin(o, u)
      PROVE  Goal
  <2>1. /\ UNCHANGED <<rows, body>> /\ url' = [url EXCEPT ![o] = u] /\ pc[o] = "idle"
        /\ url'[o] = u /\ \A p \in Op : p # o => url'[p] = url[p]
    BY <1>1 DEF Begin, IInv, Types, TypeOK
  <2>2. CASE Return(o, cache[u].row) /\ Usable(cache[u].row)
    <3>1. body[o] = Null /\ Stands(cache[u], u)
      BY <2>1 DEF IInv, Known, Call
    <3> QED BY <1>a, <2>1, <2>2, <3>1, ReturnAnswers DEF Stands
  <2>3. CASE Load(o, cache[u]) /\ UNCHANGED result
    <3>1. pc' = [pc EXCEPT ![o] = "acquire"]
      BY <2>3 DEF Load, Goto
    <3>2. \A p \in Op : pc[p] = "done" => pc'[p] = "done" /\ url'[p] = url[p] /\ body'[p] = body[p]
      BY <2>1, <3>1
    <3> QED BY <2>3, <3>2, AnsweredStays
  <2> QED BY <1>1, <2>2, <2>3 DEF Begin
<1>2. ASSUME NEW o \in Op, NEW u \in Url, NEW c \in Content, BeginInline(o, u, c)
      PROVE  Goal
  BY <1>2, AnsweredStays DEF BeginInline, Goto, opVars, IInv, Types, TypeOK
<1>3. ASSUME NEW o \in Op, Acquire(o)
      PROVE  Goal
  BY <1>3, AnsweredStays DEF Acquire, Goto, opVars, IInv, Types, TypeOK
<1>4. ASSUME NEW o \in Op, Fetch(o)
      PROVE  Goal
  BY <1>4, AnsweredStays
  DEF Fetch, Respond200, Respond304, RespondError, Goto, IInv, Types, TypeOK
<1>5. ASSUME NEW o \in Op, Revalidate(o)
      PROVE  Goal
  <2>1. CASE Return(o, Null)
    BY <1>5, <2>1, ReturnAnswers DEF Revalidate
  <2>2. CASE Usable(local[o].cached.row) /\ Return(o, local[o].cached.row)
    <3>1. /\ Stands(local[o].cached, url[o]) /\ local[o].cached.tag = body[o]
          /\ body[o] # Null /\ UNCHANGED <<url, body, rows>>
      BY <1>5, <1>b, NullAssumption DEF Revalidate, IInv, Known, Call, InFlight
    <3> QED BY <1>a, <2>2, <3>1, ReturnAnswers DEF Stands
  <2> QED BY <1>5, <2>1, <2>2 DEF Revalidate
<1>6. ASSUME NEW o \in Op, Fallback(o)
      PROVE  Goal
  <2>1. CASE Return(o, Null)
    BY <1>6, <2>1, ReturnAnswers DEF Fallback
  <2>2. CASE \E r \in Previous(url[o]) : Return(o, r)
    <3>1. PICK r \in Previous(url[o]) : Return(o, r)
      BY <2>2
    <3>2. rows[r].url = url[o] /\ rows[r].state # "absent"
      BY NewestUsable, <1>a DEF Previous, IInv, Types
    <3>3. body[o] = Null /\ UNCHANGED <<url, body, rows>>
      BY <1>6 DEF Fallback, IInv, Known, Call
    <3> QED BY <3>1, <3>2, <3>3, ReturnAnswers
  <2> QED BY <1>6, <2>1, <2>2 DEF Fallback
<1>7. ASSUME NEW o \in Op, Match(o)
      PROVE  Goal
  <2>1. UNCHANGED <<url, body, rows>> /\ InFlight(o)
    BY <1>7 DEF Match, InFlight
  <2>2. CASE Return(o, Null)
    BY <2>1, <2>2, ReturnAnswers
  <2>3. CASE \E r \in Same(o) : Return(o, r)
    <3>1. PICK r \in Same(o) : Return(o, r)
      BY <2>3
    <3>2. rows[r].url = url[o] /\ rows[r].state # "absent" /\ rows[r].hash = body[o]
      BY NewestUsable, <1>a, <1>b, <2>1 DEF Same, Stands, IInv, Types
    <3> QED BY <2>1, <3>1, <3>2, ReturnAnswers
  <2>4. CASE Goto(o, "byHash") /\ UNCHANGED result
    BY <1>7, <2>1, <2>4, AnsweredStays DEF Match, Goto, IInv, Types, TypeOK
  <2>5. Same(o) # {} => \E r \in Same(o) :
          r = IF local[o].cached.row \in Same(o) THEN local[o].cached.row ELSE Newest(url[o])
    BY DEF Same
  <2> QED BY <1>7, <2>2, <2>3, <2>4, <2>5 DEF Match
<1>8. ASSUME NEW o \in Op, ByHash(o)
      PROVE  Goal
  <2>1. CASE Return(o, Null)
    BY <1>8, <2>1, ReturnAnswers DEF ByHash
  <2>2. CASE ~Return(o, Null)
    BY <1>8, <2>2, AnsweredStays DEF ByHash, Goto, IInv, Types, TypeOK
  <2> QED BY <2>1, <2>2
<1>9. ASSUME NEW o \in Op, Stat(o)
      PROVE  Goal
  BY <1>9, AnsweredStays DEF Stat, Goto, opVars, IInv, Types, TypeOK
<1>10. ASSUME NEW o \in Op, Rename(o)
       PROVE  Goal
  BY <1>10, AnsweredStays DEF Rename, Goto, opVars, IInv, Types, TypeOK
<1>11. ASSUME NEW o \in Op, Truncate(o)
       PROVE  Goal
  BY <1>11, AnsweredStays DEF Truncate, Goto, opVars, IInv, Types, TypeOK
<1>12. ASSUME NEW o \in Op, FinishWrite(o)
       PROVE  Goal
  <2>1. CASE Return(o, Null)
    BY <1>12, <2>1, ReturnAnswers DEF FinishWrite
  <2>2. CASE ~Return(o, Null)
    BY <1>12, <2>2, AnsweredStays DEF FinishWrite, Goto, IInv, Types, TypeOK
  <2> QED BY <2>1, <2>2
<1>13. ASSUME NEW o \in Op, Insert(o)
       PROVE  Goal
  <2>1. CASE Return(o, Null)
    BY <1>13, <2>1, ReturnAnswers DEF Insert
  <2>2. CASE /\ rows' = [rows EXCEPT ![o] =
                            [url |-> url[o], hash |-> body[o], state |-> "usable"]]
             /\ Return(o, o)
    <3>1. /\ rows'[o].url = url[o] /\ rows'[o].state # "absent" /\ rows'[o].hash = body[o]
          /\ UNCHANGED <<url, body>>
      BY <1>13, <2>2 DEF Insert, IInv, Types, TypeOK
    <3> QED BY <2>2, <3>1, ReturnAnswers
  <2> QED BY <1>13, <2>1, <2>2 DEF Insert
<1>14. ASSUME NEW o \in Op, LateTouch(o)
       PROVE  Goal
  BY <1>14, AnsweredStays DEF LateTouch, Goto, opVars, IInv, Types, TypeOK
<1>15. ASSUME NEW u \in Url, CacheStale(u)
       PROVE  Goal
  BY <1>15, AnsweredStays DEF CacheStale, Goto, opVars, IInv, Types, TypeOK
<1>16. ASSUME NEW u \in Url, CacheEvict(u)
       PROVE  Goal
  BY <1>16, AnsweredStays DEF CacheEvict, Goto, opVars, IInv, Types, TypeOK
<1>17. ASSUME NEW u \in Url, NEW c \in Content, OriginChange(u, c)
       PROVE  Goal
  BY <1>17, AnsweredStays DEF OriginChange, Goto, opVars, IInv, Types, TypeOK
<1>18. ASSUME NEW c \in Content, ScanFile(c)
       PROVE  Goal
  BY <1>18, AnsweredStays DEF ScanFile, Goto, opVars, IInv, Types, TypeOK
<1>19. CASE ScanStart
  BY <1>19, AnsweredStays DEF ScanStart, Goto, opVars, IInv, Types, TypeOK
<1>20. CASE ScanRemove
  BY <1>20, AnsweredStays DEF ScanRemove, Goto, opVars, IInv, Types, TypeOK
<1>21. CASE ScanEnd
  BY <1>21, AnsweredStays DEF ScanEnd, Goto, opVars, IInv, Types, TypeOK
<1>22. CASE Crash
  BY <1>22, AnsweredStays DEF Crash, Goto, opVars, IInv, Types, TypeOK
<1>23. CASE UNCHANGED vars
  BY <1>23, AnsweredStays DEF vars, opVars, diskVars, boundVars
<1> QED
  BY <1>1, <1>2, <1>3, <1>4, <1>5, <1>6, <1>7, <1>8, <1>9, <1>10, <1>11, <1>12, <1>13, <1>14,
     <1>15, <1>16, <1>17, <1>18, <1>19, <1>20, <1>21, <1>22, <1>23 DEF Next, Advance

\* The file is whole in the next state, or there is a reason for it not to be.
ExcusedNext(c) ==
  \/ files'[c] = "full" \/ c \in cuts'
  \/ \E o \in Op : pc'[o] = "writing" /\ body'[o] = c
  \/ \E s \in Seeded : /\ rows'[s].hash = c
                       /\ (s # Null /\ rows'[s].state = "usable") \/ files'[c] = "polluted"

\* The property of the shared files, in the terms of the invariant.
LEMMA WholeIsExcused ==
  SharedFileWhole <=> \A r \in Op : Usable(r) => Excused(rows[r].hash)
  BY DEF SharedFileWhole, Excused, Usable

\* A row may be reused if its state says so.
LEMMA UsableIs == \A r \in Op : Usable(r) <=> rows[r].state = "usable"
  BY NullAssumption DEF Usable

\* The property of the shared files in the next state.
LEMMA WholeIsExcusedNext ==
  SharedFileWhole' <=> \A r \in Op : rows'[r].state = "usable" => ExcusedNext(rows'[r].hash)
  BY NullAssumption, SetsAssumption DEF SharedFileWhole, ExcusedNext, Usable

\* Quarantining a file takes the rows that have it out of use, and no other.
LEMMA QuarantinedIs ==
  ASSUME IInv, NEW c, NEW r \in Op
  PROVE  /\ Quarantined(c)[r].hash = rows[r].hash /\ Quarantined(c)[r].url = rows[r].url
         /\ Quarantined(c)[r].state = "usable" <=> (Usable(r) /\ rows[r].hash # c)
<1>1. rows[r] \in Row
  BY DEF IInv, Types, TypeOK
<1>2. CASE Usable(r) /\ rows[r].hash = c
  <2>1. Quarantined(c)[r] = [rows[r] EXCEPT !.state = "quarantined"]
    BY <1>2 DEF Quarantined
  <2> QED BY <1>1, <1>2, <2>1 DEF Row
<1>3. CASE ~(Usable(r) /\ rows[r].hash = c)
  <2>1. Quarantined(c)[r] = rows[r]
    BY <1>3 DEF Quarantined
  <2> QED BY <1>3, <2>1, UsableIs
<1> QED BY <1>2, <1>3

\* One file may cease to be excused if no reusable row has it any more.
LEMMA WholeBut ==
  ASSUME IInv, NEW b, \A c \in Content : c # b /\ Excused(c) => ExcusedNext(c),
         \A r \in Op : rows'[r].state = "usable" =>
           rows[r].state = "usable" /\ rows'[r].hash = rows[r].hash /\ rows[r].hash # b
  PROVE  SharedFileWhole'
<1>1. ASSUME NEW r \in Op, rows'[r].state = "usable" PROVE ExcusedNext(rows'[r].hash)
  <2>1. /\ rows[r].state = "usable" /\ rows'[r].hash = rows[r].hash /\ rows[r].hash # b
        /\ rows[r].hash \in Content
    BY <1>1 DEF IInv, Table
  <2>2. Excused(rows[r].hash)
    BY <2>1, UsableIs, WholeIsExcused DEF IInv, Writers
  <2> QED BY <2>1, <2>2
<1> QED BY <1>1, WholeIsExcusedNext

\* The shared files stay whole if every file that was excused still is.
LEMMA WholeStays ==
  ASSUME IInv, \A c \in Content : Excused(c) => ExcusedNext(c), UNCHANGED rows
  PROVE  SharedFileWhole'
<1>1. ASSUME NEW r \in Op, rows'[r].state = "usable" PROVE ExcusedNext(rows'[r].hash)
  <2>1. rows[r].state = "usable" /\ rows'[r].hash = rows[r].hash /\ rows[r].hash \in Content
    BY <1>1 DEF IInv, Table
  <2>2. Excused(rows[r].hash)
    BY <2>1, UsableIs, WholeIsExcused DEF IInv, Writers
  <2> QED BY <2>1, <2>2
<1> QED BY <1>1, WholeIsExcusedNext

\* The invariant of the writers in the next state, explicitly.
LEMMA WritersAre ==
  Writers' <=>
  /\ \A c \in Content :
       /\ files'[c] \in Op =>
            c \in cuts' \/ (pc'[files'[c]] = "writing" /\ body'[files'[c]] = c)
       /\ files'[c] = "polluted" => \E x \in Seeded : rows'[x].hash = c
  /\ \A p \in Op : /\ pc'[p] = "writing" => files'[body'[p]] \in Op \union {"full"}
                   /\ pc'[p] = "insert" => ExcusedNext(body'[p])
  /\ SharedFileWhole'
  BY NullAssumption, SetsAssumption DEF Writers, Excused, ExcusedNext, Usable

\* Who is writing what, and what may be linked next.
SameWriters ==
  \A p \in Op :
    /\ pc'[p] = "writing" <=> pc[p] = "writing"
    /\ pc'[p] = "insert" => pc[p] = "insert"
    /\ pc[p] \in {"writing", "insert"} => body'[p] = body[p]

\* A step that moves no writer and no file keeps the invariant of the writers.
LEMMA WritersStay ==
  ASSUME IInv, UNCHANGED <<rows, files, cuts>>, SameWriters
  PROVE  Writers'
<1>1. \A c \in Content : Excused(c) <=> ExcusedNext(c)
  BY DEF SameWriters, Excused, ExcusedNext, Usable
<1>2. \A r \in Op : Usable(r) => rows[r].hash \in Content
  BY DEF Usable, IInv, Table
<1>3. SharedFileWhole'
  BY <1>1, <1>2, WholeStays
<1>4. ASSUME NEW p \in Op, pc'[p] = "insert" PROVE ExcusedNext(body'[p])
  <2>1. pc[p] = "insert" /\ body'[p] = body[p] /\ body[p] \in Content
    BY <1>4 DEF SameWriters, IInv, Known, Call, Holds
  <2> QED BY <1>1, <2>1 DEF IInv, Writers
<1>5. \A c \in Content : files[c] \in Op =>
        c \in cuts \/ (pc'[files[c]] = "writing" /\ body'[files[c]] = c)
  BY DEF SameWriters, IInv, Writers
<1>6. \A p \in Op : pc'[p] = "writing" => files[body'[p]] \in Op \union {"full"}
  BY DEF SameWriters, IInv, Writers
<1>7. \A c \in Content : files[c] = "polluted" => \E x \in Seeded : rows[x].hash = c
  BY DEF IInv, Writers
<1> QED BY <1>3, <1>4, <1>5, <1>6, <1>7, WritersAre

\* A call may link a file that is excused.
LEMMA WritersEnter ==
  ASSUME IInv, UNCHANGED <<rows, files, cuts, body>>, NEW o \in Op,
         pc' = [pc EXCEPT ![o] = "insert"], pc[o] # "writing",
         Excused(body[o]), body[o] \in Content
  PROVE  Writers'
<1>0. \A p \in Op : pc'[p] = IF p = o THEN "insert" ELSE pc[p]
  BY DEF IInv, Types, TypeOK
<1>1. \A c \in Content : Excused(c) <=> ExcusedNext(c)
  BY <1>0 DEF Excused, ExcusedNext, Usable
<1>2. \A r \in Op : Usable(r) => rows[r].hash \in Content
  BY DEF Usable, IInv, Table
<1>3. SharedFileWhole'
  BY <1>1, <1>2, WholeStays
<1>4. ASSUME NEW p \in Op, pc'[p] = "insert" PROVE ExcusedNext(body'[p])
  <2>1. CASE p = o
    BY <1>1, <2>1
  <2>2. CASE p # o
    <3>1. pc[p] = "insert" /\ body[p] \in Content
      BY <1>0, <1>4, <2>2 DEF IInv, Known, Call, Holds
    <3> QED BY <1>1, <3>1 DEF IInv, Writers
  <2> QED BY <2>1, <2>2
<1>5. \A c \in Content : files[c] \in Op =>
        c \in cuts \/ (pc'[files[c]] = "writing" /\ body[files[c]] = c)
  BY <1>0 DEF IInv, Writers
<1>6. \A p \in Op : pc'[p] = "writing" => files[body[p]] \in Op \union {"full"}
  BY <1>0 DEF IInv, Writers
<1>7. \A c \in Content : files[c] = "polluted" => \E x \in Seeded : rows[x].hash = c
  BY DEF IInv, Writers
<1> QED BY <1>3, <1>4, <1>5, <1>6, <1>7, WritersAre

\* A file becomes whole under its call, which goes on to link it.
LEMMA WritersFull ==
  ASSUME IInv, UNCHANGED <<rows, cuts, body>>, NEW o \in Op, body[o] \in Content,
         pc' = [pc EXCEPT ![o] = "insert"], files' = [files EXCEPT ![body[o]] = "full"]
  PROVE  Writers'
<1>0. /\ \A p \in Op : pc'[p] = IF p = o THEN "insert" ELSE pc[p]
      /\ \A c \in Content : files'[c] = IF c = body[o] THEN "full" ELSE files[c]
  BY DEF IInv, Types, TypeOK
<1>1. ASSUME NEW c \in Content, Excused(c) PROVE ExcusedNext(c)
  <2>1. CASE c = body[o]
    BY <1>0, <2>1 DEF Excused, ExcusedNext
  <2>2. CASE c # body[o]
    BY <1>0, <1>1, <2>2 DEF Excused, ExcusedNext, Usable
  <2> QED BY <2>1, <2>2
<1>2. \A r \in Op : Usable(r) => rows[r].hash \in Content
  BY DEF Usable, IInv, Table
<1>3. SharedFileWhole'
  BY <1>1, <1>2, WholeStays
<1>4. ASSUME NEW p \in Op, pc'[p] = "insert" PROVE ExcusedNext(body'[p])
  <2>1. CASE p = o
    BY <1>0, <2>1 DEF Excused, ExcusedNext
  <2>2. CASE p # o
    <3>1. pc[p] = "insert" /\ body[p] \in Content
      BY <1>0, <1>4, <2>2 DEF IInv, Known, Call, Holds
    <3> QED BY <1>1, <3>1 DEF IInv, Writers
  <2> QED BY <2>1, <2>2
<1>5. \A c \in Content : files'[c] \in Op =>
        c \in cuts \/ (pc'[files'[c]] = "writing" /\ body[files'[c]] = c)
  <2>1. "full" \notin Op
    BY FileAssumption
  <2> QED BY <1>0, <2>1 DEF IInv, Writers
<1>6. \A p \in Op : pc'[p] = "writing" => files'[body[p]] \in Op \union {"full"}
  BY <1>0 DEF IInv, Writers, Known, Call, Holds
<1>7. \A c \in Content : files'[c] = "polluted" => \E x \in Seeded : rows[x].hash = c
  BY <1>0 DEF IInv, Writers
<1> QED BY <1>3, <1>4, <1>5, <1>6, <1>7, WritersAre

\* A writer takes its name off the list only when the file is another's or cut short.
LEMMA WritersKept ==
  ASSUME IInv, [Next]_vars
  PROVE  Writers'
<1> DEFINE Goal == Writers'
<1>a. pc \in [Op -> Label] /\ files \in [Content -> {"none", "full", "polluted"} \union Op]
  BY DEF IInv, Types, TypeOK
<1>b. \A p \in Op : Holds(p) => body[p] \in Content
  BY DEF IInv, Known, Call
<1>c. \A r \in Op : Usable(r) => rows[r].hash \in Content
  BY DEF Usable, IInv, Table
<1>1. ASSUME NEW o \in Op, NEW u \in Url, Begin(o, u)
      PROVE  Goal
  BY <1>1, <1>a, WritersStay DEF SameWriters, Begin, Return, Goto, opVars, diskVars, Load
<1>2. ASSUME NEW o \in Op, NEW u \in Url, NEW c \in Content, BeginInline(o, u, c)
      PROVE  Goal
  <2>1. UNCHANGED <<rows, files, cuts>>
    BY <1>2 DEF BeginInline, diskVars
  <2>2. pc[o] = "idle" /\ pc' = [pc EXCEPT ![o] = "byHash"]
    BY <1>2 DEF BeginInline, Goto
  <2>3. \A p \in Op : p # o => body'[p] = body[p]
    BY <1>2 DEF BeginInline, IInv, Types, TypeOK
  <2>4. SameWriters
    BY <1>a, <2>2, <2>3 DEF SameWriters
  <2> QED BY <2>1, <2>4, WritersStay
<1>3. ASSUME NEW o \in Op, Acquire(o)
      PROVE  Goal
  BY <1>3, <1>a, WritersStay DEF SameWriters, Acquire, Return, Goto, opVars, diskVars
<1>4. ASSUME NEW o \in Op, Fetch(o)
      PROVE  Goal
  <2>1. UNCHANGED <<rows, files, cuts>>
    BY <1>4 DEF Fetch
  <2>2. pc[o] = "fetch" /\ \E l \in {"match", "revalidated", "acquire", "fallback"} :
          pc' = [pc EXCEPT ![o] = l]
    BY <1>4 DEF Fetch, Respond200, Respond304, RespondError, Goto
  <2>3. \A p \in Op : p # o => body'[p] = body[p]
    BY <1>4 DEF Fetch, Respond200, Respond304, RespondError, IInv, Types, TypeOK
  <2>4. SameWriters
    BY <1>a, <2>2, <2>3 DEF SameWriters
  <2> QED BY <2>1, <2>4, WritersStay
<1>5. ASSUME NEW o \in Op, Revalidate(o)
      PROVE  Goal
  BY <1>5, <1>a, WritersStay DEF SameWriters, Revalidate, Return, Goto, opVars, diskVars
<1>6. ASSUME NEW o \in Op, Fallback(o)
      PROVE  Goal
  BY <1>6, <1>a, WritersStay DEF SameWriters, Fallback, Return, Goto, opVars, diskVars
<1>7. ASSUME NEW o \in Op, Match(o)
      PROVE  Goal
  BY <1>7, <1>a, WritersStay DEF SameWriters, Match, Return, Goto, opVars, diskVars
<1>8. ASSUME NEW o \in Op, ByHash(o)
      PROVE  Goal
  <2>1. UNCHANGED <<body, rows, files, cuts>> /\ pc[o] = "byHash" /\ body[o] \in Content
    BY <1>8, <1>b DEF ByHash, Holds
  <2>2. CASE Return(o, Null)
    BY <1>a, <2>1, <2>2, WritersStay DEF SameWriters, Return, Goto
  <2>3. CASE Goto(o, "stat")
    BY <1>a, <2>1, <2>3, WritersStay DEF SameWriters, Goto
  <2>4. CASE Goto(o, "insert") /\ \E r \in Op : Usable(r) /\ rows[r].hash = body[o]
    <3>1. Excused(body[o])
      BY <2>4, WholeIsExcused, WholeIsExcusedNext DEF IInv, Writers
    <3> QED BY <2>1, <2>4, <3>1, WritersEnter DEF Goto
  <2> QED BY <1>8, <2>2, <2>3, <2>4 DEF ByHash
<1>9. ASSUME NEW o \in Op, Stat(o)
      PROVE  Goal
  <2>1. UNCHANGED <<body, rows, files, cuts>> /\ pc[o] = "stat" /\ body[o] \in Content
    BY <1>9, <1>b DEF Stat, Holds
  <2>2. CASE \E l \in {"rename", "write"} : Goto(o, l)
    BY <1>a, <2>1, <2>2, WritersStay DEF SameWriters, Goto
  <2>3. CASE Goto(o, "insert") /\ files[body[o]] # "none"
    <3>1. \/ files[body[o]] = "full" \/ files[body[o]] = "polluted" \/ files[body[o]] \in Op
      BY <1>a, <2>1, <2>3
    <3>2. Excused(body[o])
      BY <2>1, <3>1 DEF Excused, ExcusedNext, IInv, Writers
    <3> QED BY <2>1, <2>3, <3>2, WritersEnter DEF Goto
  <2> QED BY <1>9, <2>2, <2>3 DEF Stat
<1>10. ASSUME NEW o \in Op, Rename(o)
       PROVE  Goal
  <2>1. UNCHANGED <<body, rows, cuts>> /\ pc[o] = "rename" /\ body[o] \in Content
    BY <1>10, <1>b DEF Rename, Holds
  <2>2. CASE Goto(o, "write") /\ UNCHANGED files
    BY <1>a, <2>1, <2>2, WritersStay DEF SameWriters, Goto
  <2>3. CASE Goto(o, "insert") /\ files' = [files EXCEPT ![body[o]] = "full"]
    BY <2>1, <2>3, WritersFull DEF Goto
  <2> QED BY <1>10, <2>2, <2>3 DEF Rename
<1>11. ASSUME NEW o \in Op, Truncate(o)
       PROVE  Goal
  <2>1. /\ UNCHANGED <<body, rows, cuts>> /\ pc[o] = "write" /\ body[o] \in Content
        /\ pc' = [pc EXCEPT ![o] = "writing"] /\ files' = [files EXCEPT ![body[o]] = o]
    BY <1>11, <1>b DEF Truncate, Holds, Goto
  <2>2. /\ \A p \in Op : pc'[p] = IF p = o THEN "writing" ELSE pc[p]
        /\ \A c \in Content : files'[c] = IF c = body[o] THEN o ELSE files[c]
    BY <1>a, <2>1
  <2>3. ASSUME NEW c \in Content, Excused(c) PROVE ExcusedNext(c)
    <3>1. CASE c = body[o]
      BY <2>1, <2>2, <3>1 DEF Excused, ExcusedNext
    <3>2. CASE c # body[o]
      BY <2>1, <2>2, <2>3, <3>2 DEF Excused, ExcusedNext, Usable
    <3> QED BY <3>1, <3>2
  <2>4. SharedFileWhole'
    BY <2>1, <2>3, WholeStays
  <2>5. \A p \in Op : pc'[p] = "insert" => ExcusedNext(body'[p])
    BY <1>b, <2>1, <2>2, <2>3 DEF IInv, Writers, Holds
  <2>6. \A c \in Content : files'[c] \in Op =>
          c \in cuts \/ (pc'[files'[c]] = "writing" /\ body[files'[c]] = c)
    BY <2>1, <2>2 DEF IInv, Writers
  <2>7. \A p \in Op : pc'[p] = "writing" => files'[body[p]] \in Op \union {"full"}
    BY <1>b, <2>1, <2>2 DEF IInv, Writers, Holds
  <2>8. \A c \in Content : files'[c] = "polluted" => \E x \in Seeded : rows[x].hash = c
    <3>1. "polluted" \notin Op
      BY FileAssumption
    <3> QED BY <2>2, <3>1 DEF IInv, Writers
  <2> QED BY <2>1, <2>4, <2>5, <2>6, <2>7, <2>8, WritersAre
<1>12. ASSUME NEW o \in Op, FinishWrite(o)
       PROVE  Goal
  <2>1. /\ UNCHANGED <<body, rows>> /\ pc[o] = "writing" /\ body[o] \in Content
    BY <1>12, <1>b DEF FinishWrite, Holds
  <2>2. CASE /\ files' = [files EXCEPT ![body[o]] = "full"]
             /\ Goto(o, "insert") /\ UNCHANGED cuts
    BY <2>1, <2>2, WritersFull DEF Goto
  <2>3. CASE /\ files[body[o]] # o /\ UNCHANGED files
             /\ Goto(o, "insert") /\ UNCHANGED cuts
    <3>0. /\ \A p \in Op : pc'[p] = IF p = o THEN "insert" ELSE pc[p]
          /\ files[body[o]] \in Op \union {"full"}
      BY <1>a, <2>1, <2>3 DEF Goto, IInv, Writers
    <3>1. ExcusedNext(body[o])
      BY <2>1, <2>3, <3>0 DEF Excused, ExcusedNext, IInv, Writers
    <3>2. ASSUME NEW c \in Content, Excused(c) PROVE ExcusedNext(c)
      <4>1. CASE c = body[o]
        BY <2>1, <3>1, <4>1
      <4>2. CASE c # body[o]
        BY <2>1, <2>3, <3>0, <3>2, <4>2 DEF Excused, ExcusedNext, Usable
      <4> QED BY <4>1, <4>2
    <3>3. SharedFileWhole'
      BY <2>1, <3>2, WholeStays
    <3>4. \A p \in Op : pc'[p] = "insert" => ExcusedNext(body'[p])
      BY <1>b, <2>1, <3>0, <3>1, <3>2 DEF IInv, Writers, Holds
    <3>5. \A c \in Content : files[c] \in Op =>
            c \in cuts \/ (pc'[files[c]] = "writing" /\ body[files[c]] = c)
      BY <2>1, <2>3, <3>0 DEF IInv, Writers
    <3>6. \A p \in Op : pc'[p] = "writing" => files[body[p]] \in Op \union {"full"}
      BY <3>0 DEF IInv, Writers
    <3>7. \A c \in Content : files[c] = "polluted" => \E x \in Seeded : rows[x].hash = c
      BY DEF IInv, Writers
    <3> QED BY <2>1, <2>3, <3>3, <3>4, <3>5, <3>6, <3>7, WritersAre
  <2>4. CASE cuts' = cuts \union {body[o]} /\ Return(o, Null) /\ UNCHANGED files
    <3>0. \A p \in Op : pc'[p] = IF p = o THEN "done" ELSE pc[p]
      BY <1>a, <2>4 DEF Return, Goto
    <3>1. ASSUME NEW c \in Content, Excused(c) PROVE ExcusedNext(c)
      BY <2>1, <2>4, <3>0, <3>1 DEF Excused, ExcusedNext, Usable
    <3>2. SharedFileWhole'
      BY <2>1, <3>1, WholeStays
    <3>3. \A p \in Op : pc'[p] = "insert" => ExcusedNext(body'[p])
      BY <1>b, <2>1, <3>0, <3>1 DEF IInv, Writers, Holds
    <3>4. \A c \in Content : files[c] \in Op =>
            c \in cuts' \/ (pc'[files[c]] = "writing" /\ body[files[c]] = c)
      BY <2>1, <2>4, <3>0 DEF IInv, Writers
    <3>5. \A p \in Op : pc'[p] = "writing" => files[body[p]] \in Op \union {"full"}
      BY <3>0 DEF IInv, Writers
    <3>6. \A c \in Content : files[c] = "polluted" => \E x \in Seeded : rows[x].hash = c
      BY DEF IInv, Writers
    <3> QED BY <2>1, <2>4, <3>2, <3>3, <3>4, <3>5, <3>6, WritersAre
  <2> QED BY <1>12, <2>2, <2>3, <2>4 DEF FinishWrite
<1>13. ASSUME NEW o \in Op, Insert(o)
       PROVE  Goal
  <2>1. UNCHANGED <<body, files, cuts>> /\ pc[o] = "insert" /\ body[o] \in Content
        /\ \A p \in Op : pc'[p] = IF p = o THEN "done" ELSE pc[p]
    BY <1>13, <1>a, <1>b DEF Insert, Return, Goto, Holds
  <2>2. CASE UNCHANGED rows
    BY <2>1, <2>2, WritersStay DEF SameWriters
  <2>3. CASE rows' = [rows EXCEPT ![o] = [url |-> url[o], hash |-> body[o], state |-> "usable"]]
    <3>1. /\ o \notin Seeded /\ rows'[o].hash = body[o]
          /\ \A r \in Op : r # o => rows'[r] = rows[r]
      BY <2>1, <2>3, NotYetARow DEF IInv, Types, TypeOK
    <3>2. \A s \in Seeded : rows'[s] = rows[s]
      BY <3>1, SetsAssumption
    <3>3. ASSUME NEW c \in Content, Excused(c) PROVE ExcusedNext(c)
      BY <2>1, <3>2, <3>3 DEF Excused, ExcusedNext, Usable
    <3>4. SharedFileWhole'
      <4>1. ASSUME NEW r \in Op, rows'[r].state = "usable" PROVE ExcusedNext(rows'[r].hash)
        <5>1. CASE r = o
          BY <2>1, <3>1, <3>3, <5>1 DEF IInv, Writers
        <5>2. CASE r # o
          BY <1>c, <3>1, <3>3, <4>1, <5>2, UsableIs, WholeIsExcused DEF IInv, Writers
        <5> QED BY <5>1, <5>2
      <4> QED BY <4>1, WholeIsExcused, WholeIsExcusedNext
    <3>5. \A p \in Op : pc'[p] = "insert" => ExcusedNext(body'[p])
      BY <1>b, <2>1, <3>3 DEF IInv, Writers, Holds
    <3>6. \A c \in Content : files[c] \in Op =>
            c \in cuts \/ (pc'[files[c]] = "writing" /\ body[files[c]] = c)
      BY <2>1 DEF IInv, Writers
    <3>7. \A p \in Op : pc'[p] = "writing" => files[body[p]] \in Op \union {"full"}
      BY <2>1 DEF IInv, Writers
    <3>8. \A c \in Content : files[c] = "polluted" => \E x \in Seeded : rows'[x].hash = c
      BY <3>2 DEF IInv, Writers
    <3> QED BY <2>1, <3>4, <3>5, <3>6, <3>7, <3>8, WritersAre
  <2> QED BY <1>13, <2>2, <2>3 DEF Insert
<1>14. ASSUME NEW o \in Op, LateTouch(o)
       PROVE  Goal
  BY <1>14, <1>a, WritersStay DEF SameWriters, LateTouch, Return, Goto, opVars, diskVars
<1>15. ASSUME NEW u \in Url, CacheStale(u)
       PROVE  Goal
  BY <1>15, <1>a, WritersStay DEF SameWriters, CacheStale, Return, Goto, opVars, diskVars
<1>16. ASSUME NEW u \in Url, CacheEvict(u)
       PROVE  Goal
  BY <1>16, <1>a, WritersStay DEF SameWriters, CacheEvict, Return, Goto, opVars, diskVars
<1>17. ASSUME NEW u \in Url, NEW c \in Content, OriginChange(u, c)
       PROVE  Goal
  BY <1>17, <1>a, WritersStay DEF SameWriters, OriginChange, Return, Goto, opVars, diskVars
<1>18. ASSUME NEW c \in Content, ScanFile(c)
       PROVE  Goal
  <2>1. UNCHANGED <<pc, body, files, cuts>> /\ \A p \in Op : ~InFlight(p)
    BY <1>18 DEF ScanFile, opVars, IInv, Scanning, Quiet
  <2>2. CASE UNCHANGED rows
    BY <2>1, <2>2, WritersStay DEF SameWriters
  <2>3. CASE rows' = Quarantined(c)
    <3>1. \A r \in Op : /\ rows'[r].hash = rows[r].hash
                        /\ rows'[r].state = "usable" <=> (Usable(r) /\ rows[r].hash # c)
      BY <2>3, QuarantinedIs
    <3>2. \A s \in Seeded : /\ rows'[s].hash = rows[s].hash
                            /\ rows'[s].state = "usable" <=> (Usable(s) /\ rows[s].hash # c)
      BY <3>1, SetsAssumption
    <3>3. ASSUME NEW x \in Content, x # c, Excused(x) PROVE ExcusedNext(x)
      BY <2>1, <3>2, <3>3 DEF Excused, ExcusedNext, Usable
    <3>4. SharedFileWhole'
      BY <3>1, <3>3, UsableIs, WholeBut
    <3>5. \A x \in Content : files[x] = "polluted" => \E s \in Seeded : rows'[s].hash = x
      BY <3>2 DEF IInv, Writers
    <3>6. \A x \in Content : files[x] \in Op => x \in cuts
      BY <2>1 DEF IInv, Writers, InFlight
    <3>7. \A p \in Op : pc[p] \notin {"writing", "insert"}
      BY <2>1 DEF InFlight
    <3> QED BY <2>1, <3>4, <3>5, <3>6, <3>7, WritersAre
  <2> QED BY <1>18, <2>2, <2>3 DEF ScanFile
<1>19. CASE ScanStart
  BY <1>19, <1>a, WritersStay DEF SameWriters, ScanStart, Return, Goto, opVars, diskVars
<1>20. CASE ScanRemove
  <2>1. UNCHANGED <<rows, pc, body, cuts>> /\ \A p \in Op : ~InFlight(p)
    BY <1>20 DEF ScanRemove, opVars, IInv, Scanning, Quiet
  <2>2. CASE UNCHANGED files
    BY <2>1, <2>2, WritersStay DEF SameWriters
  <2>3. CASE files' = [files EXCEPT ![scan.file] = "none"]
    <3>1. /\ scan.file \in Content
          /\ \A r \in Op : Usable(r) => rows[r].hash # scan.file
      BY <1>20 DEF ScanRemove, IInv, Scanning
    <3>2. \A x \in Content : files'[x] = IF x = scan.file THEN "none" ELSE files[x]
      BY <1>a, <2>3
    <3>3. ASSUME NEW x \in Content, x # scan.file, Excused(x) PROVE ExcusedNext(x)
      BY <2>1, <3>2, <3>3 DEF Excused, ExcusedNext, Usable
    <3>4. SharedFileWhole'
      BY <2>1, <3>1, <3>3, UsableIs, WholeBut
    <3>5. "none" \notin Op
      BY FileAssumption
    <3>6. \A x \in Content : files[x] \in Op => x \in cuts
      BY <2>1 DEF IInv, Writers, InFlight
    <3>7. \A p \in Op : pc[p] \notin {"writing", "insert"}
      BY <2>1 DEF InFlight
    <3>8. \A x \in Content : files[x] = "polluted" => \E s \in Seeded : rows[s].hash = x
      BY DEF IInv, Writers
    <3> QED BY <2>1, <3>2, <3>4, <3>5, <3>6, <3>7, <3>8, WritersAre
  <2> QED BY <1>20, <2>2, <2>3 DEF ScanRemove
<1>21. CASE ScanEnd
  BY <1>21, <1>a, WritersStay DEF SameWriters, ScanEnd, Return, Goto, opVars, diskVars
<1>22. CASE Crash
  <2>1. /\ UNCHANGED <<rows, body, files>>
        /\ \A p \in Op : pc'[p] = IF InFlight(p) THEN "done" ELSE pc[p]
        /\ cuts' = cuts \union {body[p] : p \in {p \in Op : pc[p] = "writing"}}
    BY <1>22 DEF Crash
  <2>2. \A p \in Op : pc'[p] \in {"idle", "done"}
    BY <2>1 DEF InFlight
  <2>3. ASSUME NEW c \in Content, Excused(c) PROVE ExcusedNext(c)
    BY <2>1, <2>3 DEF Excused, ExcusedNext, Usable
  <2>4. SharedFileWhole'
    BY <2>1, <2>3, WholeStays
  <2>5. \A c \in Content : files[c] \in Op => c \in cuts'
    BY <2>1 DEF IInv, Writers
  <2>6. \A c \in Content : files[c] = "polluted" => \E x \in Seeded : rows[x].hash = c
    BY DEF IInv, Writers
  <2> QED BY <2>1, <2>2, <2>4, <2>5, <2>6, WritersAre
<1>23. CASE UNCHANGED vars
  BY <1>23, WritersStay DEF SameWriters, vars, opVars, diskVars, boundVars
<1> QED
  BY <1>1, <1>2, <1>3, <1>4, <1>5, <1>6, <1>7, <1>8, <1>9, <1>10, <1>11, <1>12, <1>13, <1>14,
     <1>15, <1>16, <1>17, <1>18, <1>19, <1>20, <1>21, <1>22, <1>23 DEF Next, Advance

\* A step that moves no file, no row and no call leaves the scan right.
LEMMA ScanningStays ==
  ASSUME IInv, [Next]_vars, UNCHANGED <<rows, files, scan>>,
         scan.at # "off" => \A p \in Op : pc'[p] = pc[p]
  PROVE  Scanning'
  BY DEF IInv, Scanning, Quiet, InFlight, Usable

\* Every step keeps what the scan has established.
LEMMA ScanningKept ==
  ASSUME IInv, [Next]_vars
  PROVE  Scanning'
<1> DEFINE Goal == Scanning'
<1>a. /\ files \in [Content -> {"none", "full", "polluted"} \union Op]
      /\ scan.at # "off" => \A p \in Op : ~InFlight(p)
      /\ \A r \in Op : Usable(r) => rows[r].hash \in Content
  BY DEF IInv, Types, Scanning, Quiet, Table, Usable
<1>1. ASSUME NEW o \in Op, NEW u \in Url, Begin(o, u)
      PROVE  Goal
  <2>1. scan.at = "off" /\ UNCHANGED scan
    BY <1>1 DEF Begin
  <2> QED BY <2>1 DEF Scanning
<1>2. ASSUME NEW o \in Op, NEW u \in Url, NEW c \in Content, BeginInline(o, u, c)
      PROVE  Goal
  <2>1. scan.at = "off" /\ UNCHANGED scan
    BY <1>2 DEF BeginInline
  <2> QED BY <2>1 DEF Scanning
<1>3. ASSUME NEW o \in Op, Acquire(o)
      PROVE  Goal
  <2>1. UNCHANGED scan /\ InFlight(o)
    BY <1>3 DEF Acquire, InFlight
  <2>2. scan.at = "off"
    BY <1>a, <2>1
  <2> QED BY <2>1, <2>2 DEF Scanning
<1>4. ASSUME NEW o \in Op, Fetch(o)
      PROVE  Goal
  <2>1. UNCHANGED scan /\ InFlight(o)
    BY <1>4 DEF Fetch, InFlight
  <2>2. scan.at = "off"
    BY <1>a, <2>1
  <2> QED BY <2>1, <2>2 DEF Scanning
<1>5. ASSUME NEW o \in Op, Revalidate(o)
      PROVE  Goal
  <2>1. UNCHANGED scan /\ InFlight(o)
    BY <1>5 DEF Revalidate, InFlight
  <2>2. scan.at = "off"
    BY <1>a, <2>1
  <2> QED BY <2>1, <2>2 DEF Scanning
<1>6. ASSUME NEW o \in Op, Fallback(o)
      PROVE  Goal
  <2>1. UNCHANGED scan /\ InFlight(o)
    BY <1>6 DEF Fallback, InFlight
  <2>2. scan.at = "off"
    BY <1>a, <2>1
  <2> QED BY <2>1, <2>2 DEF Scanning
<1>7. ASSUME NEW o \in Op, Match(o)
      PROVE  Goal
  <2>1. UNCHANGED scan /\ InFlight(o)
    BY <1>7 DEF Match, InFlight
  <2>2. scan.at = "off"
    BY <1>a, <2>1
  <2> QED BY <2>1, <2>2 DEF Scanning
<1>8. ASSUME NEW o \in Op, ByHash(o)
      PROVE  Goal
  <2>1. UNCHANGED scan /\ InFlight(o)
    BY <1>8 DEF ByHash, InFlight
  <2>2. scan.at = "off"
    BY <1>a, <2>1
  <2> QED BY <2>1, <2>2 DEF Scanning
<1>9. ASSUME NEW o \in Op, Stat(o)
      PROVE  Goal
  <2>1. UNCHANGED scan /\ InFlight(o)
    BY <1>9 DEF Stat, InFlight
  <2>2. scan.at = "off"
    BY <1>a, <2>1
  <2> QED BY <2>1, <2>2 DEF Scanning
<1>10. ASSUME NEW o \in Op, Rename(o)
       PROVE  Goal
  <2>1. UNCHANGED scan /\ InFlight(o)
    BY <1>10 DEF Rename, InFlight
  <2>2. scan.at = "off"
    BY <1>a, <2>1
  <2> QED BY <2>1, <2>2 DEF Scanning
<1>11. ASSUME NEW o \in Op, Truncate(o)
       PROVE  Goal
  <2>1. UNCHANGED scan /\ InFlight(o)
    BY <1>11 DEF Truncate, InFlight
  <2>2. scan.at = "off"
    BY <1>a, <2>1
  <2> QED BY <2>1, <2>2 DEF Scanning
<1>12. ASSUME NEW o \in Op, FinishWrite(o)
       PROVE  Goal
  <2>1. UNCHANGED scan /\ InFlight(o)
    BY <1>12 DEF FinishWrite, InFlight
  <2>2. scan.at = "off"
    BY <1>a, <2>1
  <2> QED BY <2>1, <2>2 DEF Scanning
<1>13. ASSUME NEW o \in Op, Insert(o)
       PROVE  Goal
  <2>1. UNCHANGED scan /\ InFlight(o)
    BY <1>13 DEF Insert, InFlight
  <2>2. scan.at = "off"
    BY <1>a, <2>1
  <2> QED BY <2>1, <2>2 DEF Scanning
<1>14. ASSUME NEW o \in Op, LateTouch(o)
       PROVE  Goal
  BY <1>14, ScanningStays DEF LateTouch, opVars, diskVars
<1>15. ASSUME NEW u \in Url, CacheStale(u)
       PROVE  Goal
  BY <1>15, ScanningStays DEF CacheStale, opVars, diskVars
<1>16. ASSUME NEW u \in Url, CacheEvict(u)
       PROVE  Goal
  BY <1>16, ScanningStays DEF CacheEvict, opVars, diskVars
<1>17. ASSUME NEW u \in Url, NEW c \in Content, OriginChange(u, c)
       PROVE  Goal
  BY <1>17, ScanningStays DEF OriginChange, opVars, diskVars
<1>18. ASSUME NEW c \in Content, ScanFile(c)
       PROVE  Goal
  <2>1. UNCHANGED <<pc, files>> /\ scan.at = "check" /\ c \in scan.left
    BY <1>18 DEF ScanFile, opVars
  <2>2. Quiet'
    BY <1>a, <2>1 DEF Quiet, InFlight
  <2>3. CASE files[c] = "full" /\ scan' = [scan EXCEPT !.left = scan.left \ {c}] /\ UNCHANGED rows
    <3>0. scan \in [at : {"off", "check", "remove"}, left : SUBSET Content,
                   file : Content \union {Null}]
      BY DEF IInv, Types
    <3>1. scan'.at = "check" /\ scan'.left = scan.left \ {c}
      BY <2>1, <2>3, <3>0
    <3> QED BY <2>1, <2>2, <2>3, <3>1 DEF Scanning, IInv, Usable
  <2>4. CASE rows' = Quarantined(c) /\ scan' = IF files[c] = "none"
                   THEN [scan EXCEPT !.left = scan.left \ {c}]
                   ELSE [at |-> "remove", left |-> scan.left \ {c}, file |-> c]
    <3>1. /\ scan'.left = scan.left \ {c}
          /\ scan'.at = "check" \/ (scan'.at = "remove" /\ scan'.file = c)
      <4>0. scan \in [at : {"off", "check", "remove"}, left : SUBSET Content,
                     file : Content \union {Null}]
        BY DEF IInv, Types
      <4>1. CASE files[c] = "none"
        BY <2>1, <2>4, <4>0, <4>1
      <4>2. CASE files[c] # "none"
        BY <2>4, <4>2
      <4> QED BY <4>1, <4>2
    <3>2. \A r \in Op : /\ rows'[r].hash = rows[r].hash
                        /\ rows'[r].state = "usable" <=> (Usable(r) /\ rows[r].hash # c)
      BY <2>4, QuarantinedIs
    <3>3. \A r \in Op : Usable(r) => rows[r].hash \in scan.left \/ files[rows[r].hash] = "full"
      BY <2>1 DEF IInv, Scanning
    <3>4. \A r \in Op : rows'[r].state = "usable" =>
            rows'[r].hash \in scan'.left \/ files'[rows'[r].hash] = "full"
      BY <2>1, <3>1, <3>2, <3>3
    <3>5. scan'.at = "remove" =>
            /\ scan'.file \in Content
            /\ \A r \in Op : rows'[r].state = "usable" => rows'[r].hash # scan'.file
      BY <3>1, <3>2
    <3>6. \A r \in Op : Usable(r)' <=> rows'[r].state = "usable"
      BY NullAssumption DEF Usable
    <3> QED BY <2>2, <3>1, <3>4, <3>5, <3>6 DEF Scanning, Usable
  <2>5. CASE scan' = NoScan
    BY <2>5 DEF Scanning, NoScan
  <2> QED BY <1>18, <2>3, <2>4, <2>5, Zenon DEF ScanFile
<1>19. CASE ScanStart
  <2>1. UNCHANGED <<rows, pc>> /\ Quiet /\ scan'.at = "check" /\ scan'.left = HashesInUse
    BY <1>19 DEF ScanStart, diskVars, opVars
  <2> QED BY <2>1 DEF Scanning, Quiet, InFlight, Usable, HashesInUse
<1>20. CASE ScanRemove
  <2>1. UNCHANGED <<rows, pc>> /\ scan.at = "remove"
    BY <1>20 DEF ScanRemove, opVars
  <2>2. Quiet'
    BY <1>a, <2>1 DEF Quiet, InFlight
  <2>3. CASE /\ files' = [files EXCEPT ![scan.file] = "none"]
             /\ scan' = [scan EXCEPT !.at = "check", !.file = Null]
    <3>1. scan'.at = "check" /\ scan'.left = scan.left
      BY <2>3 DEF IInv, Types
    <3>2. \A r \in Op : Usable(r) => files'[rows[r].hash] = files[rows[r].hash]
      BY <1>a, <2>1, <2>3 DEF IInv, Scanning
    <3> QED BY <2>1, <2>2, <3>1, <3>2 DEF Scanning, IInv, Usable
  <2>4. CASE scan' = NoScan
    BY <2>4 DEF Scanning, NoScan
  <2> QED BY <1>20, <2>3, <2>4 DEF ScanRemove
<1>21. CASE ScanEnd
  BY <1>21 DEF ScanEnd, NoScan, Scanning
<1>22. CASE Crash
  BY <1>22 DEF Crash, NoScan, Scanning
<1>23. CASE UNCHANGED vars
  BY <1>23, ScanningStays DEF vars, opVars, diskVars, boundVars
<1> QED
  BY <1>1, <1>2, <1>3, <1>4, <1>5, <1>6, <1>7, <1>8, <1>9, <1>10, <1>11, <1>12, <1>13, <1>14,
     <1>15, <1>16, <1>17, <1>18, <1>19, <1>20, <1>21, <1>22, <1>23 DEF Next, Advance

-----------------------------------------------------------------------------
(* Versions.                                                               *)

\* The rows of a table that may be reused for a URL, and the ones among them that
\* calls of this behaviour inserted with a given body.
RowsAt(t, u) == {r \in Op : t[r].state = "usable" /\ t[r].url = u}
CopiesAt(t, u, h) == {r \in RowsAt(t, u) \ Seeded : t[r].hash = h}

\* A body that is served, or that the call holding the lock was served.
Current(u, h) == h = origin[u] \/ \E o \in Op : Holds(o) /\ url[o] = u /\ body[o] = h

\* The copies of a version are one, and the version that is served is the newest row.
Latest ==
  /\ \A u \in Url \ FrameUrl :
       /\ changes = 0 => \A r \in RowsAt(rows, u) \ Seeded : rows[r].hash = origin[u]
       /\ \A h \in Content : Current(u, h) /\ CopiesAt(rows, u, h) # {} =>
            rows[NewestOf(order, RowsAt(rows, u))].hash = h
  /\ \A o \in Op : Holds(o) /\ url[o] \notin FrameUrl =>
       /\ changes = 0 => body[o] = origin[url[o]]
       /\ body[o] # origin[url[o]] => CopiesAt(rows, url[o], origin[url[o]]) = {}
       /\ pc[o] # "match" => CopiesAt(rows, url[o], body[o]) = {}
  /\ \A u \in Url \ FrameUrl, h \in Content : \A q, r \in CopiesAt(rows, u, h) : q = r

\* That is so while the origin changes at most once and no finalize touches an older
\* version meanwhile.
VInv == late = 0 /\ changes <= 1 => Latest

\* A call with a validated body in the next state, and a body that is then current.
HoldsNext(p) == pc'[p] \in {"match", "byHash", "stat", "rename", "write", "writing", "insert"}
CurrentNext(u, h) ==
  h = origin'[u] \/ \E o \in Op : HoldsNext(o) /\ url'[o] = u /\ body'[o] = h

\* The invariant of the versions in the next state, explicitly.
LEMMA LatestIs ==
  Latest' <=>
  /\ \A u \in Url \ FrameUrl :
       /\ changes' = 0 => \A r \in RowsAt(rows', u) \ Seeded : rows'[r].hash = origin'[u]
       /\ \A h \in Content : CurrentNext(u, h) /\ CopiesAt(rows', u, h) # {} =>
            rows'[NewestOf(order', RowsAt(rows', u))].hash = h
  /\ \A o \in Op : HoldsNext(o) /\ url'[o] \notin FrameUrl =>
       /\ changes' = 0 => body'[o] = origin'[url'[o]]
       /\ body'[o] # origin'[url'[o]] => CopiesAt(rows', url'[o], origin'[url'[o]]) = {}
       /\ pc'[o] # "match" => CopiesAt(rows', url'[o], body'[o]) = {}
  /\ \A u \in Url \ FrameUrl, h \in Content : \A q, r \in CopiesAt(rows', u, h) : q = r
  BY DEF Latest, Current, CurrentNext, Holds, HoldsNext

\* The newest row of a URL is the newest of its rows in the table.
LEMMA NewestIsOf ==
  ASSUME IInv, NEW u
  PROVE  Newest(u) = NewestOf(order, RowsAt(rows, u))
<1>1. order \in Seq(Op)
  BY DEF IInv, Types
<1>2. Rows(u) = RowsAt(rows, u)
  BY UsableIs DEF Rows, RowsAt
<1> QED BY <1>1, <1>2, NewestOfRows

\* A URL that has a row that may be reused has a newest one.
LEMMA NewestThere ==
  ASSUME IInv, NEW u, NEW x \in RowsAt(rows, u)
  PROVE  NewestOf(order, RowsAt(rows, u)) \in RowsAt(rows, u)
<1>1. order \in Seq(Op) /\ Null \notin Op
  BY NullAssumption DEF IInv, Types
<1>2. PICK i \in 1 .. Len(order) : order[i] = x
  BY DEF RowsAt, IInv, Table
<1>3. order[i] \in RowsAt(rows, u)
  BY <1>2
<1> QED BY <1>1, <1>3, NewestIn

\* Nothing that matters to the versions happens, but that a call may be served.
LEMMA LatestStays ==
  ASSUME IInv, Latest, UNCHANGED <<rows, origin, changes>>,
         \A u \in Url \ FrameUrl :
           NewestOf(order', RowsAt(rows, u)) = NewestOf(order, RowsAt(rows, u)),
         \A p \in Op : HoldsNext(p) /\ url'[p] \notin FrameUrl =>
           /\ url'[p] = url[p] /\ url[p] \in Url
           /\ \/ /\ Holds(p) /\ body'[p] = body[p]
                 /\ pc'[p] # "match" =>
                      pc[p] # "match" \/ CopiesAt(rows, url[p], body[p]) = {}
              \/ pc'[p] = "match" /\ body'[p] = origin[url[p]]
  PROVE  Latest'
<1>1. ASSUME NEW u \in Url \ FrameUrl, NEW h, CurrentNext(u, h)
      PROVE  Current(u, h)
  <2>1. CASE h = origin'[u]
    BY <2>1 DEF Current
  <2>2. CASE \E o \in Op : HoldsNext(o) /\ url'[o] = u /\ body'[o] = h
    <3>1. PICK o \in Op : HoldsNext(o) /\ url'[o] = u /\ body'[o] = h
      BY <2>2
    <3>2. (url[o] = u /\ Holds(o) /\ body[o] = h) \/ h = origin[u]
      BY <3>1
    <3> QED BY <3>2 DEF Current
  <2> QED BY <1>1, <2>1, <2>2 DEF CurrentNext
<1>2. \A u \in Url \ FrameUrl :
       /\ changes' = 0 => \A r \in RowsAt(rows', u) \ Seeded : rows'[r].hash = origin'[u]
       /\ \A h \in Content : CurrentNext(u, h) /\ CopiesAt(rows', u, h) # {} =>
            rows'[NewestOf(order', RowsAt(rows', u))].hash = h
  BY <1>1 DEF Latest
<1>3. ASSUME NEW o \in Op, HoldsNext(o), url'[o] \notin FrameUrl
      PROVE  /\ changes' = 0 => body'[o] = origin'[url'[o]]
             /\ body'[o] # origin'[url'[o]] => CopiesAt(rows', url'[o], origin'[url'[o]]) = {}
             /\ pc'[o] # "match" => CopiesAt(rows', url'[o], body'[o]) = {}
  BY <1>3 DEF Latest
<1>4. \A u \in Url \ FrameUrl, h \in Content : \A q, r \in CopiesAt(rows', u, h) : q = r
  BY DEF Latest
<1> QED BY <1>2, <1>3, <1>4, LatestIs

\* The same when the order does not change.
LEMMA LatestSame ==
  ASSUME IInv, Latest, UNCHANGED <<rows, order, origin, changes>>,
         \A p \in Op : HoldsNext(p) =>
           /\ Holds(p) /\ url'[p] = url[p] /\ body'[p] = body[p]
           /\ pc'[p] # "match" => pc[p] # "match"
  PROVE  Latest'
<1>1. \A p \in Op : Holds(p) => url[p] \in Url
  BY DEF IInv, Known, Call, InFlight, Holds
<1> QED BY <1>1, LatestStays

\* Nobody holds the body the call with the lock leaves.
LEMMA LeavesAlone ==
  ASSUME IInv, NEW o \in Op, Holds(o), NEW p \in Op, p # o, Holds(p)
  PROVE  url[p] # url[o]
  BY DEF IInv, Locked, InFlight, Holds

\* A call reuses the newest row of its URL, which has its body, and touches it.
LEMMA LatestTouched ==
  ASSUME IInv, Latest, UNCHANGED <<rows, origin, changes, url, body>>,
         NEW o \in Op, Holds(o), url[o] \notin FrameUrl, pc' = [pc EXCEPT ![o] = "done"],
         NEW r \in RowsAt(rows, url[o]), rows[r].hash = body[o], Touch(r)
  PROVE  Latest'
<1>1. /\ order \in Seq(Op) /\ order' = Touched(order, r) /\ r \in Op
      /\ \A p \in Op : pc'[p] = IF p = o THEN "done" ELSE pc[p]
      /\ url[o] \in Url
  BY TouchIs DEF IInv, Types, TypeOK, RowsAt, Known, Call, InFlight, Holds
<1>2. \A p \in Op : HoldsNext(p) => Holds(p) /\ p # o /\ pc'[p] = pc[p] /\ url[p] # url[o]
  BY <1>1, LeavesAlone DEF Holds, HoldsNext
<1>3. ASSUME NEW u
      PROVE  NewestOf(order', RowsAt(rows, u)) =
               IF u = url[o] THEN r ELSE NewestOf(order, RowsAt(rows, u))
  <2>1. r \in RowsAt(rows, u) <=> u = url[o]
    BY <1>1 DEF RowsAt
  <2> QED BY <1>1, <2>1, NewestTouched
<1>4. ASSUME NEW u \in Url \ FrameUrl, NEW h \in Content, CurrentNext(u, h),
             CopiesAt(rows, u, h) # {}
      PROVE  rows[NewestOf(order', RowsAt(rows, u))].hash = h
  <2>1. CASE u = url[o]
    <3>1. h = origin[u]
      BY <1>2, <1>4, <2>1 DEF CurrentNext
    <3>2. body[o] = origin[u]
      BY <1>4, <2>1, <3>1 DEF Latest
    <3> QED BY <1>3, <2>1, <3>1, <3>2
  <2>2. CASE u # url[o]
    <3>1. Current(u, h)
      BY <1>2, <1>4 DEF Current, CurrentNext
    <3> QED BY <1>3, <1>4, <2>2, <3>1 DEF Latest
  <2> QED BY <2>1, <2>2
<1>5. \A u \in Url \ FrameUrl :
        changes' = 0 => \A x \in RowsAt(rows', u) \ Seeded : rows'[x].hash = origin'[u]
  BY DEF Latest
<1>6. \A p \in Op : HoldsNext(p) /\ url'[p] \notin FrameUrl =>
        /\ changes' = 0 => body'[p] = origin'[url'[p]]
        /\ body'[p] # origin'[url'[p]] => CopiesAt(rows', url'[p], origin'[url'[p]]) = {}
        /\ pc'[p] # "match" => CopiesAt(rows', url'[p], body'[p]) = {}
  BY <1>2 DEF Latest
<1>7. \A u \in Url \ FrameUrl, h \in Content : \A x, y \in CopiesAt(rows', u, h) : x = y
  BY DEF Latest
<1> QED BY <1>4, <1>5, <1>6, <1>7, LatestIs

\* A call inserts the first row of its URL with its body.
LEMMA LatestInserted ==
  ASSUME IInv, Latest, UNCHANGED <<origin, changes, url, body>>,
         NEW o \in Op, pc[o] = "insert", pc' = [pc EXCEPT ![o] = "done"],
         rows' = [rows EXCEPT ![o] = [url |-> url[o], hash |-> body[o], state |-> "usable"]],
         order' = Append(order, o)
  PROVE  Latest'
<1>1. /\ order \in Seq(Op) /\ url[o] \in Url /\ body[o] \in Content /\ Holds(o)
      /\ rows[o].state = "absent" /\ o \notin Seeded
      /\ \A p \in Op : pc'[p] = IF p = o THEN "done" ELSE pc[p]
  BY NotYetARow DEF IInv, Types, TypeOK, Known, Call, InFlight, Holds
<1>2. /\ \A x \in Op : x # o => rows'[x] = rows[x]
      /\ rows'[o].url = url[o] /\ rows'[o].hash = body[o] /\ rows'[o].state = "usable"
  BY DEF IInv, Types, TypeOK
<1>3. \A p \in Op : HoldsNext(p) => Holds(p) /\ p # o /\ pc'[p] = pc[p] /\ url[p] # url[o]
  BY <1>1, LeavesAlone DEF Holds, HoldsNext
<1>4. \A u : RowsAt(rows', u) = IF u = url[o] THEN RowsAt(rows, u) \union {o} ELSE RowsAt(rows, u)
  BY <1>1, <1>2 DEF RowsAt
<1>5. \A u, h : CopiesAt(rows', u, h) = IF u = url[o] /\ h = body[o]
                                      THEN CopiesAt(rows, u, h) \union {o}
                                      ELSE CopiesAt(rows, u, h)
  <2>1. \A u, h : o \notin CopiesAt(rows, u, h)
    BY <1>1 DEF CopiesAt, RowsAt
  <2> QED BY <1>1, <1>2, <1>4, <2>1 DEF CopiesAt, RowsAt
<1>6. ASSUME NEW u
      PROVE  NewestOf(order', RowsAt(rows', u)) =
               IF u = url[o] THEN o ELSE NewestOf(order, RowsAt(rows, u))
  <2>1. o \in RowsAt(rows', u) <=> u = url[o]
    BY <1>1, <1>4, ZenonT(60) DEF RowsAt
  <2> DEFINE U == RowsAt(rows', u)
  <2> HIDE DEF U
  <2>2. NewestOf(Append(order, o), U) = IF o \in U THEN o ELSE NewestOf(order, U)
    BY <1>1, NewestAppended
  <2> QED BY <1>4, <2>1, <2>2 DEF U
<1>7. ASSUME NEW u \in Url \ FrameUrl, NEW h \in Content, CurrentNext(u, h),
             CopiesAt(rows', u, h) # {}
      PROVE  rows'[NewestOf(order', RowsAt(rows', u))].hash = h
  <2>1. CASE u = url[o]
    <3>1. h = origin[u]
      BY <1>3, <1>7, <2>1 DEF CurrentNext
    <3>2. body[o] = origin[u]
      <4>1. CASE h = body[o]
        BY <3>1, <4>1
      <4>2. CASE h # body[o]
        <5>1. CopiesAt(rows, u, origin[u]) # {}
          BY <1>5, <1>7, <3>1, <4>2
        <5> QED BY <1>1, <1>7, <2>1, <5>1 DEF Latest
      <4> QED BY <4>1, <4>2
    <3> QED BY <1>2, <1>6, <2>1, <3>1, <3>2
  <2>2. CASE u # url[o]
    <3>1. Current(u, h) /\ CopiesAt(rows, u, h) # {}
      BY <1>3, <1>5, <1>7, <2>2 DEF Current, CurrentNext
    <3>2. rows[NewestOf(order, RowsAt(rows, u))].hash = h
      BY <3>1 DEF Latest
    <3>3. NewestOf(order, RowsAt(rows, u)) \in RowsAt(rows, u)
      BY <3>1, NewestThere DEF CopiesAt
    <3>4. NewestOf(order, RowsAt(rows, u)) # o
      BY <1>1, <3>3 DEF RowsAt
    <3> QED BY <1>2, <1>6, <2>2, <3>2, <3>3, <3>4, ZenonT(60) DEF RowsAt
  <2> QED BY <2>1, <2>2
<1>8. ASSUME NEW u \in Url \ FrameUrl, changes' = 0, NEW x \in RowsAt(rows', u) \ Seeded
      PROVE  rows'[x].hash = origin'[u]
  <2>1. CASE x = o
    <3>1. u = url[o]
      BY <1>2, <2>1 DEF RowsAt
    <3>2. body[o] = origin[u]
      BY <1>1, <1>8, <3>1 DEF Latest
    <3> QED BY <1>2, <2>1, <3>2
  <2>2. CASE x # o
    <3>1. x \in RowsAt(rows, u) \ Seeded /\ rows'[x] = rows[x]
      BY <1>2, <2>2 DEF RowsAt
    <3> QED BY <1>8, <3>1 DEF Latest
  <2> QED BY <2>1, <2>2
<1>9. ASSUME NEW p \in Op, HoldsNext(p), url'[p] \notin FrameUrl
      PROVE  /\ changes' = 0 => body'[p] = origin'[url'[p]]
             /\ body'[p] # origin'[url'[p]] => CopiesAt(rows', url'[p], origin'[url'[p]]) = {}
             /\ pc'[p] # "match" => CopiesAt(rows', url'[p], body'[p]) = {}
  <2>1. Holds(p) /\ pc'[p] = pc[p] /\ url[p] # url[o]
    BY <1>3, <1>9
  <2>2. \A h : CopiesAt(rows', url[p], h) = CopiesAt(rows, url[p], h)
    BY <1>5, <2>1
  <2> QED BY <1>9, <2>1, <2>2 DEF Latest
<1>10. ASSUME NEW u \in Url \ FrameUrl, NEW h \in Content
       PROVE  \A x, y \in CopiesAt(rows', u, h) : x = y
  <2>1. CASE u = url[o] /\ h = body[o]
    <3>1. CopiesAt(rows, u, h) = {}
      BY <1>1, <2>1 DEF Latest
    <3> QED BY <1>5, <2>1, <3>1
  <2>2. CASE ~(u = url[o] /\ h = body[o])
    <3>1. CopiesAt(rows', u, h) = CopiesAt(rows, u, h)
      BY <1>5, <2>2
    <3> QED BY <3>1 DEF Latest
  <2> QED BY <2>1, <2>2
<1> QED BY <1>7, <1>8, <1>9, <1>10, LatestIs

\* The origin changes to a version no row has yet.
LEMMA LatestChanged ==
  ASSUME IInv, Latest, NEW u \in Url, NEW c \in Content, OriginChange(u, c), changes' <= 1
  PROVE  Latest'
<1>1. /\ UNCHANGED <<pc, url, body, rows, order>> /\ c # origin[u] /\ u \notin FrameUrl
      /\ changes = 0 /\ changes' = 1
      /\ \A v \in Url : origin'[v] = IF v = u THEN c ELSE origin[v]
  BY DEF OriginChange, opVars, diskVars, IInv, Types, TypeOK
<1>2. CopiesAt(rows, u, c) = {}
  BY <1>1 DEF CopiesAt, Latest
<1>3. \A p \in Op : HoldsNext(p) <=> Holds(p)
  BY <1>1 DEF Holds, HoldsNext
<1>4. ASSUME NEW v \in Url \ FrameUrl, NEW h \in Content, CurrentNext(v, h),
             CopiesAt(rows, v, h) # {}
      PROVE  rows[NewestOf(order, RowsAt(rows, v))].hash = h
  <2>1. CASE v = u /\ h = c
    BY <1>2, <1>4, <2>1
  <2>2. CASE ~(v = u /\ h = c)
    <3>1. Current(v, h)
      BY <1>1, <1>3, <1>4, <2>2 DEF Current, CurrentNext
    <3> QED BY <1>4, <3>1 DEF Latest
  <2> QED BY <2>1, <2>2
<1>5. ASSUME NEW p \in Op, HoldsNext(p), url'[p] \notin FrameUrl
      PROVE  /\ body'[p] # origin'[url'[p]] => CopiesAt(rows', url'[p], origin'[url'[p]]) = {}
             /\ pc'[p] # "match" => CopiesAt(rows', url'[p], body'[p]) = {}
  <2>1. url[p] \in Url /\ Holds(p)
    BY <1>3, <1>5 DEF IInv, Known, Call, InFlight, Holds
  <2>2. CASE url[p] = u
    BY <1>1, <1>2, <1>5, <2>1, <2>2 DEF Latest
  <2>3. CASE url[p] # u
    BY <1>1, <1>5, <2>1, <2>3 DEF Latest
  <2> QED BY <2>2, <2>3
<1>6. \A v \in Url \ FrameUrl, h \in Content : \A x, y \in CopiesAt(rows, v, h) : x = y
  BY DEF Latest
<1> QED BY <1>1, <1>4, <1>5, <1>6, LatestIs

\* The scan takes the rows of one file out of use, with the newest or without it.
LEMMA LatestQuarantined ==
  ASSUME IInv, Latest, NEW c, rows' = Quarantined(c), \A p \in Op : ~HoldsNext(p),
         UNCHANGED <<order, origin, changes>>
  PROVE  Latest'
<1>1. \A r \in Op :
        /\ rows'[r].hash = rows[r].hash /\ rows'[r].url = rows[r].url
        /\ rows'[r].state = "usable" <=> (rows[r].state = "usable" /\ rows[r].hash # c)
  BY QuarantinedIs, UsableIs
<1>2. \A u : RowsAt(rows', u) = {r \in RowsAt(rows, u) : rows[r].hash # c}
  BY <1>1 DEF RowsAt
<1>3. \A u, h : CopiesAt(rows', u, h) = IF h = c THEN {} ELSE CopiesAt(rows, u, h)
  BY <1>1, <1>2 DEF CopiesAt, RowsAt
<1>4. ASSUME NEW u \in Url \ FrameUrl, NEW h \in Content, CurrentNext(u, h),
             CopiesAt(rows', u, h) # {}
      PROVE  rows'[NewestOf(order', RowsAt(rows', u))].hash = h
  <2> DEFINE n == NewestOf(order, RowsAt(rows, u))
             V == RowsAt(rows', u)
  <2>1. h # c /\ CopiesAt(rows, u, h) # {} /\ Current(u, h)
    BY <1>3, <1>4 DEF Current, CurrentNext
  <2>2. rows[n].hash = h
    BY <2>1 DEF Latest
  <2>3. n \in RowsAt(rows, u)
    BY <2>1, NewestThere DEF CopiesAt
  <2>4. n \in V
    BY <1>2, <2>1, <2>2, <2>3
  <2>5. V \subseteq RowsAt(rows, u) /\ Null \notin V /\ order \in Seq(Op)
    BY <1>2, NullAssumption DEF RowsAt, IInv, Types
  <2> HIDE DEF V
  <2>6. NewestOf(order, V) = n
    BY <2>4, <2>5, NewestOfLess
  <2> QED BY <1>1, <2>2, <2>3, <2>6 DEF V, RowsAt
<1>5. \A u \in Url \ FrameUrl :
        changes' = 0 => \A x \in RowsAt(rows', u) \ Seeded : rows'[x].hash = origin'[u]
  BY <1>1, <1>2 DEF Latest, RowsAt
<1>6. \A u \in Url \ FrameUrl, h \in Content : \A x, y \in CopiesAt(rows', u, h) : x = y
  BY <1>3 DEF Latest
<1> QED BY <1>4, <1>5, <1>6, LatestIs

\* Every step keeps one copy of each version, with the served one the newest.
LEMMA VersionsKept ==
  ASSUME IInv, VInv, [Next]_vars
  PROVE  VInv'
<1>0. SUFFICES ASSUME late' = 0, changes' <= 1
               PROVE  Latest'
  BY DEF VInv
<1> DEFINE Goal == Latest'
<1>a. /\ pc \in [Op -> Label] /\ url \in [Op -> Url \union {Null}]
      /\ body \in [Op -> Content \union {Null}] /\ order \in Seq(Op)
      /\ changes \in Nat /\ late \in Nat
  BY DEF IInv, Types, TypeOK
<1>b. ASSUME late' = late, changes' = changes
      PROVE  Latest
  BY <1>0, <1>b DEF VInv
<1>c. \A p \in Op : HoldsNext(p) <=> Holds(p)'
  BY DEF Holds, HoldsNext
<1>1. ASSUME NEW o \in Op, NEW u \in Url, Begin(o, u)
      PROVE  Goal
  <2>1. Latest /\ UNCHANGED <<rows, order, origin, changes>>
    BY <1>1, <1>b DEF Begin, diskVars, boundVars
  <2>2. \A p \in Op : HoldsNext(p) =>
           /\ Holds(p) /\ url'[p] = url[p] /\ body'[p] = body[p]
           /\ pc'[p] # "match" => pc[p] # "match"
    BY <1>1, <1>a DEF Begin, HoldsNext, Holds, Return, Goto, opVars, Load
  <2> QED BY <2>1, <2>2, LatestSame
<1>2. ASSUME NEW o \in Op, NEW u \in Url, NEW c \in Content, BeginInline(o, u, c)
      PROVE  Goal
  <2>1. Latest /\ UNCHANGED <<rows, order, origin, changes>>
    BY <1>2, <1>b DEF BeginInline, diskVars, boundVars
  <2>2. /\ \A p \in Op : p # o => pc'[p] = pc[p] /\ url'[p] = url[p] /\ body'[p] = body[p]
        /\ url'[o] = u /\ u \in FrameUrl
    BY <1>2, <1>a DEF BeginInline, Goto
  <2>3. \A p \in Op : Holds(p) => url[p] \in Url
    BY DEF IInv, Known, Call, InFlight, Holds
  <2>4. \A p \in Op : HoldsNext(p) /\ url'[p] \notin FrameUrl =>
           url'[p] = url[p] /\ url[p] \in Url /\ Holds(p) /\ body'[p] = body[p] /\ pc'[p] = pc[p]
    BY <2>2, <2>3 DEF Holds, HoldsNext
  <2> QED BY <2>1, <2>4, LatestStays
<1>3. ASSUME NEW o \in Op, Acquire(o)
      PROVE  Goal
  <2>1. Latest /\ UNCHANGED <<rows, order, origin, changes>>
    BY <1>3, <1>b DEF Acquire, diskVars, boundVars
  <2>2. \A p \in Op : HoldsNext(p) =>
           /\ Holds(p) /\ url'[p] = url[p] /\ body'[p] = body[p]
           /\ pc'[p] # "match" => pc[p] # "match"
    BY <1>3, <1>a DEF Acquire, HoldsNext, Holds, Return, Goto, opVars
  <2> QED BY <2>1, <2>2, LatestSame
<1>4. ASSUME NEW o \in Op, Fetch(o)
      PROVE  Goal
  <2>1. Latest /\ UNCHANGED <<url, rows, order, origin, changes>> /\ pc[o] = "fetch"
    BY <1>4, <1>b DEF Fetch, boundVars
  <2>2. /\ \A p \in Op : p # o => pc'[p] = pc[p] /\ body'[p] = body[p]
        /\ pc'[o] \in {"match", "revalidated", "acquire", "fallback"}
        /\ pc'[o] = "match" => body'[o] = origin[url[o]]
    BY <1>4, <1>a DEF Fetch, Respond200, Respond304, RespondError, Goto
  <2>3. \A p \in Op : Holds(p) \/ p = o => url[p] \in Url
    BY <2>1 DEF IInv, Known, Call, InFlight, Holds
  <2>4. \A p \in Op : HoldsNext(p) /\ url'[p] \notin FrameUrl =>
           /\ url'[p] = url[p] /\ url[p] \in Url
           /\ \/ Holds(p) /\ body'[p] = body[p] /\ pc'[p] = pc[p]
              \/ pc'[p] = "match" /\ body'[p] = origin[url[p]]
    BY <2>1, <2>2, <2>3 DEF Holds, HoldsNext
  <2> QED BY <2>1, <2>4, LatestStays
<1>5. ASSUME NEW o \in Op, Revalidate(o)
      PROVE  Goal
  <2>1. Latest /\ UNCHANGED <<rows, order, origin, changes>>
    BY <1>5, <1>b DEF Revalidate, diskVars, boundVars
  <2>2. \A p \in Op : HoldsNext(p) =>
           /\ Holds(p) /\ url'[p] = url[p] /\ body'[p] = body[p]
           /\ pc'[p] # "match" => pc[p] # "match"
    BY <1>5, <1>a DEF Revalidate, HoldsNext, Holds, Return, Goto, opVars
  <2> QED BY <2>1, <2>2, LatestSame
<1>6. ASSUME NEW o \in Op, Fallback(o)
      PROVE  Goal
  <2>1. Latest /\ UNCHANGED <<url, body, rows, origin, changes>> /\ pc[o] = "fallback"
        /\ pc' = [pc EXCEPT ![o] = "done"]
    BY <1>6, <1>b DEF Fallback, Return, Goto
  <2>2. \A p \in Op : HoldsNext(p) =>
           /\ Holds(p) /\ url'[p] = url[p] /\ body'[p] = body[p]
           /\ pc'[p] # "match" => pc[p] # "match"
    BY <1>a, <2>1 DEF HoldsNext, Holds
  <2>3. CASE UNCHANGED order
    BY <2>1, <2>2, <2>3, LatestSame
  <2>4. CASE \E r \in Previous(url[o]) : Touch(r)
    <3>1. PICK r \in Previous(url[o]) : Touch(r)
      BY <2>4
    <3>2. r = NewestOf(order, RowsAt(rows, url[o])) /\ r \in Op /\ order' = Touched(order, r)
          /\ rows[r].url = url[o] /\ rows[r].state = "usable"
      BY <1>a, <3>1, NewestIsOf, NewestUsable, TouchIs, UsableIs DEF Previous, Usable
    <3>3. ASSUME NEW u
          PROVE  NewestOf(order', RowsAt(rows, u)) = NewestOf(order, RowsAt(rows, u))
      <4>1. r \in RowsAt(rows, u) => u = url[o]
        BY <3>2 DEF RowsAt
      <4>2. NewestOf(order', RowsAt(rows, u)) =
              IF r \in RowsAt(rows, u) THEN r ELSE NewestOf(order, RowsAt(rows, u))
        BY <1>a, <3>2, NewestTouched
      <4> QED BY <3>2, <4>1, <4>2
    <3>4. \A p \in Op : Holds(p) => url[p] \in Url
      BY DEF IInv, Known, Call, InFlight, Holds
    <3> QED BY <2>1, <2>2, <3>3, <3>4, LatestStays
  <2> QED BY <1>6, <2>3, <2>4 DEF Fallback
<1>7. ASSUME NEW o \in Op, Match(o)
      PROVE  Goal
  <2>1. Latest /\ UNCHANGED <<url, body, rows, origin, changes>> /\ pc[o] = "match"
    BY <1>7, <1>b DEF Match
  <2>2. Holds(o) /\ url[o] \in Url \ FrameUrl /\ body[o] \in Content
        /\ Stands(local[o].cached, url[o])
    BY <2>1 DEF Holds, IInv, Known, Call, InFlight, Asks
  <2>3. Same(o) \subseteq {r \in RowsAt(rows, url[o]) : rows[r].hash = body[o]}
    <3>1. ASSUME NEW r \in Same(o) PROVE r \in RowsAt(rows, url[o]) /\ rows[r].hash = body[o]
      <4>1. r \in Op /\ rows[r].hash = body[o] /\ Usable(r) /\ rows[r].url = url[o]
        <5>1. CASE r = Newest(url[o])
          BY <1>a, <5>1, NewestUsable DEF Same, Usable
        <5>2. CASE r = local[o].cached.row
          BY <2>2, <5>2 DEF Same, Usable, Stands, IInv, Types, TypeOK, Local, Entry
        <5> QED BY <5>1, <5>2 DEF Same
      <4> QED BY <4>1, UsableIs DEF RowsAt
    <3> QED BY <3>1
  <2>4. CASE \E r \in Same(o) : Touch(r) /\ Return(o, r)
    BY <2>1, <2>2, <2>3, <2>4, LatestTouched DEF Return, Goto
  <2>5. CASE Return(o, Null) /\ UNCHANGED order
    <3>1. \A p \in Op : HoldsNext(p) => Holds(p) /\ pc'[p] = pc[p]
      BY <1>a, <2>5 DEF Return, Goto, HoldsNext, Holds
    <3> QED BY <2>1, <2>5, <3>1, LatestSame
  <2>6. CASE Same(o) = {} /\ Goto(o, "byHash") /\ UNCHANGED order
    <3>1. CopiesAt(rows, url[o], body[o]) = {}
      <4>1. SUFFICES ASSUME CopiesAt(rows, url[o], body[o]) # {} PROVE FALSE
        OBVIOUS
      <4>2. Current(url[o], body[o])
        BY <2>2 DEF Current
      <4>3. rows[NewestOf(order, RowsAt(rows, url[o]))].hash = body[o]
        BY <2>1, <2>2, <4>1, <4>2 DEF Latest
      <4>4. NewestOf(order, RowsAt(rows, url[o])) \in RowsAt(rows, url[o])
        BY <4>1, NewestThere DEF CopiesAt
      <4>5. Usable(Newest(url[o])) /\ rows[Newest(url[o])].hash = body[o]
        BY <4>3, <4>4, NewestIsOf, UsableIs DEF RowsAt
      <4> QED BY <2>6, <4>5 DEF Same
    <3>2. \A p \in Op : Holds(p) => url[p] \in Url
      BY DEF IInv, Known, Call, InFlight, Holds
    <3>3. \A p \in Op : HoldsNext(p) => Holds(p) /\ (p = o \/ pc'[p] = pc[p])
      BY <1>a, <2>2, <2>6 DEF Goto, HoldsNext, Holds
    <3> QED BY <2>1, <2>6, <3>1, <3>2, <3>3, LatestStays
  <2>7. Same(o) # {} => \E r \in Same(o) :
          r = IF local[o].cached.row \in Same(o) THEN local[o].cached.row ELSE Newest(url[o])
    BY DEF Same
  <2> QED BY <1>7, <2>4, <2>5, <2>6, <2>7 DEF Match
<1>8. ASSUME NEW o \in Op, ByHash(o)
      PROVE  Goal
  <2>1. Latest /\ UNCHANGED <<rows, order, origin, changes>>
    BY <1>8, <1>b DEF ByHash, diskVars, boundVars
  <2>2. \A p \in Op : HoldsNext(p) =>
           /\ Holds(p) /\ url'[p] = url[p] /\ body'[p] = body[p]
           /\ pc'[p] # "match" => pc[p] # "match"
    BY <1>8, <1>a DEF ByHash, HoldsNext, Holds, Return, Goto, opVars
  <2> QED BY <2>1, <2>2, LatestSame
<1>9. ASSUME NEW o \in Op, Stat(o)
      PROVE  Goal
  <2>1. Latest /\ UNCHANGED <<rows, order, origin, changes>>
    BY <1>9, <1>b DEF Stat, diskVars, boundVars
  <2>2. \A p \in Op : HoldsNext(p) =>
           /\ Holds(p) /\ url'[p] = url[p] /\ body'[p] = body[p]
           /\ pc'[p] # "match" => pc[p] # "match"
    BY <1>9, <1>a DEF Stat, HoldsNext, Holds, Return, Goto, opVars
  <2> QED BY <2>1, <2>2, LatestSame
<1>10. ASSUME NEW o \in Op, Rename(o)
       PROVE  Goal
  <2>1. Latest /\ UNCHANGED <<rows, order, origin, changes>>
    BY <1>10, <1>b DEF Rename, diskVars, boundVars
  <2>2. \A p \in Op : HoldsNext(p) =>
           /\ Holds(p) /\ url'[p] = url[p] /\ body'[p] = body[p]
           /\ pc'[p] # "match" => pc[p] # "match"
    BY <1>10, <1>a DEF Rename, HoldsNext, Holds, Return, Goto, opVars
  <2> QED BY <2>1, <2>2, LatestSame
<1>11. ASSUME NEW o \in Op, Truncate(o)
       PROVE  Goal
  <2>1. Latest /\ UNCHANGED <<rows, order, origin, changes>>
    BY <1>11, <1>b DEF Truncate, diskVars, boundVars
  <2>2. \A p \in Op : HoldsNext(p) =>
           /\ Holds(p) /\ url'[p] = url[p] /\ body'[p] = body[p]
           /\ pc'[p] # "match" => pc[p] # "match"
    BY <1>11, <1>a DEF Truncate, HoldsNext, Holds, Return, Goto, opVars
  <2> QED BY <2>1, <2>2, LatestSame
<1>12. ASSUME NEW o \in Op, FinishWrite(o)
       PROVE  Goal
  <2>1. Latest /\ UNCHANGED <<rows, order, origin, changes>>
    BY <1>12, <1>b DEF FinishWrite, diskVars, boundVars
  <2>2. \A p \in Op : HoldsNext(p) =>
           /\ Holds(p) /\ url'[p] = url[p] /\ body'[p] = body[p]
           /\ pc'[p] # "match" => pc[p] # "match"
    BY <1>12, <1>a DEF FinishWrite, HoldsNext, Holds, Return, Goto, opVars
  <2> QED BY <2>1, <2>2, LatestSame
<1>13. ASSUME NEW o \in Op, Insert(o)
       PROVE  Goal
  <2>1. Latest /\ UNCHANGED <<url, body, origin, changes>> /\ pc[o] = "insert"
        /\ pc' = [pc EXCEPT ![o] = "done"]
    BY <1>13, <1>b DEF Insert, Return, Goto
  <2>2. CASE UNCHANGED <<rows, order>>
    <3>1. \A p \in Op : HoldsNext(p) => Holds(p) /\ pc'[p] = pc[p]
      BY <1>a, <2>1 DEF HoldsNext, Holds
    <3> QED BY <2>1, <2>2, <3>1, LatestSame
  <2>3. CASE /\ rows' = [rows EXCEPT ![o] =
                            [url |-> url[o], hash |-> body[o], state |-> "usable"]]
             /\ order' = Append(order, o)
    BY <2>1, <2>3, LatestInserted
  <2> QED BY <1>13, <2>2, <2>3 DEF Insert
<1>14. ASSUME NEW o \in Op, LateTouch(o)
       PROVE  Goal
  <2>1. late' = late + 1
    BY <1>14 DEF LateTouch
  <2> QED BY <1>0, <1>a, <2>1
<1>15. ASSUME NEW u \in Url, CacheStale(u)
       PROVE  Goal
  <2>1. Latest /\ UNCHANGED <<rows, order, origin, changes>>
    BY <1>15, <1>b DEF CacheStale, diskVars, boundVars
  <2>2. \A p \in Op : HoldsNext(p) =>
           /\ Holds(p) /\ url'[p] = url[p] /\ body'[p] = body[p]
           /\ pc'[p] # "match" => pc[p] # "match"
    BY <1>15, <1>a DEF CacheStale, HoldsNext, Holds, Return, Goto, opVars
  <2> QED BY <2>1, <2>2, LatestSame
<1>16. ASSUME NEW u \in Url, CacheEvict(u)
       PROVE  Goal
  <2>1. Latest /\ UNCHANGED <<rows, order, origin, changes>>
    BY <1>16, <1>b DEF CacheEvict, diskVars, boundVars
  <2>2. \A p \in Op : HoldsNext(p) =>
           /\ Holds(p) /\ url'[p] = url[p] /\ body'[p] = body[p]
           /\ pc'[p] # "match" => pc[p] # "match"
    BY <1>16, <1>a DEF CacheEvict, HoldsNext, Holds, Return, Goto, opVars
  <2> QED BY <2>1, <2>2, LatestSame
<1>17. ASSUME NEW u \in Url, NEW c \in Content, OriginChange(u, c)
       PROVE  Goal
  <2>1. late' = late /\ changes' = changes + 1
    BY <1>17 DEF OriginChange
  <2>2. Latest
    BY <1>0, <1>a, <2>1 DEF VInv
  <2> QED BY <1>0, <1>17, <2>2, LatestChanged
<1>18. ASSUME NEW c \in Content, ScanFile(c)
       PROVE  Goal
  <2>1. Latest /\ UNCHANGED <<pc, url, body, order, origin, changes>>
        /\ \A p \in Op : ~InFlight(p)
    BY <1>18, <1>b DEF ScanFile, opVars, IInv, Scanning, Quiet
  <2>2. \A p \in Op : ~HoldsNext(p)
    BY <2>1 DEF HoldsNext, InFlight
  <2>3. CASE UNCHANGED rows
    BY <2>1, <2>2, <2>3, LatestSame
  <2>4. CASE rows' = Quarantined(c)
    BY <2>1, <2>2, <2>4, LatestQuarantined
  <2> QED BY <1>18, <2>3, <2>4 DEF ScanFile
<1>19. CASE ScanStart
  <2>1. Latest /\ UNCHANGED <<rows, order, origin, changes>>
    BY <1>19, <1>b DEF ScanStart, diskVars, boundVars
  <2>2. \A p \in Op : HoldsNext(p) =>
           /\ Holds(p) /\ url'[p] = url[p] /\ body'[p] = body[p]
           /\ pc'[p] # "match" => pc[p] # "match"
    BY <1>19, <1>a DEF ScanStart, HoldsNext, Holds, Return, Goto, opVars
  <2> QED BY <2>1, <2>2, LatestSame
<1>20. CASE ScanRemove
  <2>1. Latest /\ UNCHANGED <<rows, order, origin, changes>>
    BY <1>20, <1>b DEF ScanRemove, diskVars, boundVars
  <2>2. \A p \in Op : HoldsNext(p) =>
           /\ Holds(p) /\ url'[p] = url[p] /\ body'[p] = body[p]
           /\ pc'[p] # "match" => pc[p] # "match"
    BY <1>20, <1>a DEF ScanRemove, HoldsNext, Holds, Return, Goto, opVars
  <2> QED BY <2>1, <2>2, LatestSame
<1>21. CASE ScanEnd
  <2>1. Latest /\ UNCHANGED <<rows, order, origin, changes>>
    BY <1>21, <1>b DEF ScanEnd, diskVars, boundVars
  <2>2. \A p \in Op : HoldsNext(p) =>
           /\ Holds(p) /\ url'[p] = url[p] /\ body'[p] = body[p]
           /\ pc'[p] # "match" => pc[p] # "match"
    BY <1>21, <1>a DEF ScanEnd, HoldsNext, Holds, Return, Goto, opVars
  <2> QED BY <2>1, <2>2, LatestSame
<1>22. CASE Crash
  <2>1. Latest /\ UNCHANGED <<rows, order, origin, changes>>
    BY <1>22, <1>b DEF Crash, diskVars, boundVars
  <2>2. \A p \in Op : HoldsNext(p) =>
           /\ Holds(p) /\ url'[p] = url[p] /\ body'[p] = body[p]
           /\ pc'[p] # "match" => pc[p] # "match"
    BY <1>22, <1>a DEF Crash, HoldsNext, Holds, Return, Goto, opVars, InFlight
  <2> QED BY <2>1, <2>2, LatestSame
<1>23. CASE UNCHANGED vars
  <2>1. Latest /\ UNCHANGED <<rows, order, origin, changes>>
    BY <1>23, <1>b DEF vars, diskVars, boundVars
  <2>2. \A p \in Op : HoldsNext(p) =>
           /\ Holds(p) /\ url'[p] = url[p] /\ body'[p] = body[p]
           /\ pc'[p] # "match" => pc[p] # "match"
    BY <1>23, <1>a DEF vars, HoldsNext, Holds, Return, Goto, opVars
  <2> QED BY <2>1, <2>2, LatestSame
<1> QED
  BY <1>1, <1>2, <1>3, <1>4, <1>5, <1>6, <1>7, <1>8, <1>9, <1>10, <1>11, <1>12, <1>13, <1>14,
     <1>15, <1>16, <1>17, <1>18, <1>19, <1>20, <1>21, <1>22, <1>23 DEF Next, Advance

-----------------------------------------------------------------------------
(* The initial state, and the theorems.                                    *)

\* The rows there are at first are all in the order.
LEMMA InitOrder ==
  ASSUME NEW s \in SetToSeqs(Seeded)
  PROVE  s \in Seq(Op) /\ \A r \in Seeded : \E i \in 1 .. Len(s) : s[i] = r
<1> DEFINE n == Cardinality(Seeded)
<1>1. n \in Nat /\ IsFiniteSet(Seeded)
  BY SetsAssumption, FS_CardinalityType
<1>2. s \in [1 .. n -> Seeded] /\ \A i, j \in 1 .. n : s[i] = s[j] => i = j
  BY Zenon DEF SetToSeqs
<1>3. s \in Injection(1 .. n, Seeded)
  BY <1>2 DEF Injection, IsInjective
<1>4. Cardinality(1 .. n) = n /\ IsFiniteSet(1 .. n)
  BY <1>1, FS_Interval
<1>5. s \in Surjection(1 .. n, Seeded)
  BY <1>1, <1>3, <1>4, FS_Injection
<1> HIDE DEF n
<1>6. s \in Seq(Op) /\ Len(s) = n
  BY <1>1, <1>2, SetsAssumption
<1>7. \A r \in Seeded : \E i \in 1 .. n : s[i] = r
  BY <1>5 DEF Surjection
<1> QED BY <1>6, <1>7

\* The invariant holds initially.
LEMMA InitIInv == Init => IInv /\ VInv
<1> SUFFICES ASSUME Init PROVE IInv /\ VInv
  OBVIOUS
<1> USE NullAssumption, SetsAssumption, FileAssumption
<1>1. /\ pc = [o \in Op |-> IF o \in Seeded THEN "done" ELSE "idle"]
      /\ url = [o \in Op |-> Null] /\ body = [o \in Op |-> Null]
      /\ local = [o \in Op |-> NoLocal] /\ result = [o \in Op |-> Null]
      /\ tmp = {} /\ cache = [u \in Url |-> NoEntry] /\ origin \in [Url -> Content]
      /\ scan = NoScan /\ cuts = {} /\ changes = 0 /\ late = 0
  BY DEF Init
<1>2. order \in Seq(Op) /\ \A r \in Seeded : \E i \in 1 .. Len(order) : order[i] = r
  BY InitOrder DEF Init
<1>3. PICK u \in [Seeded -> Url], c \in [Seeded -> Content] :
        \E f \in [Range(c) -> {"full", "polluted", "none"}] :
          /\ rows = [r \in Op |-> IF r \in Seeded
                                 THEN [url |-> u[r], hash |-> c[r], state |-> "usable"]
                                 ELSE NoRow]
          /\ files = [x \in Content |-> IF x \in Range(c) THEN f[x] ELSE "none"]
  BY Zenon DEF Init
<1>4. PICK f \in [Range(c) -> {"full", "polluted", "none"}] :
          /\ rows = [r \in Op |-> IF r \in Seeded
                                 THEN [url |-> u[r], hash |-> c[r], state |-> "usable"]
                                 ELSE NoRow]
          /\ files = [x \in Content |-> IF x \in Range(c) THEN f[x] ELSE "none"]
  BY <1>3
<1>5. /\ \A r \in Seeded : /\ rows[r].url = u[r] /\ rows[r].hash = c[r]
                           /\ rows[r].state = "usable"
      /\ \A r \in Op \ Seeded : rows[r] = NoRow
  BY <1>4
<1>6. \A x \in Content : /\ files[x] \in {"full", "polluted", "none"}
                         /\ files[x] = "polluted" => \E s \in Seeded : c[s] = x
  BY <1>4 DEF Range
<1>7. Types
  <2>1. rows \in [Op -> Row]
    BY <1>4, NoneTyped DEF Row
  <2>2. files \in [Content -> {"none", "full", "polluted"} \union Op]
    BY <1>4, <1>6
  <2>3. CallTypes /\ TmpTypes
    BY <1>1, NoneTyped DEF CallTypes, TmpTypes, Label
  <2>4. StoreTypes
    BY <1>1, <2>1, <2>2, NoneTyped DEF StoreTypes, NoScan
  <2> QED BY <1>2, <2>3, <2>4, TypesAre
<1>8. \A o \in Op : /\ ~InFlight(o) /\ pc[o] \in {"idle", "done"} /\ body[o] = Null
                    /\ result[o] = Null /\ local[o] = NoLocal
  BY <1>1 DEF InFlight
<1>9. Locked
  BY <1>8 DEF Locked
<1>10. Table
  <2>1. NoRow.state = "absent"
    BY DEF NoRow
  <2>2. ASSUME NEW r \in Op, rows[r].state # "absent"
        PROVE  /\ pc[r] = "done" /\ rows[r].url \in Url /\ rows[r].hash \in Content
               /\ \E i \in 1 .. Len(order) : order[i] = r
    <3>1. r \in Seeded
      BY <1>5, <2>1, <2>2
    <3> QED BY <1>1, <1>2, <1>5, <3>1
  <2> QED BY <1>5, <2>2 DEF Table
<1>11. Known
  <2>1. \A v \in Url : Stands(cache[v], v)
    BY <1>1 DEF Stands, NoEntry
  <2> QED BY <1>8, <2>1 DEF Known, Call, Answered, Asks, Holds, InFlight
<1>12. Writers
  <2>1. \A x \in Content : /\ files[x] \notin Op
                           /\ files[x] = "polluted" => \E s \in Seeded : rows[s].hash = x
    BY <1>5, <1>6, FileAssumption
  <2>2. \A r \in Op : Usable(r) => Excused(rows[r].hash)
    <3>1. \A r \in Op : Usable(r) => r \in Seeded
      BY <1>5 DEF Usable, NoRow
    <3> QED BY <3>1 DEF Excused
  <2>3. \A o \in Op : pc[o] \notin {"writing", "insert"}
    BY <1>8
  <2>4. SharedFileWhole
    BY <2>2, WholeIsExcused
  <2>5. ASSUME NEW x \in Content
        PROVE  /\ files[x] \in Op => x \in cuts \/ (pc[files[x]] = "writing" /\ body[files[x]] = x)
               /\ files[x] = "polluted" => \E y \in Seeded : rows[y].hash = x
    BY <2>1
  <2>6. ASSUME NEW o \in Op
        PROVE  /\ pc[o] = "writing" => files[body[o]] \in Op \union {"full"}
               /\ pc[o] = "insert" => Excused(body[o])
    BY <2>3
  <2> QED BY <2>4, <2>5, <2>6 DEF Writers
<1>13. Scanning
  BY <1>1 DEF Scanning, NoScan
<1>14. IInv
  BY <1>7, <1>9, <1>10, <1>11, <1>12, <1>13 DEF IInv
<1>15. Latest
  <2>1. \A v, h : RowsAt(rows, v) \subseteq Seeded /\ CopiesAt(rows, v, h) = {}
    BY <1>5 DEF RowsAt, CopiesAt, NoRow
  <2> QED BY <1>8, <2>1 DEF Latest, Holds
<1> QED BY <1>14, <1>15 DEF VInv

\* Every step keeps the invariant.
LEMMA StepIInv == IInv /\ [Next]_vars => IInv'
<1> SUFFICES ASSUME IInv, [Next]_vars PROVE IInv'
  OBVIOUS
<1>1. Types' /\ Locked' /\ Table'
  BY TypesKept, LockedKept, TableKept
<1>2. Known'
  BY CachesKept, CallsKept, AnsweredKept DEF Known
<1>3. Writers' /\ Scanning'
  BY WritersKept, ScanningKept
<1> QED BY <1>1, <1>2, <1>3 DEF IInv

\* The invariant of calls, cache, table, files and scan holds in every state: a URL has at most
\* one call in flight, a cached validator stands for the body of the row it is cached with, and
\* a file that is not whole has a writer, a crash or an older row to blame.
THEOREM Invariance == Spec => []IInv
<1>1. Init => IInv
  BY InitIInv
<1> QED BY <1>1, StepIInv, PTL DEF Spec

\* Inv, for every set of calls, URLs and bodies: types, and a reusable row's file is whole but
\* for a writer at work, a body a crash cut short or a row seeded without it (CreateOrGetResource,
\* writeFileAtomic and the repair of stat).
THEOREM FilesWhole == Spec => []Inv
<1>1. IInv => Inv
  BY DEF IInv, Inv, Types, Writers
<1> QED BY <1>1, Invariance, PTL

\* AnswerFaithful: what a call answers is a row of its own URL with the body it was served
\* (processResourceUnlocked, whichever of its paths answered).
THEOREM AnswersFaithful == Spec => []AnswerFaithful
<1>1. IInv => AnswerFaithful
  BY DEF IInv, Known, Answered, AnswerFaithful
<1> QED BY <1>1, Invariance, PTL

\* ScanHeals: every file the scan has been through is whole or no row refers to it (the integrity
\* scan of quarantineCorruptedResources).
THEOREM ScanLeavesWhole == Spec => []ScanHeals
<1>1. IInv => ScanHeals
  BY DEF IInv, Scanning, ScanHeals
<1> QED BY <1>1, Invariance, PTL

\* While the origin changes at most once and no finalize touches a row late, each version has at
\* most one copy and the newest row of a URL has the body that is served, if any row has it.
THEOREM VersionsInvariance == Spec => []VInv
<1>1. Init => VInv
  BY InitIInv
<1>2. IInv /\ VInv /\ [Next]_vars => VInv'
  BY VersionsKept
<1> QED BY <1>1, <1>2, Invariance, PTL DEF Spec

\* OneVersion: under the same condition no body of a URL is stored twice (the lock of the URL,
\* GetResourceByURL and the comparison of the hash).
THEOREM VersionsOnce == Spec => []OneVersion
<1>1. IInv /\ VInv => OneVersion
  <2> SUFFICES ASSUME IInv, VInv, late = 0, changes <= 1,
                      NEW q \in Op \ Seeded, NEW r \in Op \ Seeded,
                      Usable(q), Usable(r), rows[q].url \notin FrameUrl,
                      rows[q].url = rows[r].url, rows[q].hash = rows[r].hash
               PROVE  q = r
    BY DEF OneVersion
  <2>1. rows[q].url \in Url /\ rows[q].hash \in Content
    BY DEF IInv, Table, Usable
  <2>2. /\ q \in CopiesAt(rows, rows[q].url, rows[q].hash)
        /\ r \in CopiesAt(rows, rows[q].url, rows[q].hash)
    BY UsableIs DEF CopiesAt, RowsAt
  <2> QED BY <2>1, <2>2 DEF VInv, Latest
<1> QED BY <1>1, Invariance, VersionsInvariance, PTL

-----------------------------------------------------------------------------
(* Calls and permits: what NobodyStuck says with its ENABLED expanded.     *)

\* An entry with a validator is about a row that may be reused.
Fit(e) == e.row # Null \/ e.tag # Null => Usable(e.row)

\* The rows in the cache and in the variables of calls may be reused: the scan
\* has the process to itself, and starts with an empty cache.
FitInv ==
  /\ \A u \in Url : Fit(cache[u])
  /\ \A o \in Op : Fit(local[o].cached)
  /\ scan.at # "off" => \A u \in Url : cache[u] = NoEntry

\* downloadSem never has more permits out than it has.
PermitsInv == IsFiniteSet(Permits) /\ Cardinality(Permits) <= Workers

\* What o needs to go on, if nothing fails: a permit, or the row that a 304 is about.
\* At the other labels a step of its own is always there.
Goes(o) ==
  \/ pc[o] = "acquire" /\ Cardinality(Permits) < Workers
  \/ pc[o] = "revalidated" /\ Usable(local[o].cached.row)
  \/ InFlight(o) /\ pc[o] \notin {"acquire", "revalidated"}

UsableNext(r) == r # Null /\ rows'[r].state = "usable"

\* Outside the scan, a step may put into the cache only entries of usable rows, and into
\* the variables of a call only what is in the cache.
LEMMA FitStays ==
  ASSUME FitInv, scan'.at = "off",
         \A r : Usable(r) => UsableNext(r),
         \A u \in Url : \/ cache'[u].row = cache[u].row /\ cache'[u].tag = cache[u].tag
                        \/ cache'[u] = NoEntry
                        \/ UsableNext(cache'[u].row),
         \A o \in Op : \/ local'[o].cached = local[o].cached
                       \/ local'[o].cached = NoEntry
                       \/ \E u \in Url : local'[o].cached = cache[u]
  PROVE  FitInv'
<1>1. ~(NoEntry.row # Null \/ NoEntry.tag # Null)
  BY DEF NoEntry
<1>2. \A r : UsableNext(r) => Usable(r)'
  BY DEF UsableNext, Usable
<1>3. ASSUME NEW u \in Url PROVE Fit(cache[u])'
  BY <1>1, <1>2, <1>3 DEF FitInv, Fit, UsableNext, Usable
<1>4. ASSUME NEW o \in Op PROVE Fit(local[o].cached)'
  BY <1>1, <1>2, <1>4 DEF FitInv, Fit, UsableNext, Usable
<1> QED BY <1>3, <1>4 DEF FitInv

\* A renewed entry is of a usable row; the others stay.
LEMMA FitRemembered ==
  ASSUME TypeOK, NEW v \in Url, NEW r, NEW m, Remember(v, r, m), UsableNext(r)
  PROVE  \A u \in Url : cache'[u] = cache[u] \/ UsableNext(cache'[u].row)
<1>1. cache'[v] = [row |-> r, tag |-> m.tag, fresh |-> m.fresh]
  BY DEF Remember, TypeOK
<1>2. \A u \in Url : u # v => cache'[u] = cache[u]
  BY DEF Remember, TypeOK
<1> QED BY <1>1, <1>2

\* A step of a call in flight.
LEMMA FitAdvance ==
  ASSUME IInv, FitInv, NEW o \in Op, Advance(o)
  PROVE  FitInv'
<1> DEFINE Cached == \A u \in Url : cache'[u] = cache[u] \/ UsableNext(cache'[u].row)
           Kept == \A q \in Op : \/ local'[q].cached = local[q].cached
                                 \/ local'[q].cached = NoEntry
<1> USE DEF Goto, Return, opVars, diskVars, boundVars
<1>1. TypeOK /\ (InFlight(o) => url[o] \in Url)
  BY DEF IInv, Types, Known, Call
<1>2. scan' = scan /\ InFlight(o)
  BY DEF Advance, Acquire, Fetch, Revalidate, Fallback, Match, ByHash, Stat, Rename,
     Truncate, FinishWrite, Insert, InFlight
<1>3. scan'.at = "off"
  BY <1>2 DEF IInv, Scanning, Quiet
<1>4. ASSUME rows' = [rows EXCEPT ![o] = [url |-> url[o], hash |-> body[o],
                                          state |-> "usable"]]
      PROVE  UsableNext(o) /\ \A r : Usable(r) => UsableNext(r)
  <2>1. rows'[o].state = "usable" /\ \A r \in Op \ {o} : rows'[r] = rows[r]
    BY <1>1, <1>4 DEF TypeOK
  <2>2. \A r : r \notin Op => rows'[r] = rows[r]
    BY <1>1, <1>4 DEF TypeOK
  <2> QED BY <2>1, <2>2, NullAssumption DEF Usable, UsableNext
<1>5. \A r : Usable(r) => UsableNext(r)
  <2>1. CASE UNCHANGED rows
    BY <2>1 DEF Usable, UsableNext
  <2>2. CASE Insert(o)
    BY <2>1, <2>2, <1>4 DEF Insert
  <2> QED BY <2>1, <2>2 DEF Advance, Acquire, Fetch, Revalidate, Fallback, Match, ByHash,
        Stat, Rename, Truncate, FinishWrite
<1>6. Cached
  <2>1. CASE UNCHANGED cache
    BY <2>1
  <2>2. CASE \E r, m : Remember(url[o], r, m) /\ UsableNext(r)
    BY <2>2, <1>1, <1>2, FitRemembered
  <2>3. CASE Revalidate(o)
    BY <2>1, <2>2, <2>3, <1>5 DEF Revalidate
  <2>4. CASE Fallback(o)
    BY <2>1, <2>2, <2>4, <1>5 DEF Fallback, Previous
  <2>5. CASE Match(o)
    BY <2>1, <2>2, <2>5, <1>5 DEF Match, Same
  <2>6. CASE Insert(o)
    BY <2>1, <2>2, <2>6, <1>4 DEF Insert
  <2> QED BY <2>1, <2>3, <2>4, <2>5, <2>6 DEF Advance, Acquire, Fetch, ByHash, Stat,
        Rename, Truncate, FinishWrite
<1>7. Kept
  <2>1. NoLocal.cached = NoEntry
    BY DEF NoLocal
  <2>2. CASE UNCHANGED local
    BY <2>2
  <2>3. CASE local' = [local EXCEPT ![o] = NoLocal]
    BY <2>1, <2>3, <1>1 DEF TypeOK
  <2>4. CASE Fetch(o)
    <3>1. \/ UNCHANGED local
          \/ \E m : local' = [local EXCEPT ![o].meta = m]
          \/ \E n : local' = [local EXCEPT ![o].attempt = n]
      BY <2>4 DEF Fetch, Respond200, Respond304, RespondError
    <3> QED BY <3>1, <1>1 DEF TypeOK, Local
  <2> QED BY <2>2, <2>3, <2>4 DEF Advance, Acquire, Revalidate, Fallback, Match, ByHash,
        Stat, Rename, Truncate, FinishWrite, Insert
<1> QED BY <1>3, <1>5, <1>6, <1>7, FitStays

\* Every step keeps the rows in the cache and in the calls usable.
LEMMA FitKept ==
  ASSUME IInv, FitInv, [Next]_vars
  PROVE  FitInv'
<1> USE DEF opVars, diskVars, boundVars
<1>0. TypeOK
  BY DEF IInv, Types
<1>1. ASSUME NEW o \in Op, Advance(o)
      PROVE  FitInv'
  BY <1>1, FitAdvance
<1>2. ASSUME NEW o \in Op, NEW u \in Url, Begin(o, u)
      PROVE  FitInv'
  <2>1. scan'.at = "off" /\ UNCHANGED rows
    BY <1>2 DEF Begin
  <2>2. \A v \in Url : cache'[v] = cache[v] \/ cache'[v] = NoEntry
    BY <1>2, <1>0 DEF Begin, Load, Return, TypeOK
  <2>3. \/ local' = [local EXCEPT ![o] = NoLocal]
        \/ local' = [local EXCEPT ![o].cached = cache[u]]
    BY <1>2 DEF Begin, Load, Return
  <2>4. \A q \in Op : \/ local'[q].cached = local[q].cached
                      \/ local'[q].cached = NoEntry
                      \/ local'[q].cached = cache[u]
    BY <2>3, <1>0 DEF TypeOK, Local, NoLocal
  <2>5. \A r : Usable(r) => UsableNext(r)
    BY <2>1 DEF Usable, UsableNext
  <2> QED BY <2>1, <2>2, <2>4, <2>5, FitStays
<1>3. ASSUME UNCHANGED <<rows, local, scan>>,
             \A v \in Url : \/ cache'[v] = cache[v]
                           \/ cache'[v] = NoEntry
                           \/ /\ cache'[v].row = cache[v].row /\ cache'[v].tag = cache[v].tag
                              /\ cache[v] # NoEntry
      PROVE  FitInv'
  <2>1. \A v \in Url : Fit(cache[v])'
    BY <1>3 DEF FitInv, Fit, Usable, NoEntry
  <2>2. \A q \in Op : Fit(local[q].cached)'
    BY <1>3 DEF FitInv, Fit, Usable
  <2>3. scan'.at # "off" => \A v \in Url : cache'[v] = NoEntry
    BY <1>3 DEF FitInv
  <2> QED BY <2>1, <2>2, <2>3 DEF FitInv
<1>4. ASSUME \A q \in Op : local'[q] = NoLocal,
             \A v \in Url : cache'[v] = NoEntry
      PROVE  FitInv'
  <2>1. NoLocal.cached = NoEntry /\ ~(NoEntry.row # Null \/ NoEntry.tag # Null)
    BY DEF NoLocal, NoEntry
  <2> QED BY <1>4, <2>1 DEF FitInv, Fit
<1>5. scan.at # "off" \/ Quiet => \A q \in Op : local[q] = NoLocal
  BY DEF IInv, Scanning, Quiet, Known, Call
<1>6. ASSUME NEW c \in Content, ScanFile(c)
      PROVE  FitInv'
  BY <1>4, <1>5, <1>6 DEF ScanFile, FitInv
<1>7. CASE ScanStart
  BY <1>4, <1>5, <1>7 DEF ScanStart
<1>8. CASE ScanRemove \/ ScanEnd
  BY <1>4, <1>5, <1>8 DEF ScanRemove, ScanEnd, FitInv
<1>9. CASE Crash
  BY <1>4, <1>9 DEF Crash
<1>10. CASE \/ \E o \in Op : LateTouch(o)
            \/ \E o \in Op, u \in Url, c \in Content : BeginInline(o, u, c)
            \/ \E u \in Url, c \in Content : OriginChange(u, c)
            \/ UNCHANGED vars
  BY <1>3, <1>10 DEF LateTouch, BeginInline, OriginChange, vars
<1>11. ASSUME NEW u \in Url, CacheStale(u)
       PROVE  FitInv'
  <2>1. \A v \in Url : v # u => cache'[v] = cache[v]
    BY <1>0, <1>11 DEF CacheStale, TypeOK
  <2>2. cache'[u].row = cache[u].row /\ cache'[u].tag = cache[u].tag
    BY <1>0, <1>11 DEF CacheStale, TypeOK, Entry
  <2>3. cache[u] # NoEntry
    BY <1>11 DEF CacheStale, NoEntry
  <2>4. UNCHANGED <<rows, local, scan>>
    BY <1>11 DEF CacheStale
  <2> QED BY <1>3, <2>1, <2>2, <2>3, <2>4
<1>12. ASSUME NEW u \in Url, CacheEvict(u)
       PROVE  FitInv'
  BY <1>0, <1>3, <1>12 DEF CacheEvict, TypeOK
<1> QED BY <1>1, <1>2, <1>6, <1>7, <1>8, <1>9, <1>10, <1>11, <1>12 DEF Next

\* Only Acquire takes a permit, and it finds one left.
LEMMA PermitsKept ==
  ASSUME TypeOK, PermitsInv, [Next]_vars
  PROVE  PermitsInv'
<1> DEFINE Taken == {p \in Op : pc'[p] = "fetch"}
<1> USE DEF Goto, Return, opVars, diskVars, boundVars
<1>1. Permits' = Taken
  BY DEF Permits
<1>2. Workers \in Nat
  BY BoundsAssumption
<1>3. CASE \E o \in Op : Acquire(o)
  <2>1. PICK o \in Op : Acquire(o)
    BY <1>3
  <2>2. Taken \subseteq Permits \union {o} /\ Cardinality(Permits) < Workers
    BY <2>1 DEF Acquire, Permits, TypeOK
  <2>3. /\ IsFiniteSet(Permits \union {o})
        /\ Cardinality(Permits \union {o}) <= Workers
    <3>1. IsFiniteSet(Permits) /\ Cardinality(Permits) \in Nat
      BY FS_CardinalityType DEF PermitsInv
    <3>2. /\ IsFiniteSet(Permits \union {o})
          /\ \/ Cardinality(Permits \union {o}) = Cardinality(Permits)
             \/ Cardinality(Permits \union {o}) = Cardinality(Permits) + 1
      BY <3>1, FS_AddElement
    <3> HIDE DEF Permits
    <3> QED BY <2>2, <3>1, <3>2, <1>2
  <2>4. IsFiniteSet(Taken) /\ Cardinality(Taken) <= Cardinality(Permits \union {o})
    BY <2>2, <2>3, FS_Subset
  <2>5. Cardinality(Taken) \in Nat /\ Cardinality(Permits \union {o}) \in Nat
    BY <2>3, <2>4, FS_CardinalityType
  <2> QED BY <1>1, <1>2, <2>3, <2>4, <2>5 DEF PermitsInv
<1>4. CASE Taken \subseteq Permits
  <2>1. IsFiniteSet(Taken) /\ Cardinality(Taken) <= Cardinality(Permits)
    BY <1>4, FS_Subset DEF PermitsInv
  <2>2. Cardinality(Taken) \in Nat /\ Cardinality(Permits) \in Nat
    BY <2>1, FS_CardinalityType DEF PermitsInv
  <2> QED BY <1>1, <1>2, <2>1, <2>2 DEF PermitsInv
<1>5. CASE UNCHANGED pc
  BY <1>4, <1>5 DEF Permits
<1>6. ASSUME NEW o \in Op, NEW l, l # "fetch", pc' = [pc EXCEPT ![o] = l]
      PROVE  PermitsInv'
  BY <1>4, <1>6 DEF Permits, TypeOK
<1>7. ASSUME NEW o \in Op, Advance(o), ~Acquire(o)
      PROVE  PermitsInv'
  BY <1>5, <1>6, <1>7 DEF Advance, Fetch, Respond200, Respond304, RespondError, Revalidate,
     Fallback, Match, ByHash, Stat, Rename, Truncate, FinishWrite, Insert
<1>8. ASSUME NEW o \in Op, NEW u \in Url,
             Begin(o, u) \/ \E c \in Content : BeginInline(o, u, c)
      PROVE  PermitsInv'
  BY <1>6, <1>8 DEF Begin, Load, BeginInline
<1>9. CASE Crash
  BY <1>4, <1>9 DEF Crash, Permits, InFlight, TypeOK
<1>10. CASE \/ \E o \in Op : LateTouch(o)
            \/ \E u \in Url : CacheStale(u) \/ CacheEvict(u)
            \/ \E u \in Url, c \in Content : OriginChange(u, c)
            \/ \E c \in Content : ScanFile(c)
            \/ ScanStart \/ ScanRemove \/ ScanEnd \/ UNCHANGED vars
  BY <1>5, <1>10 DEF LateTouch, CacheStale, CacheEvict, OriginChange, ScanFile, ScanStart,
     ScanRemove, ScanEnd, vars
<1> QED BY <1>3, <1>7, <1>8, <1>9, <1>10 DEF Next

\* At first the cache is empty and nothing is downloaded.
LEMMA InitFit == Init => FitInv /\ PermitsInv
<1> SUFFICES ASSUME Init PROVE FitInv /\ PermitsInv
  OBVIOUS
<1>1. FitInv
  BY DEF Init, FitInv, Fit, NoEntry, NoLocal, NoScan
<1>2. Permits = {}
  BY DEF Init, Permits
<1>3. IsFiniteSet(Permits) /\ Cardinality(Permits) = 0
  BY <1>2, FS_EmptySet
<1> QED BY <1>1, <1>3, BoundsAssumption DEF PermitsInv

\* No more downloads run than downloadSem has permits (AcquireDownload, and the release
\* after each attempt of Download).
THEOREM PermitsBounded == Spec => []PermitsInv
<1>1. IInv => TypeOK
  BY DEF IInv, Types
<1> QED BY <1>1, InitFit, PermitsKept, Invariance, PTL DEF Spec

\* Calls do not wait for each other in a circle: while some are in flight, one of them
\* has what it needs to go on without an error, a free permit or, after a 304, the row
\* that its cache entry is about.
THEOREM SomeoneGoes == Spec => [](Quiet \/ \E o \in Op : Goes(o))
<1>1. ASSUME IInv, FitInv, NEW o \in Op, InFlight(o)
      PROVE  \E q \in Op : Goes(q)
  <2>1. CASE \E q \in Op : pc[q] = "fetch"
    BY <2>1 DEF Goes, InFlight
  <2>2. CASE Permits = {} /\ pc[o] = "acquire"
    BY <2>2, FS_EmptySet, BoundsAssumption DEF Goes
  <2>3. CASE pc[o] = "revalidated"
    <3>1. local[o].cached.tag # Null
      BY <1>1, <2>3, NullAssumption DEF IInv, Known, Call
    <3> QED BY <1>1, <2>3, <3>1 DEF FitInv, Fit, Goes
  <2> QED BY <1>1, <2>1, <2>2, <2>3 DEF Goes, Permits
<1>2. IInv /\ FitInv => Quiet \/ \E o \in Op : Goes(o)
  BY <1>1 DEF Quiet
<1> QED BY <1>2, InitFit, FitKept, Invariance, PTL DEF Spec
=============================================================================
