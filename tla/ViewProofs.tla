---------------------------- MODULE ViewProofs ----------------------------
(* What the web pages show.  Snapshots: a request is answered within its   *)
(* scope, an ended share with nothing, a handed-out path with its file, and*)
(* every URL with the closest linked row.  Lists: what is shown is what the*)
(* inputs ask for, and turning the pages neither repeats nor skips a row.  *)
EXTENDS SnapshotView, PageList, FiniteSetTheorems, TLAPS, WellFoundedInduction

-----------------------------------------------------------------------------
(* Numbers.                                                                *)

Below == {q \in Nat \X Nat : q[1] < q[2]}

\* Every set of numbers has a least one.
LEMMA Least ==
  ASSUME NEW T \in SUBSET Nat, T # {}
  PROVE  \E n \in T : \A m \in T : n <= m
<1>1. IsWellFoundedOn(Below, Nat)
  BY NatLessThanWellFounded, Zenon DEF Below, OpToRel
<1>2. PICK n \in T : \A m \in T : <<m, n>> \notin Below
  <2>1. \E n \in T : \A m \in T : <<m, n>> \notin Below
    BY <1>1, WFMin, Zenon
  <2> QED BY <2>1
<1>3. \A m \in T : ~(m < n)
  BY <1>2 DEF Below
<1> QED BY <1>3

\* A finite set of numbers is bounded.
LEMMA FiniteBounded ==
  ASSUME NEW S \in SUBSET Nat, IsFiniteSet(S)
  PROVE  \E b \in Nat : \A r \in S : r <= b
<1> DEFINE n == Cardinality(S)
<1>1. n \in Nat /\ \E f : f \in Bijection(1 .. n, S)
  BY FS_CardinalityType DEF ExistsBijection
<1>2. PICK f \in [1 .. n -> S] : \A r \in S : \E i \in 1 .. n : f[i] = r
  BY <1>1 DEF Bijection, Surjection
<1> HIDE DEF n
<1> DEFINE Bounded(m) == \E b \in Nat : \A i \in 1 .. m : f[i] <= b
           Left == {k \in 0 .. n : Bounded(n - k)}
<1>3. n \in Left
  <2>1. Bounded(0)
    OBVIOUS
  <2>2. n - n = 0
    BY <1>1
  <2> QED BY <1>1, <2>1, <2>2
<1>4. PICK k \in Left : \A j \in Left : k <= j
  <2>1. Left \in SUBSET Nat
    BY <1>1
  <2> QED BY <1>3, <2>1, Least
<1>5. CASE k = 0
  BY <1>1, <1>2, <1>4, <1>5
<1>6. CASE k # 0
  <2>1. k \in 1 .. n /\ n - k + 1 \in 1 .. n /\ n - (k - 1) = n - k + 1
    BY <1>1, <1>4, <1>6
  <2>2. PICK b \in Nat : \A i \in 1 .. (n - k) : f[i] <= b
    BY <1>4
  <2>3. f[n - k + 1] \in Nat
    BY <1>2, <2>1
  <2> DEFINE c == IF b <= f[n - k + 1] THEN f[n - k + 1] ELSE b
  <2>4. c \in Nat /\ b <= c /\ f[n - k + 1] <= c
    BY <2>3
  <2> HIDE DEF c
  <2>5. ASSUME NEW i \in 1 .. (n - k + 1)
        PROVE  f[i] <= c
    <3>1. CASE i = n - k + 1
      BY <2>4, <3>1
    <3>2. CASE i # n - k + 1
      <4>1. i \in 1 .. (n - k) /\ i \in 1 .. n
        BY <1>1, <2>1, <3>2
      <4>2. f[i] \in Nat
        BY <1>2, <4>1
      <4> QED BY <2>2, <2>4, <4>1, <4>2
    <3> QED BY <3>1, <3>2
  <2>6. Bounded(n - k + 1)
    BY <2>4, <2>5
  <2>7. k - 1 \in 0 .. n /\ Bounded(n - (k - 1))
    BY <1>1, <2>1, <2>6
  <2>8. k - 1 \in Left
    BY <2>7
  <2>9. k <= k - 1
    BY <1>4, <2>8
  <2> QED BY <2>1, <2>9
<1> QED BY <1>5, <1>6

-----------------------------------------------------------------------------
(* Snapshots: the inductive invariant.                                     *)

Working == {"token", "lookup", "file"}

\* What kind of request a reader serves at each stage of it.
Kind(q) ==
  /\ rd[q].pc \in Working => (rd[q].token = Null) # (rd[q].page = Null)
  /\ rd[q].file # Null => rd[q].url = Null /\ rd[q].token # Null /\ rd[q].css = Null
  /\ rd[q].pc = "token" => rd[q].token # Null
  /\ rd[q].pc = "token" /\ rd[q].file = Null => rd[q].url # Null
  /\ rd[q].pc = "lookup" => rd[q].url # Null
  /\ rd[q].pc = "file" => rd[q].file # Null

\* The answer found so far.
Answer(q) ==
  /\ rd[q].pc \in {"token", "file", "denied"} => rd[q].css = Null /\ rd[q].main = Null
  /\ rd[q].pc \in {"token", "lookup", "file", "denied"} => rd[q].sub = Null
  /\ rd[q].pc = "lookup" /\ rd[q].css = Null => rd[q].main = Null
  /\ rd[q].css = Null => rd[q].sub = Null
  /\ rd[q].css # Null => rd[q].main = rd[q].css /\ SubUrl[rd[q].css] # Null
  /\ rd[q].pc = "unresolved" => rd[q].css # Null

\* The history agrees with the scope while the request is being looked up.
History(q) ==
  /\ rd[q].pc \in Working => kept[q] \subseteq Scope(q) /\ Scope(q) \subseteq ever[q]
  /\ rd[q].token # Null /\ kept[q] # {} => shares[rd[q].token] # "gone"

\* A share that had ended stays so.
StaysEnded(q) ==
  ended[q] => /\ rd[q].pc \in {"token", "denied", "failed"}
              /\ rd[q].token # Null /\ shares[rd[q].token] # "active"

\* A file of a share that still exists is found in it.
Served(q) ==
  rd[q].pc = "done" /\ rd[q].file # Null /\ kept[q] # {}
    /\ ByFilePath(LinksOf[Shared[rd[q].token].snap], rd[q].file) # {} => rd[q].main # Null

\* Only files of the share itself are handed out in it.
OwnFiles ==
  \A t \in Token : \A f : <<t, f>> \in handed => ByFilePath(LinksOf[Shared[t].snap], f) # {}

Reading(q) == Kind(q) /\ Answer(q) /\ History(q) /\ StaysEnded(q) /\ Served(q)

IInv == TypeOK /\ Scoped /\ OwnFiles /\ \A q \in Reader : Reading(q)

-----------------------------------------------------------------------------
(* A step of one reader leaves the requests of the others alone.           *)

\* A request whose record and history a step leaves alone keeps its part of the
\* invariant.
LEMMA OthersKept ==
  ASSUME NEW p \in Reader, Reading(p), UNCHANGED <<snap, shares>>,
         rd'[p] = rd[p], kept'[p] = kept[p], ever'[p] = ever[p], ended'[p] = ended[p]
  PROVE  Reading(p)'
BY DEF Reading, Kind, Answer, History, StaysEnded, Served, Scope, ShareRows, PageRows,
       ByFilePath

\* So a step of one reader is checked for that reader alone.
LEMMA ReaderStep ==
  ASSUME IInv, NEW q \in Reader, UNCHANGED <<snap, shares>>,
         \A p \in Reader : p # q => /\ rd'[p] = rd[p] /\ kept'[p] = kept[p]
                                    /\ ever'[p] = ever[p] /\ ended'[p] = ended[p],
         TypeOK', OwnFiles', Reading(q)',
         {rd'[q].main, rd'[q].sub} \subseteq ever'[q] \union {Null}
  PROVE  IInv'
<1>1. \A p \in Reader : Reading(p)'
  BY OthersKept DEF IInv
<1>2. Scoped'
  BY DEF IInv, Scoped
<1> QED BY <1>1, <1>2 DEF IInv

-----------------------------------------------------------------------------
(* Requests for a snapshot.                                                *)

\* The rows of a scope are rows.
LEMMA RowTypes ==
  ASSUME TypeOK
  PROVE  /\ \A p \in Page : PageRows(p) \subseteq Res
         /\ \A t \in Token : ShareRows(t) \subseteq Res /\ LinksOf[Shared[t].snap] \subseteq Res
         /\ \A q \in Reader : rd[q].pc \in Working /\ Kind(q) => Scope(q) \subseteq Res
BY SetsAssumption DEF TypeOK, PageRows, ShareRows, Scope, Kind, Working, Request

\* A query returns rows of its scope.
LEMMA FoundInScope ==
  ASSUME NEW q \in Reader, TypeOK, rd[q].pc = "lookup"
  PROVE  Found(q) \subseteq Scope(q)
<1>1. rd[q].try \in Try
  BY DEF TypeOK
<1> QED
  BY <1>1 DEF Found, Try, ByUrl, ByUrlPrefix, ByUrlPath, Newest

\* A page request starts with the links its page has.
LEMMA AskPageKeeps ==
  ASSUME IInv, NEW q \in Reader, NEW p \in Page, NEW u \in Asked, AskPage(q, p, u)
  PROVE  IInv'
<1> USE DEF AskPage
<1> DEFINE r == [NoRequest EXCEPT !.pc = "lookup", !.page = p, !.url = u, !.try = "exact"]
<1>1. r \in Request
  BY DEF NoRequest, Request, Ends, Try
<1>2. rd'[q] = r /\ rd' \in [Reader -> Request]
  BY <1>1 DEF IInv, TypeOK
<1>3. /\ r.pc = "lookup" /\ r.page = p /\ r.token = Null /\ r.url = u /\ r.file = Null
      /\ r.try = "exact" /\ r.css = Null /\ r.main = Null /\ r.sub = Null
  BY DEF NoRequest
<1> HIDE DEF r
<1>4. PageRows(p) \subseteq Res
  BY RowTypes DEF IInv
<1>5. kept'[q] = PageRows(p) /\ ever'[q] = PageRows(p) /\ ended'[q] = FALSE
  BY DEF IInv, TypeOK
<1>6. TypeOK'
  <2>1. kept' \in [Reader -> SUBSET Res] /\ ever' \in [Reader -> SUBSET Res]
          /\ ended' \in [Reader -> BOOLEAN]
    BY <1>4 DEF IInv, TypeOK
  <2>2. \A x \in Reader : rd'[x].pc = "lookup" => rd'[x].try \in Try /\ Looked(x)' \in Asked
    BY <1>2, <1>3 DEF IInv, TypeOK, Looked, Try
  <2> QED BY <1>2, <2>1, <2>2 DEF IInv, TypeOK
<1>7. Reading(q)'
  <2>1. u # Null /\ p # Null /\ UNCHANGED snap
    BY UrlAssumption, SetsAssumption
  <2>2. Kind(q)' /\ Answer(q)' /\ StaysEnded(q)' /\ Served(q)'
    BY <1>2, <1>3, <1>5, <2>1 DEF Kind, Answer, StaysEnded, Served, Working
  <2>3. Scope(q)' = PageRows(p)
    <3>1. rd'[q].token = Null /\ rd'[q].page = p /\ snap' = snap
      BY <1>2, <1>3, <2>1
    <3> HIDE DEF AskPage
    <3> QED BY <3>1, Zenon DEF Scope, PageRows
  <2>4. History(q)'
    BY <1>2, <1>3, <1>5, <2>3 DEF History
  <2> QED BY <2>2, <2>4 DEF Reading
<1>8. \A x \in Reader : x # q => /\ rd'[x] = rd[x] /\ kept'[x] = kept[x]
                                 /\ ever'[x] = ever[x] /\ ended'[x] = ended[x]
  BY DEF IInv, TypeOK
<1>9. OwnFiles'
  BY DEF IInv, OwnFiles, ByFilePath
<1> QED BY <1>2, <1>3, <1>6, <1>7, <1>8, <1>9, ReaderStep

\* A share request starts with the rows of the share, if it still exists.
LEMMA AskShareKeeps ==
  ASSUME IInv, NEW q \in Reader, NEW t \in Token,
         NEW u \in Asked \union {Null}, NEW f \in {FileOf[x] : x \in Res} \union {Null},
         (u = Null) # (f = Null), AskShare(q, t, u, f)
  PROVE  IInv'
<1> USE DEF AskShare
<1> DEFINE r == [NoRequest EXCEPT !.pc = "token", !.token = t, !.url = u, !.file = f]
<1>1. r \in Request
  BY DEF NoRequest, Request
<1>2. rd'[q] = r /\ rd' \in [Reader -> Request]
  BY <1>1 DEF IInv, TypeOK
<1>3. /\ r.pc = "token" /\ r.page = Null /\ r.token = t /\ r.url = u /\ r.file = f
      /\ r.css = Null /\ r.main = Null /\ r.sub = Null
  BY DEF NoRequest
<1> HIDE DEF r
<1>4. ShareRows(t) \subseteq Res /\ LinksOf[Shared[t].snap] \subseteq Res
  BY RowTypes DEF IInv
<1>5. /\ kept'[q] = ShareRows(t) /\ ever'[q] = LinksOf[Shared[t].snap]
      /\ ended'[q] <=> (shares[t] # "active")
  BY DEF IInv, TypeOK
<1>6. TypeOK'
  <2>1. kept' \in [Reader -> SUBSET Res] /\ ever' \in [Reader -> SUBSET Res]
          /\ ended' \in [Reader -> BOOLEAN]
    BY <1>4 DEF IInv, TypeOK
  <2>2. \A x \in Reader : rd'[x].pc = "lookup" => rd'[x].try \in Try /\ Looked(x)' \in Asked
    BY <1>2, <1>3 DEF IInv, TypeOK, Looked, Try
  <2> QED BY <1>2, <2>1, <2>2 DEF IInv, TypeOK
<1>7. Reading(q)'
  <2>1. t # Null
    BY SetsAssumption
  <2>2. Kind(q)' /\ Answer(q)' /\ StaysEnded(q)' /\ Served(q)'
    BY <1>2, <1>3, <1>5, <2>1 DEF Kind, Answer, StaysEnded, Served, Working
  <2>3. History(q)'
    BY <1>2, <1>3, <1>5, <2>1 DEF History, Scope, ShareRows, Working
  <2> QED BY <2>2, <2>3 DEF Reading
<1>8. \A x \in Reader : x # q => /\ rd'[x] = rd[x] /\ kept'[x] = kept[x]
                                 /\ ever'[x] = ever[x] /\ ended'[x] = ended[x]
  BY DEF IInv, TypeOK
<1>9. OwnFiles'
  BY DEF IInv, OwnFiles, ByFilePath
<1> QED BY <1>2, <1>3, <1>6, <1>7, <1>8, <1>9, ReaderStep

\* The token is checked once; a share that had ended is denied.
LEMMA CheckTokenKeeps ==
  ASSUME IInv, NEW q \in Reader, CheckToken(q)
  PROVE  IInv'
<1> USE DEF CheckToken, history
<1> DEFINE r == rd[q]
           n == IF ~ActiveShare(r.token) THEN [r EXCEPT !.pc = "denied"]
                ELSE IF r.file # Null THEN [r EXCEPT !.pc = "file"]
                ELSE [r EXCEPT !.pc = "lookup", !.try = "exact"]
<1>1. r \in Request /\ Reading(q) /\ r.pc = "token"
  BY DEF IInv, TypeOK
<1>2. n \in Request
  BY <1>1 DEF Request, Ends, Try
<1>3. rd' = [rd EXCEPT ![q] = n] /\ rd'[q] = n /\ rd' \in [Reader -> Request]
  BY <1>2 DEF IInv, TypeOK
<1>4. /\ n.page = r.page /\ n.token = r.token /\ n.url = r.url /\ n.file = r.file
      /\ n.css = r.css /\ n.main = r.main /\ n.sub = r.sub
      /\ \/ n.pc = "denied"
         \/ n.pc = "file" /\ r.file # Null /\ ActiveShare(r.token)
         \/ n.pc = "lookup" /\ n.try = "exact" /\ r.file = Null /\ ActiveShare(r.token)
  BY <1>1 DEF Request
<1> HIDE DEF n
<1>5. r.css = Null /\ (n.pc = "lookup" => r.url \in Asked)
  BY <1>1, <1>4 DEF Reading, Answer, Kind, Request
<1>6. TypeOK'
  <2>1. ASSUME NEW x \in Reader, rd'[x].pc = "lookup"
        PROVE  rd'[x].try \in Try /\ Looked(x)' \in Asked
    <3>1. CASE x = q
      BY <1>3, <1>4, <1>5, <2>1, <3>1 DEF Looked, Try
    <3>2. CASE x # q
      <4>1. rd'[x] = rd[x]
        BY <1>3, <3>2 DEF IInv, TypeOK
      <4> QED BY <2>1, <4>1 DEF IInv, TypeOK, Looked
    <3> QED BY <3>1, <3>2
  <2> QED BY <1>3, <2>1 DEF IInv, TypeOK
<1>7. Reading(q)'
  <2>1. Kind(q)' /\ Answer(q)' /\ Served(q)'
    BY <1>1, <1>3, <1>4 DEF Reading, Kind, Answer, Served, Working
  <2>2. History(q)' /\ StaysEnded(q)'
    BY <1>1, <1>3, <1>4
       DEF Reading, History, StaysEnded, Scope, ShareRows, PageRows, ActiveShare, Working
  <2> QED BY <2>1, <2>2 DEF Reading
<1>8. \A x \in Reader : x # q => /\ rd'[x] = rd[x] /\ kept'[x] = kept[x]
                                 /\ ever'[x] = ever[x] /\ ended'[x] = ended[x]
  BY <1>3 DEF IInv, TypeOK
<1>9. OwnFiles' /\ {rd'[q].main, rd'[q].sub} \subseteq ever'[q] \union {Null}
  BY <1>3, <1>4 DEF IInv, OwnFiles, ByFilePath, Scoped
<1> QED BY <1>6, <1>7, <1>8, <1>9, ReaderStep

\* A step that leaves the history alone and only changes what q has found.
LEMMA FindKeeps ==
  ASSUME IInv, NEW q \in Reader, rd[q].pc \in {"lookup", "file"}, NEW n \in Request,
         rd' = [rd EXCEPT ![q] = n], UNCHANGED <<snap, shares, seen, captures, kept, ever, ended>>,
         n.page = rd[q].page, n.token = rd[q].token, n.url = rd[q].url, n.file = rd[q].file,
         n.pc \in {"lookup", "done"},
         n.pc = "lookup" => /\ rd[q].pc = "lookup" /\ n.try \in Try /\ n.sub = Null
                            /\ IF n.css = Null THEN n.main = Null ELSE SubUrl[n.css] \in Asked,
         n.css # Null => n.main = n.css /\ SubUrl[n.css] # Null /\ n.file = Null,
         n.css = Null => n.sub = Null,
         {n.main, n.sub} \subseteq ever[q] \union {Null},
         OwnFiles',
         n.pc = "done" /\ n.file # Null
           /\ kept[q] # {} /\ ByFilePath(LinksOf[Shared[n.token].snap], n.file) # {}
             => n.main # Null
  PROVE  IInv'
<1>1. rd'[q] = n /\ rd' \in [Reader -> Request] /\ Reading(q)
  BY DEF IInv, TypeOK
<1>2. n.pc = "lookup" => n.url \in Asked
  BY <1>1 DEF Reading, Kind, Request
<1>3. TypeOK'
  <2>1. \A x \in Reader : rd'[x].pc = "lookup" => rd'[x].try \in Try /\ Looked(x)' \in Asked
    BY <1>1, <1>2 DEF IInv, TypeOK, Looked
  <2> QED BY <1>1, <2>1 DEF IInv, TypeOK
<1>4. Reading(q)'
  <2>1. Kind(q)'
    BY <1>1 DEF Reading, Kind, Working
  <2>2. Answer(q)'
    BY <1>1 DEF Answer
  <2>3. History(q)' /\ StaysEnded(q)'
    BY <1>1 DEF Reading, History, StaysEnded, Scope, ShareRows, PageRows, Working
  <2>4. Served(q)'
    BY <1>1 DEF Served, ByFilePath
  <2> QED BY <2>1, <2>2, <2>3, <2>4 DEF Reading
<1>5. \A x \in Reader : x # q => /\ rd'[x] = rd[x] /\ kept'[x] = kept[x]
                                 /\ ever'[x] = ever[x] /\ ended'[x] = ended[x]
  BY DEF IInv, TypeOK
<1>6. {rd'[q].main, rd'[q].sub} \subseteq ever'[q] \union {Null}
  BY <1>1
<1> QED BY <1>3, <1>4, <1>5, <1>6, ReaderStep

\* A query or the reading of a file that fails ends the request with what it has found.
LEMMA FailKeeps ==
  ASSUME IInv, NEW q \in Reader,
         QueryFails(q) \/ ReferenceFails(q) \/ ReadFails(q) \/ LocalReadFails(q)
  PROVE  IInv'
<1>1. UNCHANGED <<snap, shares, seen, captures, kept, ever, ended, handed>>
  BY DEF QueryFails, ReferenceFails, ReadFails, LocalReadFails, history
<1>2. PICK e \in {"failed", "unread", "unresolved"} :
        /\ rd' = [rd EXCEPT ![q].pc = e]
        /\ rd[q].pc \in Working /\ (rd[q].pc = "token" => e = "failed")
        /\ e = "unresolved" => rd[q].css # Null
  BY DEF QueryFails, ReferenceFails, ReadFails, LocalReadFails, Working
<1> DEFINE r == rd[q]
           n == [r EXCEPT !.pc = e]
<1>3. r \in Request /\ Reading(q) /\ rd' = [rd EXCEPT ![q] = n]
  BY <1>2 DEF IInv, TypeOK
<1>4. /\ n \in Request /\ n.page = r.page /\ n.token = r.token /\ n.url = r.url
      /\ n.file = r.file /\ n.css = r.css /\ n.main = r.main /\ n.sub = r.sub /\ n.pc = e
  BY <1>3, ZenonT(60) DEF Request, Ends
<1> HIDE DEF n
<1>5. rd'[q] = n /\ rd' \in [Reader -> Request]
        /\ \A x \in Reader : x # q => rd'[x] = rd[x]
  BY <1>3, <1>4 DEF IInv, TypeOK
<1>6. TypeOK'
  <2>1. \A x \in Reader : rd'[x].pc = "lookup" => rd'[x].try \in Try /\ Looked(x)' \in Asked
    BY <1>4, <1>5 DEF IInv, TypeOK, Looked
  <2> QED BY <1>1, <1>5, <2>1 DEF IInv, TypeOK
<1>7. Reading(q)'
  <2>1. Kind(q)' /\ Answer(q)' /\ Served(q)'
    BY <1>2, <1>3, <1>4, <1>5 DEF Reading, Kind, Answer, Served, Working
  <2>2. History(q)' /\ StaysEnded(q)'
    BY <1>1, <1>2, <1>3, <1>4, <1>5 DEF Reading, History, StaysEnded, Working
  <2> QED BY <2>1, <2>2 DEF Reading
<1>8. OwnFiles' /\ {rd'[q].main, rd'[q].sub} \subseteq ever'[q] \union {Null}
  BY <1>1, <1>4, <1>5 DEF IInv, OwnFiles, ByFilePath, Scoped
<1> QED BY <1>1, <1>5, <1>6, <1>7, <1>8, ReaderStep

\* A query without result moves to the next one or to the end.
LEMMA MissKeeps ==
  ASSUME IInv, NEW q \in Reader, Miss(q)
  PROVE  IInv'
<1> DEFINE r == rd[q]
           next == NextTry(r.try, Looked(q))
           n == [r EXCEPT !.try = next, !.pc = IF next = Null THEN "done" ELSE "lookup"]
<1>1. r \in Request /\ Reading(q) /\ r.pc = "lookup" /\ r.try \in Try
  BY DEF Miss, IInv, TypeOK
<1>2. next \in Try \union {Null}
  BY <1>1 DEF NextTry, Try
<1>3. rd' = [rd EXCEPT ![q] = n]
  BY <1>1 DEF Miss, IInv, TypeOK
<1> HIDE DEF next
<1>4. /\ n \in Request /\ n.page = r.page /\ n.token = r.token /\ n.url = r.url
      /\ n.file = r.file /\ n.css = r.css /\ n.main = r.main /\ n.sub = r.sub
      /\ n.pc \in {"lookup", "done"} /\ (n.pc = "lookup" => n.try \in Try)
  BY <1>1, <1>2, ZenonT(60) DEF Request, Ends
<1> HIDE DEF n
<1>5. /\ r.sub = Null /\ (r.css # Null => SubUrl[r.css] \in Asked /\ r.css \in Res)
      /\ (r.css = Null => r.main = Null) /\ r.file = Null
      /\ (r.css # Null => r.main = r.css /\ SubUrl[r.css] # Null)
  BY <1>1, UrlAssumption DEF Reading, Answer, Kind, Request
<1>6. OwnFiles'
  BY DEF Miss, history, IInv, OwnFiles, ByFilePath
<1>7. UNCHANGED <<snap, shares, seen, captures, kept, ever, ended>>
  BY DEF Miss, history
<1>8. {n.main, n.sub} \subseteq ever[q] \union {Null}
  BY <1>4 DEF IInv, Scoped
<1> QED BY <1>1, <1>3, <1>4, <1>5, <1>6, <1>7, <1>8, FindKeeps

\* A style sheet found is a row of the scope.
LEMMA HitCssKeeps ==
  ASSUME IInv, NEW q \in Reader, HitCss(q)
  PROVE  IInv'
<1> DEFINE r == rd[q]
<1>1. r \in Request /\ Reading(q) /\ r.pc = "lookup" /\ r.css = Null
  BY DEF HitCss, IInv, TypeOK
<1>2. PICK c \in Found(q) :
        /\ SubUrl[c] # Null
        /\ rd' = [rd EXCEPT ![q].css = c, ![q].main = c, ![q].try = "exact"]
  BY DEF HitCss
<1>3. c \in Scope(q) /\ c \in ever[q] /\ c \in Res
  BY <1>1, <1>2, FoundInScope, RowTypes DEF IInv, Reading, History, Working
<1> DEFINE n == [r EXCEPT !.css = c, !.main = c, !.try = "exact"]
<1>4. rd' = [rd EXCEPT ![q] = n]
  BY <1>1, <1>2 DEF IInv, TypeOK
<1>5. /\ n \in Request /\ n.page = r.page /\ n.token = r.token /\ n.url = r.url
      /\ n.file = r.file /\ n.css = c /\ n.main = c /\ n.sub = r.sub
      /\ n.pc = "lookup" /\ n.try \in Try
  <2>1. "exact" \in Try /\ r \in Request /\ r.pc = "lookup" /\ c \in Res
    BY <1>1, <1>3 DEF Try
  <2>2. n \in Request
    BY <2>1 DEF Request
  <2>3. /\ n.page = r.page /\ n.token = r.token /\ n.url = r.url
        /\ n.file = r.file /\ n.css = c /\ n.main = c /\ n.sub = r.sub
        /\ n.pc = r.pc /\ n.try = "exact"
    BY <2>1 DEF Request
  <2> QED BY <2>1, <2>2, <2>3
<1> HIDE DEF n
<1>6. r.sub = Null /\ r.file = Null /\ c # Null /\ SubUrl[c] \in Asked
  BY <1>1, <1>2, <1>3, UrlAssumption, ResAssumption DEF Reading, Answer, Kind
<1>7. OwnFiles'
  BY DEF HitCss, history, IInv, OwnFiles, ByFilePath
<1>8. UNCHANGED <<snap, shares, seen, captures, kept, ever, ended>>
  BY DEF HitCss, history
<1>9. /\ n.css # Null => n.main = n.css /\ SubUrl[n.css] # Null /\ n.file = Null
      /\ n.css # Null /\ n.sub = Null /\ SubUrl[n.css] \in Asked
      /\ {n.main, n.sub} \subseteq ever[q] \union {Null}
  BY <1>2, <1>3, <1>5, <1>6
<1> QED BY <1>1, <1>4, <1>5, <1>7, <1>8, <1>9, FindKeeps

\* A resource found is a row of the scope.
LEMMA HitResourceKeeps ==
  ASSUME IInv, NEW q \in Reader, HitResource(q)
  PROVE  IInv'
<1> DEFINE r == rd[q]
<1>1. r \in Request /\ Reading(q) /\ r.pc = "lookup" /\ r.css = Null
  BY DEF HitResource, IInv, TypeOK
<1>2. PICK m \in Found(q) : rd' = [rd EXCEPT ![q].main = m, ![q].pc = "done"]
  BY DEF HitResource
<1>3. m \in Scope(q) /\ m \in ever[q] /\ m \in Res
  BY <1>1, <1>2, FoundInScope, RowTypes DEF IInv, Reading, History, Working
<1> DEFINE n == [r EXCEPT !.main = m, !.pc = "done"]
<1>4. rd' = [rd EXCEPT ![q] = n]
  BY <1>1, <1>2 DEF IInv, TypeOK
<1>5. /\ n \in Request /\ n.page = r.page /\ n.token = r.token /\ n.url = r.url
      /\ n.file = r.file /\ n.css = r.css /\ n.main = m /\ n.sub = r.sub /\ n.pc = "done"
  BY <1>1, <1>3, ZenonT(60) DEF Request, Ends
<1> HIDE DEF n
<1>6. r.sub = Null /\ r.file = Null
  BY <1>1 DEF Reading, Answer, Kind
<1>7. OwnFiles'
  BY DEF HitResource, history, IInv, OwnFiles, ByFilePath
<1>8. UNCHANGED <<snap, shares, seen, captures, kept, ever, ended>>
  BY DEF HitResource, history
<1> QED BY <1>1, <1>3, <1>4, <1>5, <1>6, <1>7, <1>8, FindKeeps

\* The file handed out is one of the rows that the share links.
LEMMA HitReferenceKeeps ==
  ASSUME IInv, NEW q \in Reader, HitReference(q)
  PROVE  IInv'
<1> DEFINE r == rd[q]
<1>1. r \in Request /\ Reading(q) /\ r.pc = "lookup" /\ r.css # Null
  BY DEF HitReference, IInv, TypeOK
<1>2. PICK m \in Found(q) :
        /\ rd' = [rd EXCEPT ![q].sub = m, ![q].pc = "done"]
        /\ handed' = IF r.token = Null THEN handed ELSE handed \union {<<r.token, FileOf[m]>>}
  BY DEF HitReference
<1>3. m \in Scope(q) /\ m \in ever[q] /\ m \in Res
  BY <1>1, <1>2, FoundInScope, RowTypes DEF IInv, Reading, History, Working
<1> DEFINE n == [r EXCEPT !.sub = m, !.pc = "done"]
<1>4. rd' = [rd EXCEPT ![q] = n]
  BY <1>1, <1>2 DEF IInv, TypeOK
<1>5. /\ n \in Request /\ n.page = r.page /\ n.token = r.token /\ n.url = r.url
      /\ n.file = r.file /\ n.css = r.css /\ n.main = r.main /\ n.sub = m /\ n.pc = "done"
  BY <1>1, <1>3 DEF Request, Ends
<1> HIDE DEF n
<1>6. r.file = Null /\ r.main = r.css /\ SubUrl[r.css] # Null /\ r.main \in ever[q] \union {Null}
  BY <1>1 DEF IInv, Reading, Answer, Kind, Scoped
<1>7. OwnFiles'
  <2>1. r.token # Null => m \in LinksOf[Shared[r.token].snap]
    BY <1>3 DEF Scope, ShareRows
  <2> QED BY <1>2, <2>1 DEF IInv, OwnFiles, ByFilePath
<1>8. UNCHANGED <<snap, shares, seen, captures, kept, ever, ended>>
  BY DEF HitReference
<1> QED BY <1>1, <1>3, <1>4, <1>5, <1>6, <1>7, <1>8, FindKeeps

\* A handed-out path is found unless the share went with its page.
LEMMA ServeLocalKeeps ==
  ASSUME IInv, NEW q \in Reader, ServeLocal(q)
  PROVE  IInv'
<1> DEFINE r == rd[q]
           linked == ByFilePath(ShareRows(r.token), r.file)
<1>1. r \in Request /\ Reading(q) /\ r.pc = "file"
  BY DEF ServeLocal, IInv, TypeOK
<1>2. /\ r.file # Null /\ r.token # Null /\ r.css = Null /\ r.main = Null /\ r.sub = Null
  BY <1>1 DEF Reading, Kind, Answer
<1>3. PICK m \in linked \union {Null} :
        /\ rd' = [rd EXCEPT ![q] = [@ EXCEPT !.pc = "done", !.main = m]]
        /\ m = Null => linked = {}
  <2>1. CASE linked = {} /\ rd' = [rd EXCEPT ![q].pc = "done"]
    <3>1. rd' = [rd EXCEPT ![q] = [@ EXCEPT !.pc = "done", !.main = Null]]
      BY <1>1, <1>2, <2>1 DEF IInv, TypeOK, Request
    <3> QED BY <2>1, <3>1
  <2>2. CASE \E x \in linked : rd' = [rd EXCEPT ![q].pc = "done", ![q].main = x]
    <3>1. PICK x \in linked : rd' = [rd EXCEPT ![q].pc = "done", ![q].main = x]
      BY <2>2
    <3>2. x # Null
      BY <1>1, <1>2, RowTypes, ResAssumption, SetsAssumption DEF IInv, ByFilePath, Request
    <3>3. rd' = [rd EXCEPT ![q] = [@ EXCEPT !.pc = "done", !.main = x]]
      BY <1>1, <3>1 DEF IInv, TypeOK, Request
    <3> QED BY <3>2, <3>3
  <2> QED BY <2>1, <2>2 DEF ServeLocal
<1>4. linked \subseteq Scope(q) /\ linked \subseteq ever[q] /\ linked \subseteq Res
  BY <1>1, <1>2, RowTypes DEF IInv, ByFilePath, Scope, Reading, History, Working
<1> DEFINE n == [r EXCEPT !.pc = "done", !.main = m]
<1>5. rd' = [rd EXCEPT ![q] = n]
  BY <1>3
<1>6. /\ n \in Request /\ n.page = r.page /\ n.token = r.token /\ n.url = r.url
      /\ n.file = r.file /\ n.css = r.css /\ n.main = m /\ n.sub = r.sub /\ n.pc = "done"
  BY <1>1, <1>3, <1>4, ZenonT(60) DEF Request, Ends
<1> HIDE DEF n
<1>7. OwnFiles'
  BY DEF ServeLocal, history, IInv, OwnFiles, ByFilePath
<1>8. UNCHANGED <<snap, shares, seen, captures, kept, ever, ended>>
  BY DEF ServeLocal, history
<1>9. kept[q] # {} /\ ByFilePath(LinksOf[Shared[n.token].snap], n.file) # {} => n.main # Null
  BY <1>1, <1>2, <1>3, <1>6 DEF ByFilePath, ShareRows, Reading, History
<1>10. n.css = Null /\ n.sub = Null /\ {n.main, n.sub} \subseteq ever[q] \union {Null}
  BY <1>2, <1>3, <1>4, <1>6
<1> HIDE DEF linked
<1> QED BY <1>1, <1>5, <1>6, <1>7, <1>8, <1>9, <1>10, FindKeeps

\* A reader that is free again has no history.
LEMMA CloseKeeps ==
  ASSUME IInv, NEW q \in Reader, Close(q)
  PROVE  IInv'
<1> USE DEF Close
<1>1. NoRequest \in Request /\ rd'[q] = NoRequest /\ rd' \in [Reader -> Request]
  BY DEF NoRequest, Request, IInv, TypeOK
<1>2. /\ NoRequest.pc = "idle" /\ NoRequest.token = Null /\ NoRequest.file = Null
      /\ NoRequest.css = Null /\ NoRequest.main = Null /\ NoRequest.sub = Null
  BY DEF NoRequest
<1>3. TypeOK'
  <2>1. \A x \in Reader : rd'[x].pc = "lookup" => rd'[x].try \in Try /\ Looked(x)' \in Asked
    BY <1>1, <1>2 DEF IInv, TypeOK, Looked
  <2> QED BY <1>1, <2>1 DEF IInv, TypeOK
<1>4. Reading(q)'
  BY <1>1, <1>2 DEF IInv, TypeOK, Reading, Kind, Answer, History, StaysEnded, Served, Working
<1>5. \A x \in Reader : x # q => /\ rd'[x] = rd[x] /\ kept'[x] = kept[x]
                                 /\ ever'[x] = ever[x] /\ ended'[x] = ended[x]
  BY DEF IInv, TypeOK
<1>6. OwnFiles'
  BY DEF IInv, OwnFiles, ByFilePath
<1> QED BY <1>1, <1>2, <1>3, <1>4, <1>5, <1>6, ReaderStep

-----------------------------------------------------------------------------
(* Changes meanwhile.                                                      *)

\* A new capture of a page changes the scope of its requests and no share's.
LEMMA CaptureKeeps ==
  ASSUME IInv, NEW p \in Page, NEW s \in Snap, Capture(p, s)
  PROVE  IInv'
<1> USE DEF Capture
<1>1. LinksOf[s] \subseteq Res /\ snap'[p] = s /\ s # Null
  BY SetsAssumption DEF IInv, TypeOK
<1>2. TypeOK'
  <2>1. captures' \in 0 .. MaxSeen /\ seen' \in [Res -> 0 .. captures']
    BY BoundAssumption DEF IInv, TypeOK
  <2>2. kept' \in [Reader -> SUBSET Res] /\ ever' \in [Reader -> SUBSET Res]
    BY <1>1 DEF IInv, TypeOK
  <2> QED BY <2>1, <2>2 DEF IInv, TypeOK, Looked
<1>3. Scoped'
  BY DEF IInv, Scoped
<1>4. OwnFiles'
  BY DEF IInv, OwnFiles, ByFilePath
<1>5. ASSUME NEW q \in Reader
      PROVE  Reading(q)'
  <2>1. /\ Reading(q) /\ rd[q].page \in Page \union {Null}
        /\ rd'[q] = rd[q] /\ kept'[q] \subseteq kept[q]
    BY <1>5 DEF IInv, TypeOK, Request
  <2>2. Kind(q)' /\ Answer(q)' /\ StaysEnded(q)' /\ Served(q)'
    BY <2>1 DEF Reading, Kind, Answer, StaysEnded, Served, ByFilePath
  <2>3. rd[q].token # Null /\ kept'[q] # {} => shares'[rd[q].token] # "gone"
    BY <2>1 DEF Reading, History
  <2>4. ASSUME rd[q].pc \in Working
        PROVE  kept'[q] \subseteq Scope(q)' /\ Scope(q)' \subseteq ever'[q]
    <3>1. kept[q] \subseteq Scope(q) /\ Scope(q) \subseteq ever[q]
            /\ (rd[q].token = Null) # (rd[q].page = Null)
      BY <2>1, <2>4 DEF Reading, History, Kind
    <3>2. CASE rd[q].page = p
      <4>1. Scope(q)' = LinksOf[s]
        BY <1>1, <2>1, <3>1, <3>2, SetsAssumption DEF Scope, PageRows
      <4> QED BY <3>1, <3>2, <4>1
    <3>3. CASE rd[q].page # p
      <4>1. kept'[q] = kept[q] /\ ever'[q] = ever[q]
        BY <3>3
      <4>2. Scope(q)' = Scope(q)
        BY <2>1, <3>1, <3>3 DEF Scope, PageRows, ShareRows, IInv, TypeOK
      <4> QED BY <3>1, <4>1, <4>2
    <3> QED BY <3>2, <3>3
  <2> QED BY <2>1, <2>2, <2>3, <2>4 DEF Reading, History
<1> QED BY <1>2, <1>3, <1>4, <1>5 DEF IInv

\* A deleted page leaves nothing that could still be promised.
LEMMA DeletePageKeeps ==
  ASSUME IInv, NEW p \in Page, DeletePage(p)
  PROVE  IInv'
<1> USE DEF DeletePage
<1>1. TypeOK'
  BY DEF IInv, TypeOK, Looked
<1>2. Scoped'
  BY DEF IInv, Scoped
<1>3. OwnFiles'
  BY DEF IInv, OwnFiles, ByFilePath
<1>4. ASSUME NEW q \in Reader
      PROVE  Reading(q)'
  <2>1. /\ Reading(q) /\ rd[q].page \in Page \union {Null} /\ rd[q].token \in Token \union {Null}
        /\ rd'[q] = rd[q] /\ kept'[q] = IF Concerns(q, p) THEN {} ELSE kept[q]
    BY <1>4 DEF IInv, TypeOK, Request
  <2>2. \A t \in Token : shares'[t] = IF Shared[t].page = p THEN "gone" ELSE shares[t]
    BY DEF IInv, TypeOK
  <2>3. Kind(q)' /\ Answer(q)' /\ Served(q)'
    BY <2>1 DEF Reading, Kind, Answer, Served, ByFilePath
  <2>4. StaysEnded(q)'
    BY <2>1, <2>2 DEF Reading, StaysEnded
  <2>5. rd[q].token # Null /\ kept'[q] # {} => shares'[rd[q].token] # "gone"
    BY <2>1, <2>2 DEF Reading, History, Concerns
  <2>6. ASSUME rd[q].pc \in Working
        PROVE  kept'[q] \subseteq Scope(q)' /\ Scope(q)' \subseteq ever'[q]
    <3>1. kept[q] \subseteq Scope(q) /\ Scope(q) \subseteq ever[q]
            /\ (rd[q].token = Null) # (rd[q].page = Null)
      BY <2>1, <2>6 DEF Reading, History, Kind
    <3>2. CASE Concerns(q, p)
      <4>1. snap'[p] = Null
        BY DEF IInv, TypeOK
      <4>2. Scope(q)' = {}
        BY <2>1, <2>2, <3>1, <3>2, <4>1, SetsAssumption DEF Scope, PageRows, ShareRows, Concerns
      <4> QED BY <2>1, <3>2, <4>2
    <3>3. CASE ~Concerns(q, p)
      <4>1. Scope(q)' = Scope(q)
        BY <2>1, <2>2, <3>1, <3>3 DEF Scope, PageRows, ShareRows, Concerns, IInv, TypeOK
      <4> QED BY <2>1, <3>1, <3>3, <4>1
    <3> QED BY <3>2, <3>3
  <2> QED BY <2>1, <2>3, <2>4, <2>5, <2>6 DEF Reading, History
<1> QED BY <1>1, <1>2, <1>3, <1>4 DEF IInv

\* A share that is revoked or expires stays ended, and keeps its rows.
LEMMA EndShareKeeps ==
  ASSUME IInv, NEW t \in Token, Revoke(t) \/ Expire(t)
  PROVE  IInv'
<1> USE DEF Revoke, Expire, history
<1>1. UNCHANGED <<snap, seen, captures, rd, kept, ever, ended, handed>>
  OBVIOUS
<1>2. /\ shares[t] # "gone" /\ shares' \in [Token -> {"active", "revoked", "expired", "gone"}]
      /\ shares'[t] \in {"revoked", "expired"} /\ \A x \in Token : x # t => shares'[x] = shares[x]
  BY DEF IInv, TypeOK
<1> HIDE DEF Revoke, Expire
<1>3. TypeOK'
  BY <1>1, <1>2 DEF IInv, TypeOK, Looked
<1>4. Scoped'
  BY <1>1 DEF IInv, Scoped
<1>5. OwnFiles'
  BY <1>1 DEF IInv, OwnFiles, ByFilePath
<1>6. ASSUME NEW q \in Reader
      PROVE  Reading(q)'
  <2>1. Reading(q) /\ rd[q].token \in Token \union {Null}
    BY <1>6 DEF IInv, TypeOK, Request
  <2>2. Kind(q)' /\ Answer(q)' /\ Served(q)' /\ StaysEnded(q)'
    BY <1>1, <1>2, <2>1 DEF Reading, Kind, Answer, Served, StaysEnded, ByFilePath
  <2>3. Scope(q)' = Scope(q)
    BY <1>1, <1>2, <2>1 DEF Scope, PageRows, ShareRows
  <2>4. History(q)'
    BY <1>1, <1>2, <2>1, <2>3 DEF Reading, History
  <2> QED BY <2>2, <2>4 DEF Reading
<1> QED BY <1>3, <1>4, <1>5, <1>6 DEF IInv

-----------------------------------------------------------------------------
(* The theorems about requests.                                            *)

\* The invariant holds of a server that has read no request yet.
LEMMA InitInvariant == Init => IInv
<1> SUFFICES ASSUME Init PROVE IInv
  OBVIOUS
<1> USE DEF Init
<1>1. NoRequest \in Request
  BY DEF NoRequest, Request
<1>2. /\ NoRequest.pc = "idle" /\ NoRequest.token = Null /\ NoRequest.file = Null
      /\ NoRequest.css = Null /\ NoRequest.main = Null /\ NoRequest.sub = Null
  BY DEF NoRequest
<1>3. \A q \in Reader : rd[q] = NoRequest /\ kept[q] = {} /\ ended[q] = FALSE
  OBVIOUS
<1>4. TypeOK
  BY <1>1, <1>2, <1>3, BoundAssumption DEF TypeOK
<1>5. Scoped /\ OwnFiles
  BY <1>2 DEF Scoped, OwnFiles
<1>6. \A q \in Reader : Reading(q)
  BY <1>2, <1>3 DEF Reading, Kind, Answer, History, StaysEnded, Served, Working
<1> QED BY <1>4, <1>5, <1>6 DEF IInv

\* No step of a request breaks the invariant.
LEMMA ReadKeeps ==
  ASSUME IInv, NEW q \in Reader, Read(q)
  PROVE  IInv'
<1>1. CASE \E p \in Page, u \in Asked : AskPage(q, p, u)
  BY <1>1, AskPageKeeps
<1>2. CASE \E t \in Token, u \in Asked : AskShare(q, t, u, Null)
  BY <1>2, AskShareKeeps, UrlAssumption
<1>3. CASE \E t \in Token, r \in Res : AskShare(q, t, Null, FileOf[r])
  BY <1>3, AskShareKeeps, FileAssumption
<1>4. CASE CheckToken(q)
  BY <1>4, CheckTokenKeeps
<1>5. CASE Miss(q) \/ HitCss(q) \/ HitResource(q) \/ HitReference(q)
  BY <1>5, MissKeeps, HitCssKeeps, HitResourceKeeps, HitReferenceKeeps
<1>6. CASE ServeLocal(q) \/ Close(q)
  BY <1>6, ServeLocalKeeps, CloseKeeps
<1>7. CASE QueryFails(q) \/ ReferenceFails(q) \/ ReadFails(q) \/ LocalReadFails(q)
  BY <1>7, FailKeeps
<1> QED BY <1>1, <1>2, <1>3, <1>4, <1>5, <1>6, <1>7 DEF Read

\* The invariant is inductive.
LEMMA StepInvariant == IInv /\ [Next]_vars => IInv'
<1> SUFFICES ASSUME IInv, [Next]_vars PROVE IInv'
  OBVIOUS
<1>1. CASE UNCHANGED vars
  BY <1>1 DEF IInv, TypeOK, Looked, Scoped, OwnFiles, ByFilePath, Reading, Kind, Answer,
              History, StaysEnded, Served, Scope, PageRows, ShareRows, vars
<1>2. CASE Change
  BY <1>2, CaptureKeeps, DeletePageKeeps, EndShareKeeps DEF Change
<1>3. CASE \E q \in Reader : Read(q)
  BY <1>3, ReadKeeps
<1> QED BY <1>1, <1>2, <1>3 DEF Next

\* The invariant is stronger than what the run checks.
LEMMA InvariantGivesInv == IInv => Inv
<1> SUFFICES ASSUME IInv PROVE Inv
  OBVIOUS
<1>1. EndedShareClosed
  BY DEF IInv, Reading, StaysEnded, EndedShareClosed
<1>2. ASSUME NEW q \in Reader, rd[q].pc = "done", rd[q].file # Null,
             <<rd[q].token, rd[q].file>> \in handed, kept[q] # {}
      PROVE  rd[q].main # Null
  <2>1. rd[q].token \in Token /\ Served(q)
    BY <1>2 DEF IInv, TypeOK, Request, Reading, Kind
  <2> QED BY <1>2, <2>1 DEF IInv, OwnFiles, Served
<1> QED BY <1>1, <1>2 DEF IInv, Inv, HandedOutServed

\* The inductive invariant holds of every behaviour of the view handlers.
THEOREM Invariance == Spec => []IInv
BY InitInvariant, StepInvariant, PTL DEF Spec

\* Every request is answered within its scope, an ended share with nothing, and a
\* local path that a share handed out with its file while the page exists.
THEOREM AnsweredInScope == Spec => []Inv
BY Invariance, InvariantGivesInv, PTL

-----------------------------------------------------------------------------
(* The closest row.                                                        *)

\* What each rank says of the stored URL.
LEMMA Ranks ==
  ASSUME NEW u \in Url, NEW v \in Url
  PROVE  /\ Rank(u, v) \in 0 .. 5
         /\ Rank(u, v) = 0 <=> v = u
         /\ Rank(u, v) = 1 <=> v # u /\ v = ParsedString(u)
         /\ Rank(u, v) = 2 <=> v # u /\ SamePath(u, v) /\ u.frag = Null /\ v.query = u.query
         /\ Rank(u, v) = 3 <=> v # u /\ v = CutQuery(u)
         /\ Rank(u, v) = 4 <=> /\ v # u /\ SamePath(u, v) /\ CutQuery(u).frag = Null
                               /\ v.query # Null /\ (v.query = u.query => u.frag # Null)
<1> DEFINE R1 == v # u /\ v = ParsedString(u)
           R2 == v # u /\ SamePath(u, v) /\ u.frag = Null /\ v.query = u.query
           R3 == v # u /\ v = CutQuery(u)
           R4 == /\ v # u /\ SamePath(u, v) /\ CutQuery(u).frag = Null
                 /\ v.query # Null /\ (v.query = u.query => u.frag # Null)
<1>1. /\ u = [path |-> u.path, raw |-> u.raw, query |-> u.query, frag |-> u.frag]
      /\ v = [path |-> v.path, raw |-> v.raw, query |-> v.query, frag |-> v.frag]
  BY DEF Url
<1>2. /\ ParsedString(u).path = u.path /\ ParsedString(u).raw = FALSE
      /\ ParsedString(u).query = u.query /\ ParsedString(u).frag = u.frag
  BY DEF Url, ParsedString
<1>3. /\ CutQuery(u).path = u.path /\ CutQuery(u).raw = u.raw /\ CutQuery(u).query = Null
      /\ u.query = Null => CutQuery(u) = u
      /\ u.query # Null => CutQuery(u).frag = Null
  BY DEF Url, CutQuery
<1>4. /\ R1 => ~SamePath(u, v) /\ v.query = u.query /\ v # CutQuery(u)
      /\ R3 => v.query # u.query /\ v.query = Null
  BY <1>1, <1>2, <1>3 DEF SamePath
<1>5. Rank(u, v) = CASE v = u -> 0 [] R1 -> 1 [] R2 -> 2 [] R3 -> 3 [] R4 -> 4 [] OTHER -> 5
  BY DEF Rank
<1>6. /\ R1 => v # u /\ ~R2 /\ ~R3 /\ ~R4
      /\ R2 => v # u /\ ~R1 /\ ~R3 /\ ~R4
      /\ R3 => v # u /\ ~R2 /\ ~R1 /\ ~R4
      /\ R4 => v # u /\ ~R2 /\ ~R3 /\ ~R1
  BY <1>4
<1> HIDE DEF R1, R2, R3, R4
<1>7. /\ Rank(u, v) \in 0 .. 5
      /\ Rank(u, v) = 0 <=> v = u
      /\ Rank(u, v) = 1 <=> R1
      /\ Rank(u, v) = 2 <=> R2
      /\ Rank(u, v) = 3 <=> R3
      /\ Rank(u, v) = 4 <=> R4
  BY <1>5, <1>6
<1> QED BY <1>7 DEF R1, R2, R3, R4

-----------------------------------------------------------------------------
(* ORDER BY last_seen DESC, id DESC LIMIT 1 returns a row if there is any. *)

\* The ids of the rows are bounded: there are finitely many rows.
LEMMA IdsBounded == \E b \in Nat : \A r \in Res : r <= b
BY ResAssumption, FiniteBounded

\* The newest of any rows there are: last_seen and then the id decide.
LEMMA NewestExists ==
  ASSUME TypeOK, NEW linked \in SUBSET Res, linked # {}
  PROVE  Newest(linked) # {}
<1>1. captures \in Nat /\ (\A r \in linked : seen[r] \in 0 .. captures) /\ linked \subseteq Nat
  BY ResAssumption, BoundAssumption DEF TypeOK
<1>2. PICK r \in linked : \A x \in linked : seen[x] <= seen[r]
  <2> DEFINE Age == {captures - seen[x] : x \in linked}
  <2>1. Age \in SUBSET Nat /\ Age # {}
    <3>1. \A x \in linked : captures - seen[x] \in Nat
      BY <1>1
    <3> QED BY <3>1
  <2>2. PICK a \in Age : \A y \in Age : a <= y
    BY <2>1, Least
  <2>3. PICK r \in linked : a = captures - seen[r]
    BY <2>2
  <2>4. \A x \in linked : captures - seen[r] <= captures - seen[x]
    BY <2>2, <2>3
  <2> QED BY <1>1, <2>4
<1> DEFINE Ties == {x \in linked : seen[x] = seen[r]}
<1>3. PICK b \in Nat : \A x \in Res : x <= b
  BY IdsBounded
<1>4. PICK m \in Ties : \A x \in Ties : x <= m
  <2> DEFINE Gap == {b - x : x \in Ties}
  <2>1. Gap \in SUBSET Nat /\ Gap # {}
    BY <1>1, <1>3
  <2>2. PICK a \in Gap : \A y \in Gap : a <= y
    BY <2>1, Least
  <2>3. PICK m \in Ties : a = b - m
    BY <2>2
  <2>4. \A x \in Ties : b - m <= b - x
    BY <2>2, <2>3
  <2> QED BY <1>1, <2>4
<1>5. m \in linked /\ seen[m] = seen[r] /\ m \in Nat
  BY <1>1
<1>6. \A x \in linked : seen[m] > seen[x] \/ (seen[m] = seen[x] /\ m >= x)
  BY <1>1, <1>2, <1>4, <1>5
<1> QED BY <1>5, <1>6 DEF Newest

-----------------------------------------------------------------------------
(* The cascade tries the ranks in their order.                             *)

\* The rank a row still has at least when a query of the cascade is reached.
AtLeast == [exact |-> 0, parsed |-> 1, spaces |-> 1, prefix |-> 2, path |-> 3]

\* Every closer row was missed.
NoneCloser(q) ==
  \A s \in kept[q] : AtLeast[rd[q].try] <= Rank(Looked(q), UrlOf[s])

Closest(q) ==
  /\ rd[q].pc = "lookup" => NoneCloser(q)
  /\ rd[q].url # Null /\ (rd[q].css # Null \/ rd[q].pc = "done") =>
       Best(rd[q].url, rd[q].main, kept[q])
  /\ rd[q].css # Null /\ rd[q].pc = "done" => Best(SubUrl[rd[q].css], rd[q].sub, kept[q])

CInv == IInv /\ \A q \in Reader : Closest(q)

\* What a running lookup works on.
LEMMA LookupTypes ==
  ASSUME IInv, NEW q \in Reader, rd[q].pc = "lookup"
  PROVE  /\ rd[q].try \in Try /\ Looked(q) \in Url /\ Scope(q) \subseteq Res
         /\ kept[q] \subseteq Scope(q) /\ \A r \in Res : UrlOf[r] \in Url
         /\ \A s \in kept[q] : Rank(Looked(q), UrlOf[s]) \in 0 .. 5
<1>1. /\ rd[q].try \in Try /\ Looked(q) \in Url /\ Scope(q) \subseteq Res
      /\ kept[q] \subseteq Scope(q) /\ \A r \in Res : UrlOf[r] \in Url
  BY RowTypes, UrlAssumption DEF IInv, TypeOK, Reading, History, Working
<1> QED BY <1>1, Ranks

\* A row that a query returns is as close as any that stayed linked, or one that its
\* pattern takes for the URL.
LEMMA HitIsBest ==
  ASSUME IInv, NEW q \in Reader, rd[q].pc = "lookup",
         NoneCloser(q), NEW r \in Found(q)
  PROVE  Best(Looked(q), r, kept[q])
<1> DEFINE u == Looked(q)
           v == UrlOf[r]
           c == CutQuery(u)
<1>1. /\ rd[q].try \in Try /\ u \in Url /\ r \in Scope(q) /\ r \in Res /\ v \in Url /\ r # Null
      /\ kept[q] \subseteq Scope(q) /\ Scope(q) \subseteq Res /\ \A s \in Res : UrlOf[s] \in Url
      /\ \A s \in kept[q] : Rank(u, UrlOf[s]) \in 0 .. 5
  BY LookupTypes, FoundInScope, ResAssumption DEF IInv
<1>2. \A s \in kept[q] : AtLeast[rd[q].try] <= Rank(u, UrlOf[s])
  BY DEF NoneCloser
<1>3. SUFFICES \/ Rank(u, v) < 5 /\ \A s \in kept[q] : Rank(u, v) <= Rank(u, UrlOf[s])
               \/ <<u, v>> \in Like23 /\ \A s \in kept[q] : Rank(u, UrlOf[s]) >= 2
               \/ <<c, v>> \in LikeCase
                    /\ \A s \in kept[q] : Rank(u, UrlOf[s]) < 5 => Rank(u, UrlOf[s]) = 4
  BY <1>1 DEF Best
<1>4. CASE rd[q].try = "exact"
  <2>1. v = u
    BY <1>4 DEF Found, ByUrl
  <2>2. Rank(u, v) = 0
    BY <1>1, <2>1, Ranks
  <2> QED BY <1>1, <2>2
<1>5. CASE rd[q].try \in {"parsed", "spaces"}
  <2>1. v = ParsedString(u)
    BY <1>5 DEF Found, ByUrl, ParsedString, SpacesEscaped
  <2>2. Rank(u, v) \in {0, 1}
    BY <1>1, <2>1, Ranks
  <2>3. \A s \in kept[q] : 1 <= Rank(u, UrlOf[s])
    BY <1>2, <1>5 DEF AtLeast
  <2> QED BY <1>1, <2>2, <2>3
<1>6. CASE rd[q].try = "prefix"
  <2>1. LikePrefix(u, v)
    BY <1>6 DEF Found, ByUrlPrefix, Newest
  <2>2. <<u, v>> \in Like23 \/ Rank(u, v) \in {0, 2}
    BY <1>1, <2>1, Ranks DEF LikePrefix
  <2>3. \A s \in kept[q] : 2 <= Rank(u, UrlOf[s])
    BY <1>2, <1>6 DEF AtLeast
  <2> QED BY <1>1, <2>2, <2>3
<1>7. CASE rd[q].try = "path"
  <2>1. \A s \in kept[q] : 3 <= Rank(u, UrlOf[s])
    BY <1>2, <1>7 DEF AtLeast
  <2>2. r \in ByUrlPath(Scope(q), c)
    BY <1>7 DEF Found
  <2>3. CASE ByUrl(Scope(q), c) # {}
    <3>1. v = c
      BY <2>2, <2>3 DEF ByUrlPath, Newest, ByUrl
    <3>2. Rank(u, v) \in {0, 3}
      BY <1>1, <3>1, Ranks
    <3> QED BY <1>1, <2>1, <3>2
  <2>4. CASE ByUrl(Scope(q), c) = {}
    <3>1. LikePath(c, v) /\ v # c
      BY <1>1, <2>2, <2>4 DEF ByUrlPath, Newest, ByUrl
    <3>2. c.path = u.path /\ c.raw = u.raw
      BY <1>1 DEF CutQuery, Url
    <3>3. \A s \in kept[q] : Rank(u, UrlOf[s]) # 3
      BY <1>1, <2>4, Ranks DEF ByUrl
    <3>4. CASE <<c, v>> \in LikeCase
      <4>1. \A s \in kept[q] : Rank(u, UrlOf[s]) < 5 => Rank(u, UrlOf[s]) = 4
        BY <1>1, <2>1, <3>3
      <4> QED BY <3>4, <4>1
    <3>5. CASE c.frag = Null /\ SamePath(u, v) /\ v.query # Null
      <4>1. Rank(u, v) \in {0, 2, 4}
        BY <1>1, <3>5, Ranks
      <4> QED BY <1>1, <2>1, <3>3, <4>1
    <3> QED BY <3>1, <3>2, <3>4, <3>5 DEF LikePath, SamePath
  <2> QED BY <2>3, <2>4
<1> QED BY <1>1, <1>4, <1>5, <1>6, <1>7 DEF Try

\* A query that returns nothing leaves the rows of the next ranks; the last none.
LEMMA MissLeaves ==
  ASSUME IInv, NEW q \in Reader, rd[q].pc = "lookup", NoneCloser(q), Found(q) = {}
  PROVE  LET next == NextTry(rd[q].try, Looked(q))
         IN  IF next = Null THEN Best(Looked(q), Null, kept[q])
             ELSE \A s \in kept[q] : AtLeast[next] <= Rank(Looked(q), UrlOf[s])
<1> DEFINE u == Looked(q)
           c == CutQuery(u)
           next == NextTry(rd[q].try, u)
<1>1. /\ rd[q].try \in Try /\ u \in Url /\ kept[q] \subseteq Scope(q) /\ Scope(q) \subseteq Res
      /\ \A s \in Res : UrlOf[s] \in Url
      /\ \A s \in kept[q] : Rank(u, UrlOf[s]) \in 0 .. 5
  BY LookupTypes
<1>2. \A s \in kept[q] : AtLeast[rd[q].try] <= Rank(u, UrlOf[s])
  BY DEF NoneCloser
<1>3. CASE rd[q].try = "exact"
  <2>1. \A s \in kept[q] : Rank(u, UrlOf[s]) # 0
    BY <1>1, <1>3, Ranks DEF Found, ByUrl
  <2>2. ParsedString(u) = u => \A s \in kept[q] : Rank(u, UrlOf[s]) # 1
    BY <1>1, Ranks
  <2>3. next = IF ParsedString(u) # u THEN "parsed" ELSE "prefix"
    BY <1>3 DEF NextTry
  <2>4. next # Null
    BY <2>3, TryAssumption DEF Try
  <2>5. CASE ParsedString(u) # u
    <3>1. AtLeast[next] = 1
      BY <2>3, <2>5 DEF AtLeast
    <3> QED BY <1>1, <2>1, <2>4, <3>1
  <2>6. CASE ParsedString(u) = u
    <3>1. AtLeast[next] = 2
      BY <2>3, <2>6 DEF AtLeast
    <3> QED BY <1>1, <2>1, <2>2, <2>4, <2>6, <3>1
  <2> QED BY <2>5, <2>6
<1>4. CASE rd[q].try \in {"parsed", "spaces"}
  <2>1. \A s \in kept[q] : 1 <= Rank(u, UrlOf[s])
    BY <1>2, <1>4 DEF AtLeast
  <2>2. Found(q) = ByUrl(Scope(q), ParsedString(u))
    BY <1>4 DEF Found, ParsedString, SpacesEscaped
  <2>3. \A s \in kept[q] : Rank(u, UrlOf[s]) # 1
    <3>1. \A s \in kept[q] : UrlOf[s] # ParsedString(u) /\ UrlOf[s] \in Url
      BY <1>1, <2>2 DEF ByUrl
    <3> QED BY <1>1, <3>1, Ranks
  <2>4. next \in {"spaces", "prefix"}
    BY <1>4 DEF NextTry
  <2>5. next # Null /\ AtLeast[next] \in {1, 2}
    BY <2>4, TryAssumption DEF Try, AtLeast
  <2> QED BY <1>1, <2>1, <2>3, <2>5
<1>5. CASE rd[q].try = "prefix"
  <2>1. \A s \in kept[q] : 2 <= Rank(u, UrlOf[s])
    BY <1>2, <1>5 DEF AtLeast
  <2> DEFINE linked == {s \in Scope(q) : LikePrefix(u, UrlOf[s])}
  <2>2. linked = {}
    <3>1. Newest(linked) = {}
      BY <1>5 DEF Found, ByUrlPrefix
    <3>2. linked \in SUBSET Res
      BY <1>1
    <3> QED BY <3>1, <3>2, NewestExists DEF IInv
  <2>3. ASSUME NEW s \in kept[q], Rank(u, UrlOf[s]) = 2
        PROVE  FALSE
    <3>1. s \in Scope(q) /\ UrlOf[s] \in Url
      BY <1>1
    <3>2. UrlOf[s] # u /\ SamePath(u, UrlOf[s]) /\ u.frag = Null /\ UrlOf[s].query = u.query
      BY <1>1, <2>3, <3>1, Ranks
    <3>3. UrlOf[s].frag # Null
      BY <1>1, <3>1, <3>2 DEF Url, SamePath
    <3> QED BY <2>2, <3>1, <3>2, <3>3 DEF LikePrefix
  <2>4. next = "path"
    BY <1>5 DEF NextTry
  <2>5. next # Null /\ AtLeast[next] = 3
    BY <2>4, TryAssumption DEF Try, AtLeast
  <2> QED BY <1>1, <2>1, <2>3, <2>5
<1>6. CASE rd[q].try = "path"
  <2>1. \A s \in kept[q] : 3 <= Rank(u, UrlOf[s])
    BY <1>2, <1>6 DEF AtLeast
  <2> DEFINE linked == {s \in Scope(q) : LikePath(c, UrlOf[s])}
  <2>2. ByUrl(Scope(q), c) = {} /\ linked = {}
    <3>1. ByUrlPath(Scope(q), c) = {}
      BY <1>6 DEF Found
    <3>2. ByUrl(Scope(q), c) \in SUBSET Res /\ linked \in SUBSET Res
      BY <1>1 DEF ByUrl
    <3>3. ByUrl(Scope(q), c) = {}
      BY <3>1, <3>2, NewestExists DEF ByUrlPath, IInv
    <3>4. Newest(linked) = {}
      BY <3>1, <3>3 DEF ByUrlPath
    <3> QED BY <3>2, <3>3, <3>4, NewestExists DEF IInv
  <2>3. \A s \in kept[q] : Rank(u, UrlOf[s]) # 3
    BY <1>1, <2>2, Ranks DEF ByUrl
  <2>4. ASSUME NEW s \in kept[q], Rank(u, UrlOf[s]) = 4
        PROVE  FALSE
    <3>1. s \in Scope(q) /\ UrlOf[s] \in Url
      BY <1>1
    <3>2. SamePath(u, UrlOf[s]) /\ c.frag = Null /\ UrlOf[s].query # Null
      BY <1>1, <2>4, <3>1, Ranks
    <3>3. SamePath(c, UrlOf[s])
      BY <1>1, <3>2 DEF CutQuery, Url, SamePath
    <3> QED BY <2>2, <3>1, <3>2, <3>3 DEF LikePath
  <2>5. \A s \in kept[q] : ~(Rank(u, UrlOf[s]) < 5)
    BY <1>1, <2>1, <2>3, <2>4
  <2>6. next = Null
    BY <1>6 DEF NextTry
  <2> QED BY <2>5, <2>6 DEF Best
<1> QED BY <1>1, <1>3, <1>4, <1>5, <1>6 DEF Try

-----------------------------------------------------------------------------
(* No step brings a closer row into what stayed linked.                    *)

\* A row that is the closest stays so when fewer rows stay linked.
LEMMA BestOfFewer ==
  ASSUME NEW u, NEW r, NEW linked, NEW fewer \in SUBSET linked, Best(u, r, linked)
  PROVE  Best(u, r, fewer)
BY DEF Best

\* A step that leaves the request alone.
LEMMA ClosestKept ==
  ASSUME NEW q \in Reader, Closest(q), rd'[q] = rd[q], kept'[q] \subseteq kept[q]
  PROVE  Closest(q)'
<1>1. Looked(q)' = Looked(q)
  BY DEF Looked
<1>2. rd[q].pc = "lookup" => NoneCloser(q)'
  BY <1>1 DEF Closest, NoneCloser
<1>3. rd[q].url # Null /\ (rd[q].css # Null \/ rd[q].pc = "done") =>
        Best(rd[q].url, rd[q].main, kept'[q])
  BY BestOfFewer DEF Closest
<1>4. rd[q].css # Null /\ rd[q].pc = "done" => Best(SubUrl[rd[q].css], rd[q].sub, kept'[q])
  BY BestOfFewer DEF Closest
<1> QED BY <1>2, <1>3, <1>4 DEF Closest

\* A request that has not begun its lookup, or has just begun it.
LEMMA ClosestAtStart ==
  ASSUME NEW q \in Reader, IInv', rd'[q].css = Null, rd'[q].pc # "done",
         rd'[q].pc = "lookup" => rd'[q].try = "exact" /\ rd'[q].url \in Asked
  PROVE  Closest(q)'
<1>1. kept'[q] \subseteq Res
  BY DEF IInv, TypeOK
<1>2. ASSUME rd'[q].pc = "lookup"
      PROVE  NoneCloser(q)'
  <2>1. \A s \in kept'[q] : Rank(Looked(q)', UrlOf[s]) \in 0 .. 5
    BY <1>1, <1>2, UrlAssumption, Ranks DEF Looked
  <2> QED BY <1>2, <2>1 DEF NoneCloser, AtLeast
<1> QED BY <1>2 DEF Closest

\* A step of a request: a hit is the closest row, a miss leaves only later ranks.
LEMMA ReadKeepsClosest ==
  ASSUME CInv, IInv', NEW q \in Reader, Read(q)
  PROVE  Closest(q)'
<1> USE DEF CInv
<1>1. rd \in [Reader -> Request] /\ Closest(q) /\ kept'[q] \subseteq Res
  BY DEF IInv, TypeOK
<1>2. CASE \E p \in Page, u \in Asked : AskPage(q, p, u)
  <2>1. /\ rd'[q].css = Null /\ rd'[q].pc = "lookup"
        /\ rd'[q].try = "exact" /\ rd'[q].url \in Asked
    BY <1>1, <1>2 DEF AskPage, NoRequest
  <2> QED BY <2>1, ClosestAtStart
<1>3. CASE \/ \E t \in Token, u \in Asked : AskShare(q, t, u, Null)
           \/ \E t \in Token, r \in Res : AskShare(q, t, Null, FileOf[r])
  <2>1. PICK t \in Token, u \in Asked \union {Null}, f \in {FileOf[r] : r \in Res} \union {Null} :
          AskShare(q, t, u, f)
    BY <1>3
  <2>2. rd'[q] = [NoRequest EXCEPT !.pc = "token", !.token = t, !.url = u, !.file = f]
    BY <1>1, <2>1 DEF AskShare
  <2>3. rd'[q].css = Null /\ rd'[q].pc = "token"
    BY <2>2 DEF NoRequest
  <2> QED BY <2>3, ClosestAtStart
<1>4. CASE Close(q)
  <2>1. rd'[q].css = Null /\ rd'[q].pc = "idle"
    BY <1>1, <1>4 DEF Close, NoRequest
  <2> QED BY <2>1, ClosestAtStart
<1>5. CASE CheckToken(q)
  <2>1. rd[q].css = Null /\ (rd[q].file = Null => rd[q].url \in Asked)
    BY <1>1, <1>5 DEF CheckToken, IInv, Reading, Answer, Kind, Request
  <2>2. /\ rd'[q].css = Null /\ rd'[q].pc \in {"denied", "file", "lookup"}
        /\ rd'[q].pc = "lookup" => rd'[q].try = "exact" /\ rd'[q].url \in Asked
    <3> DEFINE r == rd[q]
    <3>1. rd'[q] = IF ~ActiveShare(r.token) THEN [r EXCEPT !.pc = "denied"]
                   ELSE IF r.file # Null THEN [r EXCEPT !.pc = "file"]
                   ELSE [r EXCEPT !.pc = "lookup", !.try = "exact"]
      BY <1>1, <1>5 DEF CheckToken
    <3>2. r \in Request
      BY <1>1
    <3> QED BY <2>1, <3>1, <3>2 DEF Request
  <2> QED BY <2>2, ClosestAtStart
<1>6. CASE Miss(q)
  <2> DEFINE next == NextTry(rd[q].try, Looked(q))
  <2>1. /\ rd[q].pc = "lookup" /\ NoneCloser(q) /\ Found(q) = {} /\ kept' = kept
        /\ rd[q].sub = Null /\ (rd[q].css = Null => rd[q].main = Null)
    BY <1>1, <1>6 DEF Miss, history, Closest, IInv, Reading, Answer
  <2>2. IF next = Null THEN Best(Looked(q), Null, kept[q])
        ELSE \A s \in kept[q] : AtLeast[next] <= Rank(Looked(q), UrlOf[s])
    BY <2>1, MissLeaves
  <2>3. /\ rd'[q].try = next /\ rd'[q].pc = (IF next = Null THEN "done" ELSE "lookup")
        /\ rd'[q].url = rd[q].url /\ rd'[q].css = rd[q].css
        /\ rd'[q].main = rd[q].main /\ rd'[q].sub = rd[q].sub
    BY <1>1, <1>6 DEF Miss, Request
  <2>4. Looked(q)' = Looked(q)
    BY <2>3 DEF Looked
  <2> HIDE DEF next
  <2>5. CASE next = Null
    <3>1. rd[q].css = Null => Best(rd[q].url, Null, kept[q])
      BY <2>2, <2>5 DEF Looked
    <3>2. rd[q].css # Null => Best(SubUrl[rd[q].css], Null, kept[q])
      BY <2>2, <2>5 DEF Looked
    <3> QED BY <1>1, <2>1, <2>3, <2>5, <3>1, <3>2 DEF Closest
  <2>6. CASE next # Null
    <3>1. NoneCloser(q)'
      BY <2>1, <2>2, <2>3, <2>4, <2>6 DEF NoneCloser
    <3> QED BY <1>1, <2>1, <2>3, <2>6, <3>1 DEF Closest
  <2> QED BY <2>5, <2>6
<1>7. CASE HitCss(q)
  <2>1. /\ rd[q].pc = "lookup" /\ NoneCloser(q) /\ rd[q].css = Null /\ kept' = kept
        /\ Looked(q) = rd[q].url
    BY <1>1, <1>7 DEF HitCss, history, Closest, Looked
  <2>2. PICK r \in Found(q) : rd' = [rd EXCEPT ![q].css = r, ![q].main = r, ![q].try = "exact"]
    BY <1>7 DEF HitCss
  <2>3. /\ rd'[q].css = r /\ rd'[q].main = r /\ rd'[q].try = "exact"
        /\ rd'[q].url = rd[q].url /\ rd'[q].pc = "lookup"
    BY <1>1, <2>1, <2>2 DEF Request
  <2>4. Best(rd[q].url, r, kept[q])
    BY <2>1, HitIsBest
  <2>5. NoneCloser(q)'
    <3>1. \A s \in kept'[q] : Rank(Looked(q)', UrlOf[s]) \in 0 .. 5
      <4>1. Looked(q)' \in Url
        BY <2>3, UrlAssumption DEF IInv, TypeOK
      <4> QED BY <1>1, <4>1, UrlAssumption, Ranks
    <3> QED BY <2>3, <3>1 DEF NoneCloser, AtLeast
  <2> QED BY <2>1, <2>3, <2>4, <2>5 DEF Closest
<1>8. CASE HitResource(q)
  <2>1. /\ rd[q].pc = "lookup" /\ NoneCloser(q) /\ rd[q].css = Null /\ kept' = kept
        /\ Looked(q) = rd[q].url
    BY <1>1, <1>8 DEF HitResource, history, Closest, Looked
  <2>2. PICK r \in Found(q) : rd' = [rd EXCEPT ![q].main = r, ![q].pc = "done"]
    BY <1>8 DEF HitResource
  <2>3. rd'[q].css = Null /\ rd'[q].main = r /\ rd'[q].url = rd[q].url /\ rd'[q].pc = "done"
    BY <1>1, <2>1, <2>2 DEF Request
  <2>4. Best(rd[q].url, r, kept[q])
    BY <2>1, HitIsBest
  <2> QED BY <2>1, <2>3, <2>4 DEF Closest
<1>9. CASE HitReference(q)
  <2>1. /\ rd[q].pc = "lookup" /\ NoneCloser(q) /\ rd[q].css # Null /\ kept' = kept
        /\ Looked(q) = SubUrl[rd[q].css]
    BY <1>1, <1>9 DEF HitReference, Closest, Looked
  <2>2. PICK r \in Found(q) : rd' = [rd EXCEPT ![q].sub = r, ![q].pc = "done"]
    BY <1>9 DEF HitReference
  <2>3. /\ rd'[q].css = rd[q].css /\ rd'[q].main = rd[q].main /\ rd'[q].sub = r
        /\ rd'[q].url = rd[q].url /\ rd'[q].pc = "done"
    BY <1>1, <2>2 DEF Request
  <2>4. Best(Looked(q), r, kept[q])
    BY <2>1, HitIsBest
  <2> QED BY <1>1, <2>1, <2>3, <2>4 DEF Closest
<1>10. CASE ServeLocal(q)
  <2>1. rd[q].url = Null /\ rd[q].css = Null
    BY <1>1, <1>10 DEF ServeLocal, IInv, Reading, Kind
  <2>2. rd'[q].url = Null /\ rd'[q].css = Null /\ rd'[q].pc = "done"
    BY <1>1, <1>10, <2>1 DEF ServeLocal, Request
  <2> QED BY <2>2 DEF Closest
<1>11. CASE QueryFails(q) \/ ReferenceFails(q) \/ ReadFails(q) \/ LocalReadFails(q)
  <2>1. PICK e \in {"failed", "unread", "unresolved"} : rd' = [rd EXCEPT ![q].pc = e]
    BY <1>11 DEF QueryFails, ReferenceFails, ReadFails, LocalReadFails
  <2>2. /\ rd'[q].css = rd[q].css /\ rd'[q].main = rd[q].main /\ rd'[q].url = rd[q].url
        /\ rd'[q].pc \in {"failed", "unread", "unresolved"} /\ kept' = kept
    BY <1>1, <1>11, <2>1
       DEF Request, QueryFails, ReferenceFails, ReadFails, LocalReadFails, history
  <2> QED BY <1>1, <2>2 DEF Closest
<1> QED BY <1>2, <1>3, <1>4, <1>5, <1>6, <1>7, <1>8, <1>9, <1>10, <1>11 DEF Read

\* The second invariant is inductive.
LEMMA ClosestStep ==
  ASSUME CInv, [Next]_vars
  PROVE  CInv'
<1>1. IInv'
  BY StepInvariant DEF CInv
<1>2. CASE UNCHANGED vars
  BY <1>1, <1>2, ClosestKept DEF CInv, vars
<1>3. CASE Change
  <2>1. \A p \in Reader : rd'[p] = rd[p]
    BY <1>3 DEF Change, Capture, DeletePage, Revoke, Expire
  <2>2. \A p \in Reader : kept'[p] \subseteq kept[p]
    BY <1>3 DEF Change, Capture, DeletePage, Revoke, Expire, history
  <2> QED BY <1>1, <2>1, <2>2, ClosestKept DEF CInv
<1>4. ASSUME NEW q \in Reader, Read(q)
      PROVE  CInv'
  <2>1. Closest(q)'
    BY <1>1, <1>4, ReadKeepsClosest
  <2>2. \A p \in Reader : p # q => rd'[p] = rd[p] /\ kept'[p] = kept[p]
    <3>1. rd \in [Reader -> Request] /\ kept \in [Reader -> SUBSET Res]
      BY DEF CInv, IInv, TypeOK
    <3>2. CASE QueryFails(q) \/ ReferenceFails(q) \/ ReadFails(q) \/ LocalReadFails(q)
      BY <3>1, <3>2 DEF QueryFails, ReferenceFails, ReadFails, LocalReadFails, history
    <3>3. CASE Miss(q) \/ HitCss(q) \/ HitResource(q) \/ HitReference(q)
      <4>1. \E n : rd' = [rd EXCEPT ![q] = n]
        BY <3>3 DEF Miss, HitCss, HitResource, HitReference
      <4>2. kept' = kept
        BY <3>3 DEF Miss, HitCss, HitResource, HitReference, history
      <4> QED BY <3>1, <4>1, <4>2
    <3>4. CASE CheckToken(q) \/ ServeLocal(q) \/ Close(q)
      BY <3>1, <3>4 DEF CheckToken, ServeLocal, Close, history
    <3>5. CASE \E t \in Page, u \in Asked : AskPage(q, t, u)
      BY <3>1, <3>5 DEF AskPage
    <3>6. CASE \/ \E t \in Token, u \in Asked : AskShare(q, t, u, Null)
               \/ \E t \in Token, r \in Res : AskShare(q, t, Null, FileOf[r])
      <4>1. PICK t \in Token, u \in Asked \union {Null},
                 f \in {FileOf[r] : r \in Res} \union {Null} : AskShare(q, t, u, f)
        BY <3>6
      <4> QED BY <3>1, <4>1 DEF AskShare
    <3> QED BY <1>4, <3>2, <3>3, <3>4, <3>5, <3>6 DEF Read
  <2> QED BY <1>1, <2>1, <2>2, ClosestKept DEF CInv
<1> QED BY <1>2, <1>3, <1>4 DEF Next

\* It holds before the first request.
LEMMA ClosestInit == Init => CInv
<1> SUFFICES ASSUME Init PROVE CInv
  OBVIOUS
<1>1. IInv
  BY InitInvariant
<1>2. ASSUME NEW q \in Reader
      PROVE  Closest(q)
  BY DEF Init, NoRequest, Closest
<1> QED BY <1>1, <1>2 DEF CInv

\* It is stronger than what the run checks.
LEMMA ClosestGivesBest == CInv => BestLinked
BY DEF CInv, Closest, IInv, Reading, Answer, BestLinked

\* At every stage of the cascade no row that stayed linked is closer than those still
\* to be tried, whatever else the LIKE patterns match and whatever query fails.
THEOREM ClosestInvariance == Spec => []CInv
BY ClosestInit, ClosestStep, PTL DEF Spec

\* Every request and every reference of a style sheet whose queries succeed gets the
\* closest of the rows that stayed linked, although the page may be archived again
\* between two queries; a URL that only a LIKE pattern takes for the one asked for comes
\* at the earliest when no row is left that the queries before that pattern ask for.
THEOREM ClosestServed == Spec => []BestLinked
BY ClosestInvariance, ClosestGivesBest, PTL

-----------------------------------------------------------------------------
(* The order of a list: how its rows are counted into pages.               *)

\* The rows of the table have their columns.
RowsOK == rows \in [PageId -> Row]

\* The rows a list is made of, and what orders them.
LEMMA RowsAre ==
  ASSUME RowsOK, NEW f
  PROVE  /\ Rows(f) \in SUBSET PageId /\ IsFiniteSet(Rows(f)) /\ Cardinality(Rows(f)) \in Nat
         /\ \A p \in PageId : p \in Nat /\ Key(p) \in Nat
<1>1. Rows(f) \in SUBSET PageId
  BY DEF Rows, FavoriteRows, SearchRows, ListRows, There
<1>2. IsFiniteSet(Rows(f)) /\ Cardinality(Rows(f)) \in Nat
  BY <1>1, PageAssumption, FS_Subset, FS_CardinalityType
<1>3. \A p \in PageId : p \in Nat /\ Key(p) \in Nat
  BY PageAssumption DEF RowsOK, Row, Key
<1> QED BY <1>1, <1>2, <1>3

\* Time and id order the rows in one way.
LEMMA OneOrder ==
  ASSUME RowsOK
  PROVE  /\ \A p \in PageId : ~Before(p, p)
         /\ \A p, q \in PageId : p = q \/ Before(p, q) \/ Before(q, p)
         /\ \A p, q, r \in PageId : Before(p, q) /\ Before(q, r) => Before(p, r)
<1>1. \A p \in PageId : p \in Nat /\ Key(p) \in Nat
  BY RowsAre
<1> QED BY <1>1 DEF Before

\* Rows before a row in a list.
Ahead(f, p) == {q \in Rows(f) : Before(q, p)}
Place(f, p) == Cardinality(Ahead(f, p))

\* A row has fewer than all the others before it.
LEMMA PlaceIs ==
  ASSUME RowsOK, NEW f, NEW p \in Rows(f)
  PROVE  /\ IsFiniteSet(Ahead(f, p)) /\ Place(f, p) \in Nat
         /\ Place(f, p) < Cardinality(Rows(f))
<1>1. Ahead(f, p) \in SUBSET Rows(f) /\ p \notin Ahead(f, p)
  BY RowsAre, OneOrder DEF Ahead
<1>2. IsFiniteSet(Ahead(f, p)) /\ Cardinality(Ahead(f, p)) <= Cardinality(Rows(f))
      /\ Cardinality(Ahead(f, p)) # Cardinality(Rows(f))
  BY <1>1, RowsAre, FS_Subset
<1>3. Cardinality(Ahead(f, p)) \in Nat /\ Cardinality(Rows(f)) \in Nat
  BY <1>2, RowsAre, FS_CardinalityType
<1> QED BY <1>2, <1>3 DEF Place

\* A row before another has fewer before it.
LEMMA PlaceGrows ==
  ASSUME RowsOK, NEW f, NEW p \in Rows(f), NEW q \in Rows(f), Before(q, p)
  PROVE  Place(f, q) < Place(f, p)
<1>1. p \in PageId /\ q \in PageId
  BY RowsAre
<1>2. Ahead(f, q) \in SUBSET Ahead(f, p)
  <2> SUFFICES ASSUME NEW r \in Ahead(f, q) PROVE r \in Ahead(f, p)
    OBVIOUS
  <2>1. r \in Rows(f) /\ r \in PageId /\ Before(r, q)
    BY RowsAre DEF Ahead
  <2> QED BY <1>1, <2>1, OneOrder DEF Ahead
<1>3. q \in Ahead(f, p) /\ q \notin Ahead(f, q)
  BY <1>1, OneOrder DEF Ahead
<1>4. Place(f, q) <= Place(f, p) /\ Place(f, q) # Place(f, p)
  BY <1>2, <1>3, PlaceIs, FS_Subset DEF Place
<1> QED BY <1>4, PlaceIs

\* So no two rows have one place, and a row of an earlier place has a key at least as late.
LEMMA PlaceOrders ==
  ASSUME RowsOK, NEW f, NEW p \in Rows(f), NEW q \in Rows(f)
  PROVE  /\ Place(f, p) = Place(f, q) => p = q
         /\ Place(f, q) < Place(f, p) => Key(q) >= Key(p)
<1>1. p \in PageId /\ q \in PageId
  BY RowsAre
<1>2. p = q \/ Before(p, q) \/ Before(q, p)
  BY <1>1, OneOrder
<1>3. Place(f, p) \in Nat /\ Place(f, q) \in Nat
  BY PlaceIs
<1>4. Before(p, q) => Place(f, p) < Place(f, q)
  BY PlaceGrows
<1>5. Before(q, p) => Place(f, q) < Place(f, p)
  BY PlaceGrows
<1>6. Before(q, p) => Key(q) >= Key(p)
  BY <1>1, RowsAre DEF Before
<1>7. Key(p) >= Key(p)
  BY <1>1, RowsAre
<1> QED BY <1>2, <1>3, <1>4, <1>5, <1>6, <1>7

\* Every place of a list is taken.
LEMMA PlaceTaken ==
  ASSUME RowsOK, NEW f, NEW k \in Nat, k < Cardinality(Rows(f))
  PROVE  \E p \in Rows(f) : Place(f, p) = k
<1> DEFINE n == Cardinality(Rows(f))
           T == 0 .. (n - 1)
           g == [p \in Rows(f) |-> Place(f, p)]
<1>1. n \in Nat /\ IsFiniteSet(Rows(f))
  BY RowsAre
<1>2. IsFiniteSet(T) /\ Cardinality(T) = n
  <2> DEFINE m == n - 1
  <2>1. m \in Int /\ 0 \in Int
    BY <1>1
  <2> HIDE DEF n, m
  <2>2. IsFiniteSet(0 .. m) /\ Cardinality(0 .. m) = IF 0 > m THEN 0 ELSE m - 0 + 1
    BY <2>1, FS_Interval
  <2> QED BY <1>1, <2>2 DEF m
<1>3. g \in Injection(Rows(f), T)
  <2>1. \A p \in Rows(f) : Place(f, p) \in T
    BY <1>1, PlaceIs
  <2>2. \A p, q \in Rows(f) : Place(f, p) = Place(f, q) => p = q
    BY PlaceOrders
  <2> QED BY <2>1, <2>2 DEF Injection, IsInjective
<1>4. g \in Surjection(Rows(f), T)
  BY <1>2, <1>3, FS_Injection
<1>5. k \in T
  BY <1>1
<1> QED BY <1>4, <1>5 DEF Surjection

\* The rows of some places in a row: as many as places, or fewer where the list ends.
Window(f, a, b) == {p \in Rows(f) : Place(f, p) >= a /\ Place(f, p) < b}
LEMMA WindowSize ==
  ASSUME RowsOK, NEW f, NEW a \in Nat, NEW b \in Nat, a <= b
  PROVE  /\ Cardinality(Window(f, a, b)) \in 0 .. (b - a)
         /\ b <= Cardinality(Rows(f)) => Cardinality(Window(f, a, b)) = b - a
<1> DEFINE W == Window(f, a, b)
           T == a .. (b - 1)
           g == [p \in W |-> Place(f, p)]
<1>1. W \in SUBSET Rows(f) /\ \A p \in W : Place(f, p) \in T
  BY PlaceIs DEF Window
<1>2. IsFiniteSet(T) /\ Cardinality(T) = b - a
  <2> DEFINE m == b - 1
  <2>1. m \in Int /\ a \in Int
    OBVIOUS
  <2> HIDE DEF m
  <2>2. IsFiniteSet(a .. m) /\ Cardinality(a .. m) = IF a > m THEN 0 ELSE m - a + 1
    BY <2>1, FS_Interval
  <2> QED BY <2>2 DEF m
<1>3. g \in Injection(W, T)
  <2>1. \A p, q \in W : Place(f, p) = Place(f, q) => p = q
    BY <1>1, PlaceOrders
  <2> QED BY <1>1, <2>1 DEF Injection, IsInjective
<1>4. IsFiniteSet(W) /\ Cardinality(W) <= b - a /\ Cardinality(W) \in Nat
      /\ (g \in Surjection(W, T) => Cardinality(W) = b - a)
  <2>1. IsFiniteSet(W) /\ Cardinality(W) <= Cardinality(T)
        /\ (Cardinality(W) = Cardinality(T) <=> g \in Surjection(W, T))
    BY <1>2, <1>3, FS_Injection
  <2> QED BY <1>2, <2>1, FS_CardinalityType
<1>5. b <= Cardinality(Rows(f)) => g \in Surjection(W, T)
  <2> SUFFICES ASSUME b <= Cardinality(Rows(f)), NEW k \in T
               PROVE  \E p \in W : g[p] = k
    BY <1>1 DEF Surjection
  <2>1. k \in Nat /\ k < Cardinality(Rows(f)) /\ a <= k /\ k < b
    BY RowsAre
  <2>2. PICK p \in Rows(f) : Place(f, p) = k
    BY <2>1, PlaceTaken
  <2>3. p \in W
    BY <2>1, <2>2 DEF Window
  <2> QED BY <2>2, <2>3
<1> HIDE DEF W
<1>6. Cardinality(W) \in 0 .. (b - a) /\ (b <= Cardinality(Rows(f)) => Cardinality(W) = b - a)
  BY <1>4, <1>5
<1> QED BY <1>6 DEF W

\* What a request lists is such a window.
LEMMA SliceIs ==
  ASSUME RowsOK, NEW f, NEW n \in Nat, n >= 1
  PROVE  /\ (n - 1) * PageSize \in Nat /\ n * PageSize \in Nat
         /\ n * PageSize = (n - 1) * PageSize + PageSize
         /\ Slice(f, n) = Window(f, (n - 1) * PageSize, n * PageSize)
<1>1. PageSize \in Nat
  BY ListBoundsAssumption
<1>2. (n - 1) * PageSize \in Nat /\ n * PageSize \in Nat
      /\ n * PageSize = (n - 1) * PageSize + PageSize
  BY <1>1
<1>3. Slice(f, n) = Window(f, (n - 1) * PageSize, n * PageSize)
  BY DEF Slice, Window, Place, Ahead
<1> QED BY <1>2, <1>3

\* The last page is the one on which the last row is.
LEMMA LastPageIs ==
  ASSUME NEW t \in Nat
  PROVE  /\ LastPage(t) \in Nat
         /\ \A n \in Nat : n >= 1 /\ n <= LastPage(t) => (n - 1) * PageSize < t
         /\ t > 0 => LastPage(t) >= 1
         /\ t <= PageSize => LastPage(t) <= 1
<1> DEFINE k == LastPage(t)
           P == PageSize
<1>1. P \in Nat /\ P >= 1
  BY ListBoundsAssumption
<1>2. k \in Nat /\ k * P <= t + P - 1 /\ t + P - 1 < (k + 1) * P
  <2> DEFINE x == t + P - 1
  <2>1. x \in Nat
    BY <1>1
  <2>2. k = x \div P
    BY DEF LastPage
  <2> HIDE DEF x, k, P
  <2> QED BY <1>1, <2>1, <2>2 DEF x
<1> HIDE DEF k, P
<1>3. \A n \in Nat : n >= 1 /\ n <= k => (n - 1) * P < t
  <2> SUFFICES ASSUME NEW n \in Nat, n >= 1, n <= k PROVE (n - 1) * P < t
    OBVIOUS
  <2>1. n * P <= k * P
    BY <1>1, <1>2
  <2>2. (n - 1) * P = n * P - P
    BY <1>1
  <2>3. n * P \in Nat /\ k * P \in Nat
    BY <1>1, <1>2
  <2> DEFINE u == n * P
             v == k * P
             w == (n - 1) * P
  <2> HIDE DEF u, v, w
  <2>4. u <= v /\ w = u - P /\ u \in Nat /\ v \in Nat /\ v <= t + P - 1
    BY <1>2, <2>1, <2>2, <2>3 DEF u, v, w
  <2>5. w < t
    BY <1>1, <2>4
  <2> QED BY <2>5 DEF w
<1>4. t > 0 => k >= 1
  BY <1>1, <1>2
<1>5. t <= P => k <= 1
  <2> SUFFICES ASSUME t <= P, k >= 2 PROVE FALSE
    BY <1>2
  <2>1. 2 * P <= k * P
    BY <1>1, <1>2
  <2> QED BY <1>1, <1>2, <2>1
<1> QED BY <1>2, <1>3, <1>4, <1>5 DEF k, P

-----------------------------------------------------------------------------
(* The inductive invariant of the lists.                                   *)

\* The pages of a list: as many as its rows need.
PagesOf(f) == LastPage(Cardinality(Rows(f)))

\* Every change counted so far was the tab's or another client's.
ChangesInv ==
  /\ changes <= MaxChanges + inputs
  /\ act.what # "none" => inputs > 0
  /\ act.what \in {"delete", "add", "remove"} => changes < MaxChanges + inputs
  /\ act # NoAct => act.what # "none" /\ act.page \in PageId

\* A list of favorites has no button that adds one.
StarsInv ==
  view = "favorites" =>
    /\ act.what \notin {"add", "addOk"}
    /\ shown.items \subseteq shown.stars
    /\ req.stage \in {"marked", "answered"} => req.items \subseteq req.stars

\* Until its answer is in, the page of a deletion or of a removal is still listed.
Leaving == IF act.what = "deleteOk" \/ (act.what = "removeOk" /\ view = "favorites")
           THEN {act.page} ELSE {}
\* What the tab took off a list is in no list that is read afterwards.
GoneInv ==
  /\ \A p \in gone : rows[p].state = "deleted" \/ (view = "favorites" /\ rows[p].favAt = 0)
  /\ req.items \intersect gone \subseteq Leaving
  /\ Quiet => shown.items \intersect gone \subseteq Leaving

\* A list that is fresh is a slice of the rows as they are.
SliceInv ==
  /\ req.fresh => req.items = Slice(req.filter, req.page)
  /\ req.fresh /\ req.stage = "answered" =>
       \/ req.total = Cardinality(Rows(req.filter))
       \/ req.total = Cardinality(req.items) /\ faults > 0
  /\ \A l \in {shown, prev} : l.stage = "answered" /\ l.fresh => l.items = Slice(l.filter, l.page)

\* Beyond the list shown, the tab goes no further than the total it came with.
TurnInv ==
  /\ shown.page >= 1 /\ prev.page >= 1
  /\ shown.stage = "answered" => cur <= shown.page \/ cur <= totalPages
  /\ shown.stage = "answered" /\ shown.fresh =>
       totalPages <= 1 \/ totalPages = PagesOf(shown.filter)
  /\ shown.stage = "answered" /\ shown.fresh /\ faults = 0 /\ Rows(shown.filter) # {} =>
       shown.page <= PagesOf(shown.filter)
  /\ shown.stage = "answered" /\ prev.stage = "answered" /\ shown.fresh /\ prev.fresh
     /\ shown.filter = prev.filter /\ shown.page = prev.page + 1
     => shown.page <= PagesOf(shown.filter)

PInv == ListTypeOK /\ FavoriteTotal /\ ShownMatches /\ ChangesInv /\ StarsInv /\ GoneInv
        /\ SliceInv /\ TurnInv

\* There is a latest time as long as there is a page.
LEMMA TopIs ==
  ASSUME RowsOK, PageId # {}
  PROVE  Top \in Nat
<1> DEFINE g == [p \in PageId |-> rows[p].visited]
           h == [p \in PageId |-> rows[p].favAt]
           G == {rows[p].visited : p \in PageId}
           H == {rows[p].favAt : p \in PageId}
           T == G \union H
<1>1. \A p \in PageId : rows[p].visited \in Nat /\ rows[p].favAt \in Nat
  BY DEF RowsOK, Row
<1>2. g \in Surjection(PageId, G) /\ h \in Surjection(PageId, H)
  BY DEF Surjection
<1>3. IsFiniteSet(T)
  BY <1>2, PageAssumption, FS_Surjection, FS_Union
<1>4. T \in SUBSET Nat /\ T # {}
  BY <1>1
<1>5. Top = CHOOSE m \in T : \A n \in T : n <= m
  BY DEF Top
<1> HIDE DEF T
<1>6. PICK b \in Nat : \A n \in T : n <= b
  BY <1>3, <1>4, FiniteBounded
<1> DEFINE D == {b - n : n \in T}
<1>7. D \in SUBSET Nat /\ D # {}
  <2>1. \A n \in T : n \in Nat /\ n <= b
    BY <1>4, <1>6
  <2>2. D \in SUBSET Nat
    BY <2>1
  <2>3. PICK n \in T : TRUE
    BY <1>4
  <2>4. b - n \in D
    BY <2>3
  <2> QED BY <2>2, <2>4
<1>8. PICK d \in D : \A e \in D : d <= e
  BY <1>7, Least
<1>9. PICK m \in T : d = b - m
  BY <1>8
<1>10. \A n \in T : n <= m
  <2> SUFFICES ASSUME NEW n \in T PROVE n <= m
    OBVIOUS
  <2>1. b - m <= b - n /\ n \in Nat /\ m \in Nat
    BY <1>4, <1>8, <1>9
  <2> QED BY <2>1
<1> QED BY <1>4, <1>5, <1>9, <1>10

-----------------------------------------------------------------------------
(* Lists: the start, the user's inputs, and the timers.                    *)

\* A list follows from the rows and the web page that shows it.
LEMMA SameList ==
  ASSUME rows' = rows, view' = view
  PROVE  /\ \A f, n : Slice(f, n)' = Slice(f, n)
         /\ \A f : Rows(f)' = Rows(f) /\ PagesOf(f)' = PagesOf(f)
<1>1. \A f, n : Slice(f, n)' = Slice(f, n)
  BY DEF Slice, Rows, FavoriteRows, SearchRows, ListRows, There, Before, Key
<1>2. \A f : Rows(f)' = Rows(f)
  BY DEF Rows, FavoriteRows, SearchRows, ListRows, There
<1>3. \A f : PagesOf(f)' = PagesOf(f)
  BY <1>2 DEF PagesOf
<1> QED BY <1>1, <1>2, <1>3

\* The lists that requests and the tab hold have their fields.
LEMMA NoListIs == NoList \in List /\ NoList.items = {} /\ NoList.stage = "none"
                  /\ NoList.page = 1 /\ NoList.fresh = FALSE /\ NoList.total = 0
BY DEF NoList, List, Filter

\* The tab starts with its first list asked for.
LEMMA InitPInv == ListInit => PInv
<1> SUFFICES ASSUME ListInit PROVE PInv
  OBVIOUS
<1> USE NoListIs
<1>1. /\ req = [NoList EXCEPT !.stage = "sent"] /\ req \in List /\ req.stage = "sent"
      /\ req.page = 1 /\ req.fresh = FALSE /\ req.items = {}
      /\ req.filter = [kw |-> FALSE, rest |-> FALSE]
  BY DEF ListInit, NoList, List, Filter
<1>2. ListTypeOK
  <2>1. NoAct \in Act
    BY DEF NoAct, Act
  <2>2. /\ [kw |-> FALSE, rest |-> FALSE] \in Filter
        /\ changes \in 0 .. (MaxChanges + MaxInputs) /\ inputs \in 0 .. MaxInputs
        /\ faults \in 0 .. MaxFaults
    BY ListBoundsAssumption DEF ListInit, Filter
  <2> QED BY <1>1, <2>1, <2>2, RowsAssumption DEF ListInit, ListTypeOK
<1>3. FavoriteTotal
  BY RowsAssumption DEF ListInit, FavoriteTotal, There
<1>4. ShownMatches
  BY <1>1 DEF ListInit, ShownMatches, Quiet
<1>5. ChangesInv
  BY ListBoundsAssumption DEF ListInit, ChangesInv, NoAct
<1>6. StarsInv /\ GoneInv
  BY <1>1 DEF ListInit, StarsInv, GoneInv, NoAct
<1>7. SliceInv /\ TurnInv
  BY <1>1 DEF ListInit, SliceInv, TurnInv
<1> QED BY <1>2, <1>3, <1>4, <1>5, <1>6, <1>7 DEF PInv

\* Numbers that the steps below compute with.
LEMMA PNumbers ==
  ASSUME PInv
  PROVE  /\ RowsOK /\ MaxInputs \in Nat /\ MaxChanges \in Nat /\ MaxFaults \in Nat
         /\ changes \in Nat /\ inputs \in 0 .. MaxInputs /\ faults \in 0 .. MaxFaults
         /\ cur \in Nat /\ cur >= 1 /\ totalPages \in Nat
         /\ req \in List /\ shown \in List /\ prev \in List
         /\ shown.page \in Nat /\ shown.page >= 1
BY ListBoundsAssumption DEF PInv, ListTypeOK, RowsOK, TurnInv, List

\* The tab asks for a list anew, or waits for a timer before it does.
LEMMA Reloaded ==
  ASSUME PInv, UNCHANGED <<rows, view, shown, changes, faults, prev, gone, totalPages>>,
         input' \in Filter, timers' \subseteq {"search", "domain"},
         inputs' \in 0 .. MaxInputs, inputs' >= inputs, cur' \in Nat \ {0},
         cur' <= 1 \/ cur' <= cur \/ cur' <= totalPages,
         \/ req' = NoList /\ timers' # {} /\ act' = act
         \/ req' = [NoList EXCEPT !.stage = "sent", !.filter = input', !.page = cur']
            /\ act' \in {act, NoAct}
  PROVE  PInv'
<1> USE PNumbers, NoListIs
<1>1. /\ req' \in List /\ req'.fresh = FALSE /\ req'.items = {}
      /\ req'.stage # "none" => req'.page = cur' /\ req'.filter = input' /\ req'.stage = "sent"
      /\ req'.stage = "none" => timers' # {}
  <2>1. CASE req' = NoList /\ timers' # {}
    BY <2>1
  <2>2. CASE req' = [NoList EXCEPT !.stage = "sent", !.filter = input', !.page = cur']
    BY <2>2 DEF List, NoList
  <2> QED BY <2>1, <2>2
<1>2. act' = act \/ act' = NoAct
  OBVIOUS
<1>3. ListTypeOK'
  <2>1. act' \in Act
    BY <1>2 DEF PInv, ListTypeOK, NoAct, Act
  <2> QED BY <1>1, <2>1 DEF PInv, ListTypeOK
<1>4. FavoriteTotal'
  BY DEF PInv, FavoriteTotal, There
<1>5. ~Quiet' /\ req'.stage \in {"none", "sent"}
  BY <1>1 DEF Quiet
<1>6. ShownMatches'
  BY <1>1, <1>5 DEF ShownMatches
<1>7. ChangesInv'
  BY <1>2 DEF PInv, ChangesInv, NoAct
<1>8. StarsInv' /\ GoneInv'
  BY <1>1, <1>2, <1>5 DEF PInv, StarsInv, GoneInv, NoAct
<1>9. SliceInv'
  BY <1>1, <1>5, SameList DEF PInv, SliceInv
<1>10. TurnInv'
  <2>1. shown.stage = "answered" => cur' <= shown.page \/ cur' <= totalPages
    BY DEF PInv, TurnInv
  <2> QED BY <2>1, SameList DEF PInv, TurnInv
<1> QED BY <1>3, <1>4, <1>6, <1>7, <1>8, <1>9, <1>10 DEF PInv

\* Typing, picking a date, a timer, and turning a page.
LEMMA InputsInv ==
  PInv /\ (TypeKeyword \/ TypeDomain \/ PickDate \/ TimerFires \/ Turn) => PInv'
<1> SUFFICES ASSUME PInv, TypeKeyword \/ TypeDomain \/ PickDate \/ TimerFires \/ Turn
             PROVE  PInv'
  OBVIOUS
<1> USE PNumbers
<1>1. input \in Filter /\ timers \subseteq {"search", "domain"}
  BY DEF PInv, ListTypeOK
<1>2. \A b \in BOOLEAN : [input EXCEPT !.kw = b] \in Filter /\ [input EXCEPT !.rest = b] \in Filter
  BY <1>1 DEF Filter
<1>3. Does => inputs' \in 0 .. MaxInputs /\ inputs' >= inputs
  BY DEF Does
<1>4. CASE TypeKeyword
  <2>1. /\ UNCHANGED <<rows, view, shown, changes, faults, prev, gone, totalPages, act>>
        /\ inputs' \in 0 .. MaxInputs /\ inputs' >= inputs
        /\ input' \in Filter
    BY <1>2, <1>3, <1>4 DEF TypeKeyword
  <2>2. \/ req' = NoList /\ timers' # {} /\ cur' = cur /\ timers' \subseteq {"search", "domain"}
        \/ /\ req' = [NoList EXCEPT !.stage = "sent", !.filter = input', !.page = cur']
           /\ cur' = 1 /\ timers' \subseteq {"search", "domain"}
    BY <1>1, <1>4 DEF TypeKeyword, Invalidate, Load
  <2> QED BY <2>1, <2>2, Reloaded
<1>5. CASE TypeDomain
  <2>1. /\ UNCHANGED <<rows, view, shown, changes, faults, prev, gone, totalPages, act, cur>>
        /\ inputs' \in 0 .. MaxInputs /\ inputs' >= inputs
        /\ input' \in Filter /\ req' = NoList
        /\ timers' # {} /\ timers' \subseteq {"search", "domain"}
    BY <1>1, <1>2, <1>3, <1>5 DEF TypeDomain, Invalidate
  <2> QED BY <2>1, Reloaded
<1>6. CASE PickDate
  <2>1. /\ UNCHANGED <<rows, view, shown, changes, faults, prev, gone, totalPages, act, timers>>
        /\ inputs' \in 0 .. MaxInputs /\ inputs' >= inputs
        /\ input' \in Filter /\ cur' = 1
        /\ req' = [NoList EXCEPT !.stage = "sent", !.filter = input', !.page = cur']
    BY <1>2, <1>3, <1>6 DEF PickDate, Load
  <2> QED BY <1>1, <2>1, Reloaded
<1>7. CASE TimerFires
  <2>1. /\ UNCHANGED <<rows, view, shown, changes, faults, prev, gone, totalPages, act,
                      input, inputs>>
        /\ timers' \subseteq timers /\ cur' = 1
        /\ req' = [NoList EXCEPT !.stage = "sent", !.filter = input', !.page = cur']
    BY <1>7 DEF TimerFires, Load
  <2> QED BY <1>1, <2>1, Reloaded
<1>8. CASE Turn
  <2>1. /\ UNCHANGED <<rows, view, shown, changes, faults, prev, gone, totalPages, act,
                      input, timers>>
        /\ inputs' \in 0 .. MaxInputs /\ inputs' >= inputs
        /\ req' = [NoList EXCEPT !.stage = "sent", !.filter = input', !.page = cur']
        /\ (cur > 1 /\ cur' = cur - 1) \/ (cur < totalPages /\ cur' = cur + 1)
    BY <1>3, <1>8 DEF Turn, Load
  <2>2. cur' \in Nat \ {0} /\ (cur' <= cur \/ cur' <= totalPages)
    BY <2>1
  <2> QED BY <1>1, <2>1, <2>2, Reloaded
<1> QED BY <1>4, <1>5, <1>6, <1>7, <1>8

-----------------------------------------------------------------------------
(* Lists: a request served and shown.                                      *)

\* The server works on a request: nothing else moves.
LEMMA RequestServed ==
  ASSUME PInv, UNCHANGED <<rows, client, shown, act, changes, inputs, prev, gone>>,
         faults' \in faults .. MaxFaults,
         req.stage # "none", req' \in List, req'.stage # "none",
         req'.filter = req.filter, req'.page = req.page,
         req'.stage = "answered" => req'.total <= Cardinality(PageId),
         req'.items \intersect gone \subseteq Leaving,
         view = "favorites" /\ req'.stage \in {"marked", "answered"} =>
           req'.items \subseteq req'.stars,
         req'.fresh => req'.items = Slice(req.filter, req.page),
         req'.fresh /\ req'.stage = "answered" =>
           \/ req'.total = Cardinality(Rows(req.filter))
           \/ req'.total = Cardinality(req'.items) /\ faults' > 0
  PROVE  PInv'
<1> USE PNumbers
<1>1. /\ rows' = rows /\ view' = view /\ input' = input /\ timers' = timers /\ cur' = cur
      /\ totalPages' = totalPages /\ shown' = shown /\ act' = act /\ changes' = changes
      /\ inputs' = inputs /\ prev' = prev /\ gone' = gone
  BY DEF client
<1>2. ListTypeOK'
  BY <1>1 DEF PInv, ListTypeOK
<1>3. FavoriteTotal'
  BY <1>1 DEF PInv, FavoriteTotal, There
<1>4. ~Quiet' /\ ~Quiet
  BY DEF Quiet
<1>5. ShownMatches'
  BY <1>1, <1>4 DEF PInv, ShownMatches
<1>6. ChangesInv'
  BY <1>1 DEF PInv, ChangesInv
<1>7. StarsInv' /\ GoneInv'
  BY <1>1, <1>4 DEF PInv, StarsInv, GoneInv, Leaving
<1>8. SliceInv'
  BY <1>1, SameList DEF PInv, SliceInv
<1>9. TurnInv'
  <2>1. faults' = 0 => faults = 0
    OBVIOUS
  <2> QED BY <1>1, <2>1, SameList DEF PInv, TurnInv
<1> QED BY <1>2, <1>3, <1>5, <1>6, <1>7, <1>8, <1>9 DEF PInv

\* A slice holds rows of the list only, and none that the tab took off it.
LEMMA SliceHas ==
  ASSUME PInv, NEW f, NEW n \in Nat, n >= 1
  PROVE  /\ Slice(f, n) \in SUBSET PageId /\ Slice(f, n) \intersect gone = {}
         /\ IsFiniteSet(Slice(f, n)) /\ Cardinality(Slice(f, n)) \in 0 .. PageSize
         /\ Cardinality(Slice(f, n)) <= Cardinality(PageId)
<1> USE PNumbers
<1>1. Slice(f, n) \in SUBSET Rows(f)
  BY SliceIs DEF Window
<1>2. Slice(f, n) \in SUBSET PageId
  BY <1>1, RowsAre
<1>3. \A p \in Rows(f) : rows[p].state = "there" /\ (view = "favorites" => rows[p].favAt # 0)
  BY DEF Rows, FavoriteRows, SearchRows, ListRows, There
<1>4. Slice(f, n) \intersect gone = {}
  BY <1>1, <1>3 DEF PInv, GoneInv
<1>5. IsFiniteSet(Slice(f, n)) /\ Cardinality(Slice(f, n)) <= Cardinality(PageId)
  BY <1>2, PageAssumption, FS_Subset
<1>6. Cardinality(Slice(f, n)) \in 0 .. PageSize
  <2> DEFINE a == (n - 1) * PageSize
             b == n * PageSize
  <2>1. a \in Nat /\ b \in Nat /\ b = a + PageSize /\ Slice(f, n) = Window(f, a, b)
    BY SliceIs
  <2> HIDE DEF a, b
  <2>2. PageSize \in Nat /\ a <= b /\ b - a = PageSize
    BY <2>1, ListBoundsAssumption
  <2> QED BY <2>1, <2>2, WindowSize
<1> QED BY <1>2, <1>4, <1>5, <1>6

\* The three queries of a list request.
LEMMA QueryInv == PInv /\ Query => PInv'
<1> SUFFICES ASSUME PInv, Query PROVE PInv'
  OBVIOUS
<1> USE PNumbers
<1>1. /\ req.stage = "sent" /\ req \in List /\ req.page \in Nat /\ req.page >= 1
      /\ UNCHANGED <<rows, client, shown, act, changes, inputs, prev, gone>>
  BY DEF Query, PInv, ListTypeOK
<1> DEFINE S == Slice(req.filter, req.page)
<1>2. S \in SUBSET PageId /\ S \intersect gone = {}
  BY <1>1, SliceHas
<1> HIDE DEF S
<1>3. CASE Succeeds /\ req' = [req EXCEPT !.stage = "listed", !.items = S, !.fresh = TRUE]
  <2>1. /\ req' \in List /\ req'.stage = "listed" /\ req'.filter = req.filter
        /\ req'.page = req.page /\ req'.items = S
    BY <1>1, <1>2, <1>3 DEF List
  <2>2. faults' \in faults .. MaxFaults
    BY <1>3 DEF Succeeds
  <2>3. req'.fresh => req'.items = Slice(req.filter, req.page)
    BY <2>1 DEF S
  <2> QED BY <1>1, <1>2, <2>1, <2>2, <2>3, RequestServed
<1>4. CASE Fails /\ req' = [req EXCEPT !.stage = "failed"]
  <2>1. /\ req' \in List /\ req'.stage = "failed" /\ req'.filter = req.filter
        /\ req'.page = req.page /\ req'.items = req.items /\ req'.fresh = req.fresh
    BY <1>1, <1>4 DEF List
  <2>2. faults' \in faults .. MaxFaults
    BY <1>4 DEF Fails
  <2>3. req.fresh => req.items = Slice(req.filter, req.page)
    BY DEF PInv, SliceInv
  <2>4. req.items \intersect gone \subseteq Leaving
    BY DEF PInv, GoneInv
  <2> QED BY <1>1, <2>1, <2>2, <2>3, <2>4, RequestServed
<1> QED BY <1>1, <1>3, <1>4 DEF Query, S

\* (attachFavoriteStates)
LEMMA MarkInv == PInv /\ Mark => PInv'
<1> SUFFICES ASSUME PInv, Mark PROVE PInv'
  OBVIOUS
<1> USE PNumbers
<1>1. /\ req.stage = "listed" /\ req \in List
      /\ UNCHANGED <<rows, client, shown, act, changes, inputs, prev, gone>>
  BY DEF Mark
<1>2. /\ req.items \intersect gone \subseteq Leaving
      /\ req.fresh => req.items = Slice(req.filter, req.page)
  BY <1>1 DEF PInv, GoneInv, SliceInv
<1>3. CASE Succeeds /\ req' = [req EXCEPT !.stage = "marked", !.stars = Stars(req.items)]
  <2>1. Stars(req.items) \in SUBSET PageId
    BY DEF Stars, List
  <2>2. /\ req' \in List /\ req'.stage = "marked" /\ req'.filter = req.filter
        /\ req'.page = req.page /\ req'.items = req.items /\ req'.fresh = req.fresh
        /\ req'.stars = Stars(req.items)
    BY <1>1, <1>3, <2>1 DEF List
  <2>3. faults' \in faults .. MaxFaults
    BY <1>3 DEF Succeeds
  <2>4. view = "favorites" => req'.items \subseteq req'.stars
    BY <2>2 DEF Stars
  <2> QED BY <1>1, <1>2, <2>2, <2>3, <2>4, RequestServed
<1>4. CASE Fails /\ req' = [req EXCEPT !.stage = "failed"]
  <2>1. /\ req' \in List /\ req'.stage = "failed" /\ req'.filter = req.filter
        /\ req'.page = req.page /\ req'.items = req.items /\ req'.fresh = req.fresh
    BY <1>1, <1>4 DEF List
  <2>2. faults' \in faults .. MaxFaults
    BY <1>4 DEF Fails
  <2> QED BY <1>1, <1>2, <2>1, <2>2, RequestServed
<1> QED BY <1>3, <1>4 DEF Mark

\* (GetTotalPagesCount and its like)
LEMMA CountInv == PInv /\ Count => PInv'
<1> SUFFICES ASSUME PInv, Count PROVE PInv'
  OBVIOUS
<1> USE PNumbers
<1>1. /\ req.stage = "marked" /\ req \in List
      /\ UNCHANGED <<rows, client, shown, act, changes, inputs, prev, gone>>
  BY DEF Count
<1>2. /\ req.items \intersect gone \subseteq Leaving
      /\ req.fresh => req.items = Slice(req.filter, req.page)
      /\ view = "favorites" => req.items \subseteq req.stars
  BY <1>1 DEF PInv, GoneInv, SliceInv, StarsInv
<1>3. Total(req.filter) = Cardinality(Rows(req.filter))
  <2>1. CASE view = "favorites" /\ ~req.filter.kw
    <3>1. {p \in PageId : rows[p].favAt # 0} = Rows(req.filter)
      BY <2>1 DEF PInv, FavoriteTotal, Rows, FavoriteRows, There
    <3> QED BY <2>1, <3>1 DEF Total
  <2>2. CASE ~(view = "favorites" /\ ~req.filter.kw)
    BY <2>2 DEF Total
  <2> QED BY <2>1, <2>2
<1>4. PICK total \in 0 .. Cardinality(PageId) :
        /\ \/ Succeeds /\ total = Total(req.filter)
           \/ Fails /\ total = Cardinality(req.items)
        /\ req' = [req EXCEPT !.stage = "answered", !.total = total]
  BY DEF Count
<1>5. Cardinality(PageId) \in Nat /\ total \in Nat /\ total <= Cardinality(PageId)
  BY PageAssumption, FS_CardinalityType
<1>6. /\ req' \in List /\ req'.stage = "answered" /\ req'.filter = req.filter
      /\ req'.page = req.page /\ req'.items = req.items /\ req'.fresh = req.fresh
      /\ req'.stars = req.stars /\ req'.total = total
  BY <1>1, <1>4, <1>5 DEF List
<1>7. faults' \in faults .. MaxFaults /\ (Fails => faults' > 0)
  BY <1>4 DEF Succeeds, Fails
<1>8. \/ req'.total = Cardinality(Rows(req.filter))
      \/ req'.total = Cardinality(req'.items) /\ faults' > 0
  BY <1>3, <1>4, <1>6, <1>7
<1> QED BY <1>1, <1>2, <1>5, <1>6, <1>7, <1>8, RequestServed

\* An answer is shown, or asks for the last page instead.
LEMMA ApplyInv == PInv /\ Apply => PInv'
<1> SUFFICES ASSUME PInv, Apply PROVE PInv'
  OBVIOUS
<1> USE PNumbers, NoListIs
<1>1. /\ req.stage = "answered" /\ req.page = cur /\ req.filter = input /\ req.total \in Nat
      /\ UNCHANGED <<rows, view, input, timers, act, changes, inputs, faults, gone>>
      /\ input \in Filter /\ timers \subseteq {"search", "domain"}
  BY DEF Apply, PInv, ListTypeOK, ShownMatches, List
<1> DEFINE last == LastPage(req.total)
<1>2. last \in Nat /\ (req.total > 0 => last >= 1) /\ (req.total <= PageSize => last <= 1)
  BY <1>1, LastPageIs
<1>3. CASE req.total > 0 /\ cur > last
  <2>1. /\ cur' = last /\ UNCHANGED <<shown, totalPages, prev>>
        /\ req' = [NoList EXCEPT !.stage = "sent", !.filter = input, !.page = last]
    BY <1>1, <1>3 DEF Apply, Load
  <2>2. cur' \in Nat \ {0} /\ cur' <= cur
    BY <1>2, <1>3, <2>1
  <2> QED BY <1>1, <2>1, <2>2, Reloaded
<1>4. CASE ~(req.total > 0 /\ cur > last)
  <2>1. /\ prev' = shown /\ shown' = [req EXCEPT !.total = 0] /\ req' = NoList
        /\ totalPages' = last /\ cur' = cur
    BY <1>1, <1>4 DEF Apply
  <2>2. /\ shown' \in List /\ shown'.stage = "answered" /\ shown'.filter = input
        /\ shown'.page = cur /\ shown'.items = req.items /\ shown'.stars = req.stars
        /\ shown'.fresh = req.fresh
    BY <1>1, <2>1 DEF List
  <2>3. ListTypeOK'
    BY <1>1, <1>2, <2>1, <2>2 DEF PInv, ListTypeOK
  <2>4. FavoriteTotal'
    BY <1>1 DEF PInv, FavoriteTotal, There
  <2>5. ShownMatches'
    BY <1>1, <2>1, <2>2 DEF ShownMatches
  <2>6. ChangesInv'
    BY <1>1 DEF PInv, ChangesInv
  <2>7. StarsInv'
    BY <1>1, <2>1, <2>2 DEF PInv, StarsInv
  <2>8. GoneInv'
    BY <1>1, <2>1, <2>2 DEF PInv, GoneInv, Leaving
  <2>9. SliceInv'
    <3>1. req.fresh => req.items = Slice(input, cur)
      BY <1>1 DEF PInv, SliceInv
    <3>2. shown.stage = "answered" /\ shown.fresh => shown.items = Slice(shown.filter, shown.page)
      BY DEF PInv, SliceInv
    <3> QED BY <1>1, <2>1, <2>2, <3>1, <3>2, SameList DEF SliceInv
  <2>10. Cardinality(Rows(input)) \in Nat
         /\ (Rows(input) # {} => Cardinality(Rows(input)) > 0)
    BY RowsAre, FS_EmptySet
  <2>11. req.fresh => last <= 1 \/ req.total = Cardinality(Rows(input))
    <3> SUFFICES ASSUME req.fresh, req.total # Cardinality(Rows(input)) PROVE last <= 1
      OBVIOUS
    <3>1. req.total = Cardinality(req.items) /\ req.items = Slice(req.filter, req.page)
      BY <1>1 DEF PInv, SliceInv
    <3>2. req.total <= PageSize
      BY <1>1, <3>1, SliceHas, ListBoundsAssumption
    <3> QED BY <1>2, <3>2
  <2>12. req.fresh => last <= 1 \/ last = PagesOf(input)
    BY <2>11 DEF PagesOf
  <2>13. req.fresh /\ faults = 0 /\ Rows(input) # {} => cur <= PagesOf(input)
    <3> SUFFICES ASSUME req.fresh, faults = 0, Rows(input) # {} PROVE cur <= PagesOf(input)
      OBVIOUS
    <3>1. req.total = Cardinality(Rows(input))
      BY <1>1 DEF PInv, SliceInv
    <3>2. last = PagesOf(input) /\ req.total > 0
      BY <2>10, <3>1 DEF PagesOf
    <3> QED BY <1>2, <1>4, <3>2
  <2>14. shown.stage = "answered" /\ shown.fresh /\ shown.filter = input /\ cur = shown.page + 1
         => cur <= PagesOf(input)
    <3> SUFFICES ASSUME shown.stage = "answered", shown.fresh, shown.filter = input,
                        cur = shown.page + 1
                 PROVE  cur <= PagesOf(input)
      OBVIOUS
    <3>1. cur <= shown.page \/ cur <= totalPages
      BY DEF PInv, TurnInv
    <3>2. totalPages <= 1 \/ totalPages = PagesOf(input)
      BY DEF PInv, TurnInv
    <3> QED BY <3>1, <3>2
  <2> HIDE DEF last
  <2>15. TurnInv'
    <3>1. \A f : Rows(f)' = Rows(f) /\ PagesOf(f)' = PagesOf(f)
      BY <1>1, SameList
    <3> QED BY <1>1, <2>1, <2>2, <2>12, <2>13, <2>14, <3>1 DEF TurnInv
  <2> QED BY <2>3, <2>4, <2>5, <2>6, <2>7, <2>8, <2>9, <2>15 DEF PInv
<1> QED BY <1>3, <1>4

\* An error is shown in place of the list.
LEMMA ShowErrorInv == PInv /\ ShowError => PInv'
<1> SUFFICES ASSUME PInv, ShowError PROVE PInv'
  OBVIOUS
<1> USE PNumbers, NoListIs
<1>1. /\ req.stage = "failed" /\ req.page = cur /\ req.filter = input
      /\ prev' = shown /\ shown' = [req EXCEPT !.items = {}] /\ req' = NoList
      /\ rows' = rows /\ view' = view /\ input' = input /\ timers' = timers /\ cur' = cur
      /\ totalPages' = totalPages /\ act' = act /\ changes' = changes /\ inputs' = inputs
      /\ faults' = faults /\ gone' = gone
  BY DEF ShowError, client, PInv, ListTypeOK, ShownMatches
<1>2. /\ shown' \in List /\ shown'.stage = "failed" /\ shown'.filter = input
      /\ shown'.page = cur /\ shown'.items = {}
  BY <1>1 DEF List
<1>3. ListTypeOK'
  BY <1>1, <1>2 DEF PInv, ListTypeOK
<1>4. FavoriteTotal'
  BY <1>1 DEF PInv, FavoriteTotal, There
<1>5. ShownMatches'
  BY <1>1, <1>2 DEF ShownMatches
<1>6. ChangesInv'
  BY <1>1 DEF PInv, ChangesInv
<1>7. StarsInv' /\ GoneInv'
  BY <1>1, <1>2 DEF PInv, StarsInv, GoneInv
<1>8. SliceInv'
  <2>1. shown.stage = "answered" /\ shown.fresh => shown.items = Slice(shown.filter, shown.page)
    BY DEF PInv, SliceInv
  <2> QED BY <1>1, <1>2, <2>1, SameList DEF SliceInv
<1>9. TurnInv'
  BY <1>1, <1>2 DEF PInv, TurnInv
<1> QED BY <1>3, <1>4, <1>5, <1>6, <1>7, <1>8, <1>9 DEF PInv

\* A click on a button of the list.
LEMMA ClickInv == PInv /\ Click => PInv'
<1> SUFFICES ASSUME PInv, Click PROVE PInv'
  OBVIOUS
<1> USE PNumbers
<1>1. /\ act = NoAct /\ inputs < MaxInputs /\ inputs' = inputs + 1
      /\ rows' = rows /\ view' = view /\ input' = input /\ timers' = timers /\ cur' = cur
      /\ totalPages' = totalPages /\ req' = req /\ shown' = shown /\ changes' = changes
      /\ faults' = faults /\ prev' = prev /\ gone' = gone
  BY DEF Click, Does, client
<1>2. PICK p \in shown.items :
        \/ act' = [what |-> "delete", page |-> p]
        \/ act' = [what |-> IF p \in shown.stars THEN "remove" ELSE "add", page |-> p]
  BY DEF Click
<1>3. p \in PageId
  BY DEF List
<1>4. /\ act'.what \in {"delete", "remove", "add"} /\ act'.page = p
      /\ act' \in Act
      /\ view = "favorites" => act'.what # "add"
  BY <1>2, <1>3 DEF PInv, StarsInv, Act
<1>5. ListTypeOK'
  BY <1>1, <1>4 DEF PInv, ListTypeOK
<1>6. FavoriteTotal'
  BY <1>1 DEF PInv, FavoriteTotal, There
<1>7. ShownMatches'
  BY <1>1 DEF PInv, ShownMatches, Quiet
<1>8. ChangesInv'
  <2>1. changes <= MaxChanges + inputs
    BY DEF PInv, ChangesInv
  <2> QED BY <1>1, <1>3, <1>4, <2>1 DEF ChangesInv
<1>9. StarsInv'
  BY <1>1, <1>4 DEF PInv, StarsInv
<1>10. GoneInv'
  <2>1. Leaving' = {} /\ Leaving = {}
    BY <1>1, <1>4 DEF Leaving, NoAct
  <2> QED BY <1>1, <2>1 DEF PInv, GoneInv, Quiet
<1>11. SliceInv' /\ TurnInv'
  BY <1>1, SameList DEF PInv, SliceInv, TurnInv
<1> QED BY <1>5, <1>6, <1>7, <1>8, <1>9, <1>10, <1>11 DEF PInv

\* The answer to a deletion or to a change of the favorites.
LEMMA ActAnsweredInv == PInv /\ ActAnswered => PInv'
<1> SUFFICES ASSUME PInv, ActAnswered PROVE PInv'
  OBVIOUS
<1> USE PNumbers, NoListIs
<1> DEFINE off == act.what = "deleteOk" \/ (act.what = "removeOk" /\ view = "favorites")
<1>1. /\ act.what \in {"deleteOk", "addOk", "removeOk", "fails"} /\ act' = NoAct
      /\ UNCHANGED <<rows, view, input, timers, totalPages, changes, inputs, faults, prev, gone>>
  BY DEF ActAnswered
<1>2. CASE off
  <2>1. /\ shown' = shown /\ cur' = cur
        /\ req' = [NoList EXCEPT !.stage = "sent", !.filter = input', !.page = cur']
    BY <1>1, <1>2 DEF ActAnswered, Load
  <2>2. input \in Filter /\ timers \subseteq {"search", "domain"}
    BY DEF PInv, ListTypeOK
  <2> QED BY <1>1, <2>1, <2>2, Reloaded
<1>3. CASE ~off
  <2>1. /\ shown' = [shown EXCEPT !.stars =
             CASE act.what = "addOk" -> shown.stars \union ({act.page} \intersect shown.items)
               [] act.what = "removeOk" -> shown.stars \ {act.page}
               [] OTHER -> shown.stars]
        /\ req' = req /\ cur' = cur
    BY <1>3 DEF ActAnswered
  <2> DEFINE stars_ ==
               CASE act.what = "addOk" -> shown.stars \union ({act.page} \intersect shown.items)
                 [] act.what = "removeOk" -> shown.stars \ {act.page}
                 [] OTHER -> shown.stars
  <2>2. stars_ \in SUBSET PageId /\ (view = "favorites" => stars_ = shown.stars)
    BY <1>1, <1>3 DEF List, PInv, StarsInv
  <2>3. shown' = [shown EXCEPT !.stars = stars_]
    BY <2>1
  <2> HIDE DEF stars_
  <2>4. /\ shown' \in List /\ shown'.stage = shown.stage /\ shown'.filter = shown.filter
        /\ shown'.page = shown.page /\ shown'.items = shown.items /\ shown'.fresh = shown.fresh
        /\ shown'.stars = stars_
    BY <2>2, <2>3 DEF List
  <2>5. ListTypeOK'
    BY <1>1, <2>1, <2>4 DEF PInv, ListTypeOK, NoAct, Act
  <2>6. FavoriteTotal'
    BY <1>1 DEF PInv, FavoriteTotal, There
  <2>7. ShownMatches'
    BY <1>1, <2>1, <2>4 DEF PInv, ShownMatches, Quiet
  <2>8. ChangesInv'
    BY <1>1 DEF PInv, ChangesInv, NoAct
  <2>9. StarsInv'
    BY <1>1, <2>1, <2>2, <2>4 DEF PInv, StarsInv, NoAct
  <2>10. GoneInv'
    <3>1. Leaving = {} /\ Leaving' = {}
      BY <1>1, <1>3 DEF Leaving, NoAct
    <3> QED BY <1>1, <2>1, <2>4, <3>1 DEF PInv, GoneInv, Quiet
  <2>11. SliceInv' /\ TurnInv'
    BY <1>1, <2>1, <2>4, SameList DEF PInv, SliceInv, TurnInv
  <2> QED BY <2>5, <2>6, <2>7, <2>8, <2>9, <2>10, <2>11 DEF PInv
<1> QED BY <1>2, <1>3

-----------------------------------------------------------------------------
(* Lists: changes of the rows.                                             *)

\* What a deletion does to the rows.
LEMMA WithoutPageIs ==
  ASSUME PInv, NEW p \in PageId
  PROVE  /\ WithoutPage(p) \in [PageId -> Row]
         /\ \A q \in PageId : q # p => WithoutPage(p)[q] = rows[q]
         /\ WithoutPage(p)[p].state = "deleted" /\ WithoutPage(p)[p].favAt = 0
<1>1. rows \in [PageId -> Row] /\ rows[p] \in Row
  BY PNumbers DEF RowsOK
<1>2. WithoutPage(p) = [rows EXCEPT ![p] = [rows[p] EXCEPT !.state = "deleted", !.favAt = 0]]
  BY <1>1 DEF WithoutPage, Row
<1>3. [rows[p] EXCEPT !.state = "deleted", !.favAt = 0] \in Row
  BY <1>1 DEF Row
<1> QED BY <1>1, <1>2, <1>3 DEF Row

\* What taking a page off the favorites does.
LEMMA WithoutFavoriteIs ==
  ASSUME PInv, NEW p \in PageId
  PROVE  /\ WithoutFavorite(p) \in [PageId -> Row]
         /\ \A q \in PageId : q # p => WithoutFavorite(p)[q] = rows[q]
         /\ WithoutFavorite(p)[p].state = rows[p].state /\ WithoutFavorite(p)[p].favAt = 0
<1>1. rows \in [PageId -> Row] /\ rows[p] \in Row
  BY PNumbers DEF RowsOK
<1> QED BY <1>1 DEF WithoutFavorite, Row

\* What making a page a favorite does.
LEMMA WithFavoriteIs ==
  ASSUME PInv, NEW p \in PageId
  PROVE  /\ WithFavorite(p) \in [PageId -> Row]
         /\ \A q \in PageId : WithFavorite(p)[q].state = rows[q].state
                              /\ (q # p => WithFavorite(p)[q].favAt = rows[q].favAt)
<1>1. rows \in [PageId -> Row] /\ rows[p] \in Row
  BY PNumbers DEF RowsOK
<1> DEFINE top == Top
<1>2. top \in Nat
  BY PNumbers, TopIs
<1>3. WithFavorite(p) = IF rows[p].favAt # 0 THEN rows ELSE [rows EXCEPT ![p].favAt = top + 1]
  BY DEF WithFavorite
<1> HIDE DEF top
<1> QED BY <1>1, <1>2, <1>3 DEF Row

\* A change of the rows: the lists read before it are fresh no more.
LEMMA Touched ==
  ASSUME PInv, Touch, UNCHANGED <<client, inputs>>, rows' \in [PageId -> Row],
         \A p \in PageId : rows'[p].favAt # 0 => rows'[p].state = "there",
         changes < MaxChanges + inputs, faults' \in faults .. MaxFaults,
         act' \in Act,
         view = "favorites" => act'.what \notin {"add", "addOk"},
         gone' \subseteq gone \union Leaving',
         Leaving \subseteq Leaving', Leaving' \subseteq PageId,
         \A p \in gone' : rows'[p].state = "deleted" \/ (view = "favorites" /\ rows'[p].favAt = 0),
         act' # NoAct => act'.what # "none" /\ act'.page \in PageId,
         act'.what # "none" => inputs > 0,
         act'.what \in {"delete", "add", "remove"} => changes + 1 < MaxChanges + inputs
  PROVE  PInv'
<1> USE PNumbers, NoListIs
<1>1. /\ changes' = changes + 1 /\ prev' = NoList
      /\ req' = [req EXCEPT !.fresh = FALSE] /\ shown' = [shown EXCEPT !.fresh = FALSE]
      /\ view' = view /\ input' = input /\ timers' = timers /\ cur' = cur
      /\ totalPages' = totalPages /\ inputs' = inputs
  BY DEF Touch, client
<1>2. /\ req' \in List /\ req'.stage = req.stage /\ req'.filter = req.filter
      /\ req'.page = req.page /\ req'.items = req.items /\ req'.stars = req.stars
      /\ req'.total = req.total /\ req'.fresh = FALSE
  BY <1>1 DEF List
<1>3. /\ shown' \in List /\ shown'.stage = shown.stage /\ shown'.filter = shown.filter
      /\ shown'.page = shown.page /\ shown'.items = shown.items /\ shown'.stars = shown.stars
      /\ shown'.fresh = FALSE
  BY <1>1 DEF List
<1>4. ListTypeOK'
  <2>1. changes' \in 0 .. (MaxChanges + MaxInputs)
    BY <1>1
  <2>2. gone' \subseteq PageId
    BY DEF PInv, ListTypeOK
  <2> QED BY <1>1, <1>2, <1>3, <2>1, <2>2 DEF PInv, ListTypeOK
<1>5. FavoriteTotal'
  BY DEF FavoriteTotal, There
<1>6. ShownMatches' /\ (Quiet' <=> Quiet)
  BY <1>1, <1>2, <1>3 DEF PInv, ShownMatches, Quiet
<1>7. ChangesInv'
  BY <1>1 DEF PInv, ChangesInv
<1>8. StarsInv'
  BY <1>1, <1>2, <1>3 DEF PInv, StarsInv
<1>9. GoneInv'
  <2>1. req'.items \intersect gone' \subseteq Leaving'
    BY <1>2 DEF PInv, GoneInv
  <2>2. Quiet' => shown'.items \intersect gone' \subseteq Leaving'
    BY <1>3, <1>6 DEF PInv, GoneInv
  <2> QED BY <1>1, <2>1, <2>2 DEF GoneInv
<1>10. SliceInv'
  BY <1>1, <1>2, <1>3 DEF SliceInv
<1>11. TurnInv'
  BY <1>1, <1>2, <1>3 DEF PInv, TurnInv
<1> QED BY <1>4, <1>5, <1>6, <1>7, <1>8, <1>9, <1>10, <1>11 DEF PInv

\* The handlers of the tab's own deletion and favorite requests.
LEMMA PerformInv == PInv /\ Perform => PInv'
<1> SUFFICES ASSUME PInv, Perform PROVE PInv'
  OBVIOUS
<1> USE PNumbers
<1> DEFINE p == act.page
<1>1. /\ Touch /\ view' = view
      /\ act.what \in {"delete", "add", "remove"}
      /\ gone' = IF act'.what = "deleteOk" \/ (act'.what = "removeOk" /\ view = "favorites")
                 THEN gone \union {p} ELSE gone
      /\ UNCHANGED <<client, inputs>>
  BY DEF Perform, client
<1>2. p \in PageId /\ inputs > 0 /\ changes < MaxChanges + inputs
      /\ changes <= MaxChanges + inputs
  <2>1. act # NoAct
    BY <1>1 DEF NoAct
  <2> QED BY <1>1, <2>1 DEF PInv, ChangesInv
<1>3. /\ act \in Act
      /\ rows \in [PageId -> Row] /\ gone \subseteq PageId
      /\ view = "favorites" => act.what # "add"
      /\ \A q \in PageId : rows[q].favAt # 0 => rows[q].state = "there"
      /\ \A q \in gone : rows[q].state = "deleted" \/ (view = "favorites" /\ rows[q].favAt = 0)
  BY DEF PInv, ListTypeOK, StarsInv, FavoriteTotal, There, GoneInv
<1> DEFINE Did(w) == \/ w = "fails" /\ rows' = rows
                     \/ w = "deleteOk" /\ rows' = WithoutPage(p)
                     \/ w = "addOk" /\ act.what = "add" /\ p \in There /\ rows' = WithFavorite(p)
                     \/ w = "removeOk" /\ rows' = WithoutFavorite(p)
<1>4. /\ act'.what \in {"fails", "deleteOk", "addOk", "removeOk"} /\ act'.page = p
      /\ act' \in Act
      /\ view = "favorites" => act'.what # "addOk"
      /\ Did(act'.what)
  <2>1. PICK w \in {"fails", "deleteOk", "addOk", "removeOk"} :
          act' = [act EXCEPT !.what = w] /\ Did(w)
    BY DEF Perform
  <2>2. act'.what = w /\ act'.page = p
    BY <1>3, <2>1 DEF Act
  <2> QED BY <1>3, <2>1, <2>2 DEF Act
<1>5. faults' \in faults .. MaxFaults
  BY DEF Perform, Succeeds, Fails
<1>6. Leaving = {}
  BY <1>1 DEF Leaving
<1>7. Leaving' = IF act'.what = "deleteOk" \/ (act'.what = "removeOk" /\ view = "favorites")
                 THEN {p} ELSE {}
  BY <1>1, <1>4 DEF Leaving
<1>8. gone' \subseteq gone \union Leaving'
      /\ Leaving \subseteq Leaving' /\ Leaving' \subseteq PageId
  BY <1>1, <1>2, <1>6, <1>7
<1>9. /\ rows' \in [PageId -> Row]
      /\ \A q \in PageId : rows'[q].favAt # 0 => rows'[q].state = "there"
      /\ \A q \in gone' : rows'[q].state = "deleted" \/ (view = "favorites" /\ rows'[q].favAt = 0)
  <2>1. CASE act'.what = "fails" /\ rows' = rows
    BY <1>1, <1>3, <2>1
  <2>2. CASE act'.what = "deleteOk" /\ rows' = WithoutPage(p)
    <3>1. \A q \in PageId : rows'[q] = rows[q] \/ (q = p /\ rows'[q].state = "deleted"
                                                   /\ rows'[q].favAt = 0)
      BY <1>2, <2>2, WithoutPageIs
    <3> QED BY <1>1, <1>2, <1>3, <2>2, <3>1, WithoutPageIs
  <2>3. CASE act'.what = "addOk" /\ p \in There /\ rows' = WithFavorite(p)
    <3>1. rows[p].state = "there" /\ gone' = gone /\ view # "favorites"
      BY <1>1, <1>4, <2>3 DEF There
    <3>2. \A q \in PageId : rows'[q].state = rows[q].state
                            /\ (q # p => rows'[q].favAt = rows[q].favAt)
      BY <1>2, <2>3, WithFavoriteIs
    <3>3. rows' \in [PageId -> Row]
      BY <1>2, <2>3, WithFavoriteIs
    <3> QED BY <1>3, <3>1, <3>2, <3>3
  <2>4. CASE act'.what = "removeOk" /\ rows' = WithoutFavorite(p)
    <3>1. \A q \in PageId : rows'[q] = rows[q] \/ (q = p /\ rows'[q].state = rows[q].state
                                                   /\ rows'[q].favAt = 0)
      BY <1>2, <2>4, WithoutFavoriteIs
    <3> QED BY <1>1, <1>2, <1>3, <2>4, <3>1, WithoutFavoriteIs
  <2> QED BY <1>4, <2>1, <2>2, <2>3, <2>4
<1>10. act' # NoAct /\ act'.what # "none" /\ act'.what \notin {"delete", "add", "remove"}
  BY <1>4 DEF NoAct
<1> HIDE DEF p, Did
<1> QED BY <1>1, <1>2, <1>4, <1>5, <1>8, <1>9, <1>10, Touched

\* Another client changes a row.
LEMMA ElsewhereInv == PInv /\ Elsewhere => PInv'
<1> SUFFICES ASSUME PInv, Elsewhere PROVE PInv'
  OBVIOUS
<1> USE PNumbers
<1>1. /\ Touch /\ view' = view /\ changes < MaxChanges
      /\ act' = act /\ inputs' = inputs /\ faults' = faults
      /\ UNCHANGED <<client, inputs>>
  BY DEF Elsewhere, client
<1>2. PICK p \in PageId :
       \/ /\ rows[p].state = "new"
          /\ rows' = [rows EXCEPT ![p] = [state |-> "there", visited |-> Top + 1, favAt |-> 0]]
          /\ UNCHANGED gone
       \/ /\ p \in There
          /\ \E t \in {Top, Top + 1} : rows' = [rows EXCEPT ![p].visited = t]
          /\ UNCHANGED gone
       \/ p \in There /\ rows' = WithoutPage(p) /\ UNCHANGED gone
       \/ p \in There /\ rows' = WithFavorite(p) /\ gone' = gone \ {p}
       \/ p \in There /\ rows' = WithoutFavorite(p) /\ UNCHANGED gone
  BY DEF Elsewhere
<1>3. /\ act \in Act
      /\ rows \in [PageId -> Row] /\ gone \subseteq PageId
      /\ view = "favorites" => act.what \notin {"add", "addOk"}
      /\ \A q \in PageId : rows[q].favAt # 0 => rows[q].state = "there"
      /\ \A q \in gone : rows[q].state = "deleted" \/ (view = "favorites" /\ rows[q].favAt = 0)
      /\ act # NoAct => act.what # "none" /\ act.page \in PageId
      /\ act.what # "none" => inputs > 0
  BY DEF PInv, ListTypeOK, StarsInv, FavoriteTotal, There, GoneInv, ChangesInv
<1>4. changes < MaxChanges + inputs /\ (act.what # "none" => changes + 1 < MaxChanges + inputs)
  BY <1>1, <1>3
<1>5. Leaving' = Leaving /\ Leaving \subseteq PageId
  BY <1>1, <1>3 DEF Leaving, NoAct
<1>6. gone' \subseteq gone
  BY <1>2
<1>7. /\ rows' \in [PageId -> Row]
      /\ \A q \in PageId : rows'[q].favAt # 0 => rows'[q].state = "there"
      /\ \A q \in gone' : rows'[q].state = "deleted" \/ (view = "favorites" /\ rows'[q].favAt = 0)
  <2>1. CASE /\ rows[p].state = "new"
             /\ rows' = [rows EXCEPT ![p] = [state |-> "there", visited |-> Top + 1, favAt |-> 0]]
             /\ UNCHANGED gone
    <3> DEFINE r == [state |-> "there", visited |-> Top + 1, favAt |-> 0]
    <3>1. r \in Row /\ r.state = "there" /\ r.favAt = 0
      BY TopIs DEF Row
    <3> HIDE DEF r
    <3>2. rows' = [rows EXCEPT ![p] = r]
      BY <2>1 DEF r
    <3>3. \A q \in PageId : rows'[q] = IF q = p THEN r ELSE rows[q]
      BY <1>3, <3>2
    <3>4. p \in gone => view = "favorites"
      BY <1>3, <2>1
    <3> QED BY <1>3, <2>1, <3>1, <3>2, <3>3, <3>4
  <2>2. CASE /\ p \in There
             /\ \E t \in {Top, Top + 1} : rows' = [rows EXCEPT ![p].visited = t]
             /\ UNCHANGED gone
    <3>1. PICK t \in {Top, Top + 1} : rows' = [rows EXCEPT ![p].visited = t]
      BY <2>2
    <3>2. t \in Nat
      BY TopIs
    <3>3. /\ rows' \in [PageId -> Row]
          /\ \A q \in PageId : rows'[q].state = rows[q].state /\ rows'[q].favAt = rows[q].favAt
      BY <1>3, <3>1, <3>2 DEF Row
    <3> QED BY <1>3, <2>2, <3>3
  <2>3. CASE p \in There /\ rows' = WithoutPage(p) /\ UNCHANGED gone
    <3>1. \A q \in PageId : rows'[q] = rows[q] \/ (q = p /\ rows'[q].state = "deleted"
                                                   /\ rows'[q].favAt = 0)
      BY <2>3, WithoutPageIs
    <3> QED BY <1>3, <2>3, <3>1, WithoutPageIs
  <2>4. CASE p \in There /\ rows' = WithFavorite(p) /\ gone' = gone \ {p}
    <3>1. rows[p].state = "there"
      BY <2>4 DEF There
    <3>2. \A q \in PageId : rows'[q].state = rows[q].state
                            /\ (q # p => rows'[q].favAt = rows[q].favAt)
      BY <2>4, WithFavoriteIs
    <3>3. rows' \in [PageId -> Row]
      BY <2>4, WithFavoriteIs
    <3> QED BY <1>3, <2>4, <3>1, <3>2, <3>3
  <2>5. CASE p \in There /\ rows' = WithoutFavorite(p) /\ UNCHANGED gone
    <3>1. \A q \in PageId : rows'[q] = rows[q] \/ (q = p /\ rows'[q].state = rows[q].state
                                                   /\ rows'[q].favAt = 0)
      BY <2>5, WithoutFavoriteIs
    <3> QED BY <1>3, <2>5, <3>1, WithoutFavoriteIs
  <2> QED BY <1>2, <2>1, <2>2, <2>3, <2>4, <2>5
<1>8. faults' \in faults .. MaxFaults
  BY <1>1
<1> QED BY <1>1, <1>3, <1>4, <1>5, <1>6, <1>7, <1>8, Touched

-----------------------------------------------------------------------------
(* The theorems about lists.                                               *)

\* Every step of the tab, the server and the other clients keeps the invariant.
LEMMA ListStep == PInv /\ [ListNext]_listVars => PInv'
<1> SUFFICES ASSUME PInv, [ListNext]_listVars PROVE PInv'
  OBVIOUS
<1>1. CASE Serve
  BY <1>1, QueryInv, MarkInv, CountInv DEF Serve
<1>2. CASE Render
  BY <1>2, ApplyInv, ShowErrorInv DEF Render
<1>3. CASE TimerFires
  BY <1>3, InputsInv
<1>4. CASE User
  BY <1>4, InputsInv, ClickInv DEF User
<1>5. CASE Perform
  BY <1>5, PerformInv
<1>6. CASE ActAnswered
  BY <1>6, ActAnsweredInv
<1>7. CASE Elsewhere
  BY <1>7, ElsewhereInv
<1>8. CASE UNCHANGED listVars
  <2>1. /\ rows' = rows /\ view' = view /\ input' = input /\ timers' = timers /\ cur' = cur
        /\ totalPages' = totalPages /\ req' = req /\ shown' = shown /\ act' = act
        /\ changes' = changes /\ inputs' = inputs /\ faults' = faults /\ prev' = prev
        /\ gone' = gone
    BY <1>8 DEF listVars, client
  <2>2. ListTypeOK' /\ FavoriteTotal' /\ ShownMatches' /\ ChangesInv'
    BY <2>1 DEF PInv, ListTypeOK, FavoriteTotal, There, ShownMatches, Quiet, ChangesInv
  <2>3. StarsInv' /\ GoneInv'
    BY <2>1 DEF PInv, StarsInv, GoneInv, Leaving, Quiet
  <2>4. SliceInv' /\ TurnInv'
    BY <2>1, SameList DEF PInv, SliceInv, TurnInv
  <2> QED BY <2>2, <2>3, <2>4 DEF PInv
<1> QED BY <1>1, <1>2, <1>3, <1>4, <1>5, <1>6, <1>7, <1>8 DEF ListNext

\* A list that no change has overtaken is not empty while rows match.
LEMMA ShowsRows == PInv => NoEmptyPage
<1> SUFFICES ASSUME PInv, shown.stage = "answered", shown.fresh, faults = 0,
                    Rows(shown.filter) # {}
             PROVE  shown.items # {}
  BY DEF NoEmptyPage
<1> USE PNumbers
<1> DEFINE f == shown.filter
           n == shown.page
           a == (n - 1) * PageSize
           b == n * PageSize
<1>1. n \in Nat /\ n >= 1 /\ n <= PagesOf(f) /\ shown.items = Slice(f, n)
  BY DEF PInv, TurnInv, SliceInv
<1>2. Cardinality(Rows(f)) \in Nat
  BY RowsAre
<1>3. a < Cardinality(Rows(f))
  BY <1>1, <1>2, LastPageIs DEF PagesOf
<1>4. a \in Nat /\ b \in Nat /\ b = a + PageSize /\ Slice(f, n) = Window(f, a, b)
  BY <1>1, SliceIs
<1>5. PageSize \in Nat /\ PageSize >= 1
  BY ListBoundsAssumption
<1> HIDE DEF a, b
<1>6. PICK p \in Rows(f) : Place(f, p) = a
  BY <1>3, <1>4, PlaceTaken
<1>7. p \in Window(f, a, b)
  BY <1>4, <1>5, <1>6 DEF Window
<1> QED BY <1>1, <1>4, <1>7

\* Two neighbouring pages of one list tile the rows they cover.
LEMMA NeighboursTile == PInv => PagesTile
<1> SUFFICES ASSUME PInv, shown.stage = "answered", prev.stage = "answered",
                    shown.filter = prev.filter, shown.page = prev.page + 1,
                    shown.fresh, prev.fresh
             PROVE  LET both == prev.items \union shown.items IN
                    /\ prev.items \intersect shown.items = {}
                    /\ Cardinality(prev.items) = PageSize
                    /\ \A q \in Rows(shown.filter) \ both : \/ \A p \in both : Key(q) >= Key(p)
                                                            \/ \A p \in both : Key(q) <= Key(p)
  BY DEF PagesTile
<1> USE PNumbers
<1> DEFINE f == shown.filter
           n == prev.page
           a == (n - 1) * PageSize
           b == n * PageSize
           c == (n + 1) * PageSize
<1>1. /\ n \in Nat /\ n >= 1 /\ n + 1 <= PagesOf(f)
      /\ shown.items = Slice(f, n + 1) /\ prev.items = Slice(f, n)
  BY DEF PInv, TurnInv, SliceInv, List
<1>2. Cardinality(Rows(f)) \in Nat
  BY RowsAre
<1>3. b < Cardinality(Rows(f))
  <2>1. ((n + 1) - 1) * PageSize < Cardinality(Rows(f))
    BY <1>1, <1>2, LastPageIs DEF PagesOf
  <2>2. (n + 1) - 1 = n
    BY <1>1
  <2> QED BY <2>1, <2>2
<1>4. a \in Nat /\ b \in Nat /\ b = a + PageSize /\ Slice(f, n) = Window(f, a, b)
  BY <1>1, SliceIs
<1>5. c \in Nat /\ c = b + PageSize /\ Slice(f, n + 1) = Window(f, b, c)
  <2> DEFINE m == n + 1
  <2>1. m \in Nat /\ m >= 1 /\ m - 1 = n
    BY <1>1
  <2> HIDE DEF m
  <2>2. /\ (m - 1) * PageSize \in Nat /\ m * PageSize \in Nat
        /\ m * PageSize = (m - 1) * PageSize + PageSize
        /\ Slice(f, m) = Window(f, (m - 1) * PageSize, m * PageSize)
    BY <2>1, SliceIs
  <2>3. m * PageSize \in Nat /\ m * PageSize = b + PageSize
        /\ Slice(f, m) = Window(f, b, m * PageSize)
    BY <2>1, <2>2
  <2> QED BY <2>3 DEF m
<1>6. PageSize \in Nat
  BY ListBoundsAssumption
<1> HIDE DEF a, b, c
<1>7. prev.items = Window(f, a, b) /\ shown.items = Window(f, b, c)
  BY <1>1, <1>4, <1>5
<1>8. \A p \in Rows(f) : Place(f, p) \in Nat
  BY PlaceIs
<1>9. Window(f, a, b) \intersect Window(f, b, c) = {}
  BY <1>4, <1>5, <1>8 DEF Window
<1>10. Cardinality(Window(f, a, b)) = PageSize
  <2>1. a <= b /\ b - a = PageSize /\ b <= Cardinality(Rows(f))
    BY <1>2, <1>3, <1>4, <1>6
  <2> QED BY <1>4, <2>1, WindowSize
<1> DEFINE both == Window(f, a, b) \union Window(f, b, c)
<1>11. ASSUME NEW q \in Rows(f) \ both
       PROVE  (\A p \in both : Key(q) >= Key(p)) \/ (\A p \in both : Key(q) <= Key(p))
  <2>1. \A p \in both : p \in Rows(f) /\ Place(f, p) >= a /\ Place(f, p) < c
    BY <1>4, <1>5, <1>6, <1>8 DEF Window
  <2>2. Place(f, q) < a \/ Place(f, q) >= c
    BY <1>4, <1>5, <1>8 DEF Window
  <2>3. CASE Place(f, q) < a
    <3> SUFFICES ASSUME NEW p \in both PROVE Key(q) >= Key(p)
      OBVIOUS
    <3>1. p \in Rows(f) /\ Place(f, q) < Place(f, p)
      BY <1>4, <1>8, <2>1, <2>3
    <3> QED BY <3>1, PlaceOrders
  <2>4. CASE Place(f, q) >= c
    <3> SUFFICES ASSUME NEW p \in both PROVE Key(q) <= Key(p)
      OBVIOUS
    <3>1. p \in Rows(f) /\ Place(f, p) < Place(f, q)
      BY <1>5, <1>8, <2>1, <2>4
    <3>2. Key(p) >= Key(q) /\ Key(p) \in Nat /\ Key(q) \in Nat
      BY <3>1, PlaceOrders, RowsAre
    <3> QED BY <3>2
  <2> QED BY <2>2, <2>3, <2>4
<1> HIDE DEF f
<1> QED BY <1>7, <1>9, <1>10, <1>11 DEF f

\* The inductive invariant: at any time the list in flight and the list shown are what
\* the inputs, the rows and the page number say, as far as no change came between.
THEOREM ListInvariance == ListSpec => []PInv
BY InitPInv, ListStep, PTL DEF ListSpec

\* At any moment: what is deleted or taken off a list is not in it once nothing is in
\* flight; the tab does not stay on an empty page of a list that has rows; and the
\* favorites counted are rows of the list (api/pages_handler.go, api/favorites_handler.go,
\* web/index.html, web/favorites.html).
THEOREM ListHolds == ListSpec => []ListInv
<1>1. PInv => ListInv
  <2> SUFFICES ASSUME PInv PROVE ListInv
    OBVIOUS
  <2>1. GoneNotShown
    <3>1. act = NoAct => Leaving = {}
      BY DEF Leaving, NoAct
    <3> QED BY <3>1 DEF PInv, GoneInv, GoneNotShown
  <2> QED BY <2>1, ShowsRows DEF ListInv, PInv
<1> QED BY <1>1, ListInvariance, PTL

\* An answer to older inputs never lands after newer ones, whatever the order of answers,
\* timers, page turns and failures (the sequence numbers and aborts of loadPages and
\* invalidateActiveRequest).
THEOREM ListFollowsInputs == ListSpec => []ShownMatches
<1>1. PInv => ShownMatches
  BY DEF PInv
<1> QED BY <1>1, ListInvariance, PTL

\* Page by page nothing is shown twice and nothing left out: LIMIT and OFFSET over an
\* order made total by the id (ORDER BY last_visited DESC, id DESC).
THEOREM PagesDoTile == ListSpec => []PagesTile
BY NeighboursTile, ListInvariance, PTL
=============================================================================
