------------------------------ MODULE LogProofs ------------------------------
(* The log is where it can be found, the lock-free size counter never falls  *)
(* behind the file it counts, and no rotation appends to a full file; the    *)
(* page that shows a growing log shows one unbroken stretch of whole lines.  *)
EXTENDS LogFiles, LogView, TLAPS, WellFoundedInduction


-----------------------------------------------------------------------------
(* The log files: the inductive invariant.                                 *)

Current == <<curDate, curSeq>>

\* No file is longer than all lines written.
SizeInv ==
  /\ size \in [Name -> 0..MaxLines \union {Null}]
  /\ \A n \in Name : Exists(n) => size[n] <= lines

\* What rotate has done when it is about to do the next thing.
RotInv ==
  /\ rot \notin {"setup", "idle"} => curDate \in 1..MaxDay
  /\ rot \in {"setup", "find", "open"} => ~open
  /\ rot = "output" => open
  /\ rot \in {"output", "idle"} /\ open => file = Current

\* The counter and the lines on their way into it cover the open file: a line of the
\* former file that is counted late only adds to it.
OpenInv ==
  open => /\ file \in Name /\ Exists(file)
          /\ size[file] <= curSize + inflight["log"] + inflight["recovery"]

\* Between the loop that looks for a file and OpenFile nobody writes to that file.
FoundInv ==
  rot = "open" => /\ ~Full(Current)
                  /\ Exists(Current) => size[Current] <= curSize

IInv == Inv /\ SizeInv /\ RotInv /\ OpenInv /\ FoundInv

\* Setup starts with no file open.
LEMMA InitInv == Init => IInv
<1> SUFFICES ASSUME Init PROVE IInv
  OBVIOUS
<1>1. /\ size \in [Name -> 0..MaxLines \union {Null}]
      /\ \A n \in Name : size[n] = Null
  BY DEF Init
<1>2. /\ sink \in [Loggers -> Name \union {Null}]
      /\ inflight \in [Loggers -> 0..1]
  BY DEF Init
<1>3. TypeOK
  <2>1. /\ day \in 1..MaxDay /\ curDate \in 0..MaxDay /\ curSeq \in 1..MaxSeq /\ curSize \in Nat
        /\ lines \in 0..MaxLines /\ faults \in 0..MaxFaults /\ restarts \in 0..MaxRestarts
    BY BoundsAssumption DEF Init
  <2>2. /\ file \in Name \union {Null} /\ open \in BOOLEAN
        /\ rot \in {"setup", "idle", "close", "find", "open", "output"}
    BY DEF Init
  <2> QED BY <1>1, <1>2, <2>1, <2>2 DEF TypeOK
<1> QED
  BY <1>1, <1>3 DEF Init, IInv, Inv, LogGoesToFile, SizeInv, RotInv, OpenInv, FoundInv, Exists, Full

\* Each step of a writer, of a rotation and of the environment keeps it.
LEMMA NextInv == IInv /\ [Next]_vars => IInv'
<1> SUFFICES ASSUME IInv, [Next]_vars PROVE IInv'
  OBVIOUS
<1>0. /\ MaxDay \in Nat /\ MaxSeq \in Nat /\ MaxLines \in Nat /\ MaxFaults \in Nat
      /\ MaxRestarts \in Nat /\ MaxSeq >= 1 /\ RetentionDays \in Nat /\ RetentionDays >= 1
      /\ MaxLogSize \in Nat /\ MaxLogSize >= 1
      /\ Null \notin Nat /\ Null \notin Name
  BY SizeAssumption, BoundsAssumption, NullAssumption
<1> USE <1>0 DEF IInv, Inv, TypeOK, LogGoesToFile, SizeInv, RotInv, OpenInv, FoundInv, Loggers, Exists, Full,
            Current, Bounds, Name
<1>1. ASSUME NEW l \in Loggers, Write(l)
      PROVE  IInv'
  BY <1>1 DEF Write
<1>2. ASSUME NEW l \in Loggers, Count(l)
      PROVE  IInv'
  BY <1>2 DEF Count
<1>3. CASE Rotate
  BY <1>3 DEF Rotate
<1>4. CASE Close
  BY <1>4 DEF Close
<1>5. CASE Find
  BY <1>5 DEF Find
<1>6. CASE Open
  BY <1>6 DEF Open
<1>7. CASE SetOutput
  BY <1>7 DEF SetOutput
<1>8. CASE Cleanup
  BY <1>8 DEF Cleanup
<1>9. CASE RotateFails
  BY <1>9 DEF RotateFails
<1>10. CASE NewDay
  BY <1>10 DEF NewDay
<1>11. CASE Restart
  <2>1. /\ sink' \in [Loggers -> Name \union {Null}]
        /\ inflight' \in [Loggers -> 0..1]
    BY <1>11 DEF Restart
  <2>2. /\ file' \in Name \union {Null} /\ open' \in BOOLEAN
        /\ rot' \in {"setup", "idle", "close", "find", "open", "output"}
        /\ UNCHANGED <<day, size, lines, faults>>
    BY <1>11 DEF Restart
  <2>3. curDate' \in 0..MaxDay /\ curSeq' \in 1..MaxSeq /\ curSize' \in Nat
    BY <1>11 DEF Restart
  <2>4. restarts' \in 0..MaxRestarts
    BY <1>11 DEF Restart
  <2>5. TypeOK'
    BY <2>1, <2>2, <2>3, <2>4
  <2> QED BY <1>11, <2>5 DEF Restart
<1>12. CASE UNCHANGED vars
  BY <1>12 DEF vars
<1> QED
  BY <1>1, <1>2, <1>3, <1>4, <1>5, <1>6, <1>7, <1>8, <1>9, <1>10, <1>11, <1>12 DEF Next, Rotation

\* Every reachable state satisfies the invariant.
THEOREM Invariance == Spec => []IInv
<1> QED BY InitInv, NextInv, PTL DEF Spec

\* Between rotations an open log file is the one the standard logger writes to, also
\* after a rotation that failed half-way.
THEOREM LogFound == Spec => []Inv
<1>1. IInv => Inv
  BY DEF IInv
<1> QED BY <1>1, Invariance, PTL

\* When no line is on its way, the counter has at least what the file has: a full file
\* is noticed at the next tick, whatever lines a rotation overtook.
THEOREM CounterNeverBehind == Spec => []CounterCovers
<1>1. IInv => CounterCovers
  BY DEF IInv, Inv, TypeOK, OpenInv, CounterCovers, AtRest, Loggers, Exists, SizeInv
<1> QED BY <1>1, Invariance, PTL

\* The file a rotation opens is below the limit, also after a restart.
THEOREM NeverOpensFull == Spec => OpensBelowLimit
<1>1. IInv /\ [Next]_vars => [~open /\ open' => size'[file'] < MaxLogSize]_vars
  <2> SUFFICES ASSUME IInv, Next, ~open, open' PROVE size'[file'] < MaxLogSize
    BY DEF vars
  <2>1. Open
    BY DEF Next, Rotation, Write, Count, Rotate, Close, Find, SetOutput, Cleanup, RotateFails, NewDay,
           Restart
  <2>2. Current \in Name /\ MaxLogSize \in Nat /\ MaxLogSize >= 1
    BY <2>1, SizeAssumption DEF Open, IInv, Inv, TypeOK, RotInv, Current, Name
  <2> QED
    BY <2>1, <2>2, NullAssumption DEF Open, IInv, FoundInv, SizeInv, Full, Exists, Current
<1> QED BY <1>1, Invariance, PTL DEF Spec, OpensBelowLimit

-----------------------------------------------------------------------------
(* The log page: lines of the file, and the ranges that ReadLogRange cuts out *)
(* of it.                                                                  *)

\* The order of the numbers, for WFMin.
Below == {q \in Nat \X Nat : q[1] < q[2]}

\* Every set of numbers has a least one.
LEMMA Smallest ==
  ASSUME NEW S \in SUBSET Nat, S # {}
  PROVE  Min(S) \in S /\ \A n \in S : Min(S) <= n
<1>1. IsWellFoundedOn(Below, Nat)
  BY NatLessThanWellFounded, Zenon DEF Below, OpToRel
<1>2. \E n \in S : \A m \in S : <<m, n>> \notin Below
  BY <1>1, WFMin, Zenon
<1>3. PICK n \in S : \A m \in S : <<m, n>> \notin Below
  BY <1>2
<1>4. \A m \in S : ~(m < n)
  BY <1>3 DEF Below
<1>5. \E x \in S : \A m \in S : x <= m
  BY <1>4
<1> QED BY <1>5 DEF Min

\* So has a bounded one a greatest.
LEMMA Greatest ==
  ASSUME NEW S \in SUBSET Nat, S # {}, NEW k \in Nat, \A n \in S : n <= k
  PROVE  Max(S) \in S /\ \A n \in S : n <= Max(S)
<1> DEFINE T == {k - n : n \in S}
<1>1. T \in SUBSET Nat /\ T # {}
  <2>1. \A n \in S : k - n \in Nat
    OBVIOUS
  <2> QED BY <2>1
<1>2. Min(T) \in T /\ \A m \in T : Min(T) <= m
  BY <1>1, Smallest
<1>3. PICK x \in S : Min(T) = k - x
  BY <1>2
<1>4. \A n \in S : n <= x
  BY <1>2, <1>3
<1> QED BY <1>3, <1>4 DEF Max

\* A file of whole lines.
Lines == ends \subseteq 1..MaxSize /\ MaxSize \in Nat

\* The size is where the last line ends.
LEMMA SizeIs ==
  ASSUME Lines
  PROVE  /\ fileSize \in 0..MaxSize /\ fileSize \in ends \union {0} /\ ends \subseteq Nat
         /\ \A n \in ends : n <= fileSize /\ n >= 1
<1>1. /\ ends \union {0} \in SUBSET Nat /\ ends \union {0} # {}
      /\ \A n \in ends \union {0} : n <= MaxSize
  BY DEF Lines
<1>2. fileSize \in ends \union {0} /\ \A n \in ends \union {0} : n <= fileSize
  BY <1>1, Greatest DEF fileSize, Lines
<1> QED BY <1>2 DEF Lines

\* Where a page may cut: at the end of a line, or inside a line no range can hold.
CutIn(S, b) ==
  \/ b \in S \union {0}
  \/ Min({n \in S : n >= b}) - Max({n \in S \union {0} : n < b}) > Limit
Cut(b) == CutIn(ends, b)

\* A line is written behind the last one.
LEMMA SizeGrows ==
  ASSUME Lines, NEW m \in Nat, m > fileSize, m <= MaxSize, ends' = ends \union {m}
  PROVE  fileSize' = m /\ Lines'
<1>1. /\ ends' \union {0} \in SUBSET Nat /\ ends' \union {0} # {}
      /\ \A n \in ends' \union {0} : n <= m
  BY SizeIs
<1>2. fileSize' \in ends' \union {0} /\ \A n \in ends' \union {0} : n <= fileSize'
  BY <1>1, Greatest DEF fileSize
<1>3. fileSize' = m
  BY <1>1, <1>2
<1> QED BY <1>3, SizeIs DEF Lines

\* A cut is in a line that has been written whole: later lines do not undo it.
LEMMA CutStays ==
  ASSUME Lines, NEW m \in Nat, m > fileSize, ends' = ends \union {m},
         NEW b \in 0..fileSize, Cut(b)
  PROVE  CutIn(ends', b)
<1>1. CASE b \in ends \union {0}
  BY <1>1 DEF Cut, CutIn, LongLine
<1>2. CASE LongLine(b) /\ b \notin ends \union {0}
  <2>1. {n \in ends' \union {0} : n < b} = {n \in ends \union {0} : n < b}
    BY SizeIs
  <2> DEFINE S == {n \in ends : n >= b}
             T == {n \in ends' : n >= b}
  <2>2. fileSize \in ends /\ fileSize >= b
    BY SizeIs, <1>2
  <2>3. S \in SUBSET Nat /\ S # {} /\ T \in SUBSET Nat /\ T # {} /\ T = S \union {m}
    BY SizeIs, <2>2
  <2>4. Min(S) \in S /\ (\A n \in S : Min(S) <= n) /\ Min(T) \in T /\ (\A n \in T : Min(T) <= n)
    BY <2>3, Smallest
  <2>5. Min(S) = Min(T)
    BY <2>2, <2>3, <2>4, SizeIs
  <2> QED BY <1>2, <2>1, <2>5 DEF Cut, CutIn, LongLine
<1> QED BY <1>1, <1>2 DEF Cut, CutIn, LongLine

\* No line ends between s and e, a whole range apart, and s is inside a line: it is long.
LEMMA LongBefore ==
  ASSUME Lines, NEW s \in Nat, NEW e \in Nat, s > 0, s \notin ends,
         \E n \in ends : n >= e, e >= s + Limit, \A n \in ends : s < n => n >= e
  PROVE  LongLine(s)
<1> DEFINE B == {n \in ends \union {0} : n < s}
           A == {n \in ends : n >= s}
<1>1. B \in SUBSET Nat /\ B # {} /\ (\A n \in B : n <= s) /\ A \in SUBSET Nat /\ A # {}
  BY SizeIs, LimitAssumption
<1>2. Max(B) \in B
  BY <1>1, Greatest
<1>3. Min(A) \in A
  BY <1>1, Smallest
<1>4. Max(B) \in Nat /\ Max(B) < s /\ Min(A) \in Nat /\ Min(A) >= e
  BY <1>1, <1>2, <1>3
<1>5. Limit \in Nat
  BY LimitAssumption
<1>6. Min(A) - Max(B) > Limit
  BY <1>4, <1>5
<1> QED BY <1>6 DEF LongLine

\* The same of the end of a range in which no line ends.
LEMMA LongAfter ==
  ASSUME Lines, NEW s \in Nat, NEW e \in Nat, e > 0, e < fileSize,
         e >= s + Limit, \A n \in ends : ~(s < n /\ n <= e)
  PROVE  LongLine(e)
<1> DEFINE B == {n \in ends \union {0} : n < e}
           A == {n \in ends : n >= e}
<1>1. B \in SUBSET Nat /\ B # {} /\ (\A n \in B : n <= s) /\ A \in SUBSET Nat /\ A # {}
  BY SizeIs
<1>2. Max(B) \in B
  BY <1>1, Greatest
<1>3. Min(A) \in A
  BY <1>1, Smallest
<1>4. Limit \in Nat
  BY LimitAssumption
<1>5. Max(B) \in Nat /\ Max(B) <= s /\ Min(A) \in Nat /\ Min(A) > e
  <2>1. e \notin ends
    BY <1>4, LimitAssumption
  <2> QED BY <1>1, <1>2, <1>3, <2>1
<1>6. Min(A) - Max(B) > Limit
  BY <1>4, <1>5
<1> QED BY <1>6 DEF LongLine

\* New lines are read from where they were asked for, up to a place to cut.
LEMMA AfterRange ==
  ASSUME Lines, NEW r, r.kind = "after", r.at \in 0..fileSize
  PROVE  LET g == LineRange(r) IN
         g[1] = r.at /\ g[2] \in r.at..fileSize /\ Cut(g[2])
<1> DEFINE s == r.at
           e == IF s + Limit < fileSize THEN s + Limit ELSE fileSize
           lines_ == {n \in ends : s < n /\ n <= e}
<1>1. Limit \in Nat /\ Limit >= 1 /\ fileSize \in Nat /\ fileSize \in ends \union {0}
      /\ ends \subseteq Nat
  BY SizeIs, LimitAssumption
<1>2. RangeBounds(r) = <<s, e>>
  BY <1>1 DEF RangeBounds
<1>3. e \in s..fileSize /\ (e < fileSize => e = s + Limit)
  BY <1>1
<1>4. LineRange(r) = IF e < fileSize /\ lines_ # {} THEN <<s, Max(lines_)>> ELSE <<s, e>>
  BY <1>2 DEF LineRange
<1> HIDE DEF e
<1>5. CASE e < fileSize /\ lines_ # {}
  <2>1. lines_ \in SUBSET Nat /\ \A n \in lines_ : n <= e
    BY <1>1
  <2>2. Max(lines_) \in lines_
    <3>1. e \in Nat
      BY <1>1, <1>3
    <3> HIDE DEF lines_
    <3> QED BY <1>5, <2>1, <3>1, Greatest
  <2>3. LineRange(r)[1] = s /\ LineRange(r)[2] = Max(lines_)
    BY <1>4, <1>5
  <2>4. Max(lines_) \in s..fileSize /\ Max(lines_) \in ends
    <3>1. s \in Nat /\ e \in Nat /\ e <= fileSize
      BY <1>1, <1>3
    <3>2. \A n \in lines_ : n \in ends /\ n \in Nat /\ s < n /\ n <= e
      BY <1>1
    <3> HIDE DEF lines_, s
    <3> QED BY <1>1, <2>2, <3>1, <3>2
  <2> QED BY <2>3, <2>4 DEF Cut, CutIn, LongLine
<1>6. CASE e < fileSize /\ lines_ = {}
  <2>1. LongLine(e)
    BY <1>1, <1>3, <1>6, LongAfter
  <2>2. Cut(e)
    BY <2>1 DEF Cut, CutIn, LongLine
  <2> QED BY <1>3, <1>4, <1>6, <2>2
<1>7. CASE e = fileSize
  BY <1>1, <1>3, <1>4, <1>7 DEF Cut, CutIn, LongLine
<1> QED BY <1>1, <1>3, <1>5, <1>6, <1>7

\* Where a range that ends at e starts.
BackIn(S, e) ==
  LET s == IF e < Limit THEN 0 ELSE e - Limit
      newlines == {n \in S : s < n /\ n <= e}
  IN  IF s > 0 /\ s \notin S /\ newlines \ {e} # {} THEN Min(newlines) ELSE s
BackStart(e) == BackIn(ends, e)

\* What is read from the end, or before what is shown.
LEMMA BackRange ==
  ASSUME Lines, NEW r, r.kind # "after", r.kind = "before" => r.at \in 0..fileSize
  PROVE  LET e == IF r.kind = "before" THEN r.at ELSE fileSize IN
         LineRange(r) = <<BackStart(e), e>>
<1> DEFINE e == IF r.kind = "before" THEN r.at ELSE fileSize
           s == IF e < Limit THEN 0 ELSE e - Limit
<1>1. RangeBounds(r) = <<s, e>>
  BY SizeIs DEF RangeBounds
<1> HIDE DEF e, s
<1>2. LineRange(r) = LET newlines == {n \in ends : s < n /\ n <= e} IN
         IF s > 0 /\ s \notin ends /\ newlines \ {e} # {} THEN <<Min(newlines), e>> ELSE <<s, e>>
  BY <1>1 DEF LineRange
<1> QED BY <1>2 DEF BackStart, BackIn, s, e

\* It is not empty, and starts at a place to cut.
LEMMA BackStartIs ==
  ASSUME Lines, NEW e \in 0..fileSize
  PROVE  /\ BackStart(e) \in 0..e /\ (e > 0 => BackStart(e) < e) /\ Cut(BackStart(e))
         /\ BackStart(e) >= e - Limit
<1> DEFINE s == IF e < Limit THEN 0 ELSE e - Limit
           newlines == {n \in ends : s < n /\ n <= e}
<1>1. /\ Limit \in Nat /\ Limit >= 1 /\ fileSize \in Nat /\ fileSize \in ends \union {0}
      /\ ends \subseteq Nat /\ \A n \in ends : n <= fileSize /\ n >= 1
  BY SizeIs, LimitAssumption
<1>2. s \in 0..e /\ s >= e - Limit /\ (e > 0 => s < e) /\ (s > 0 => e = s + Limit)
  BY <1>1
<1>3. BackStart(e) = IF s > 0 /\ s \notin ends /\ newlines \ {e} # {} THEN Min(newlines) ELSE s
  BY DEF BackStart, BackIn
<1> HIDE DEF s
<1>4. CASE s > 0 /\ s \notin ends /\ newlines \ {e} # {}
  <2>1. newlines \in SUBSET Nat /\ newlines # {}
    BY <1>1, <1>4
  <2>2. Min(newlines) \in newlines /\ \A n \in newlines : Min(newlines) <= n
    BY <2>1, Smallest
  <2>3. Min(newlines) < e
    <3>1. PICK n \in newlines : n # e
      BY <1>4
    <3>2. n \in newlines /\ n \in Nat /\ n <= e /\ e \in Nat
      BY <1>1, <3>1
    <3>3. n < e
      BY <3>1, <3>2
    <3> HIDE DEF newlines
    <3>4. Min(newlines) <= n /\ Min(newlines) \in Nat
      BY <2>1, <2>2, <3>2
    <3> QED BY <3>2, <3>3, <3>4
  <2>4. Min(newlines) \in ends /\ Min(newlines) > s
    BY <1>1, <1>2, <2>2
  <2>5. BackStart(e) = Min(newlines)
    BY <1>3, <1>4
  <2> DEFINE b == Min(newlines)
  <2>6. e \in Nat /\ s \in Nat /\ Limit \in Nat
    BY <1>1, <1>2
  <2>9. b \in Nat
    BY <1>1, <2>4, Zenon
  <2>10. b \in ends /\ b > s /\ b < e
    BY <2>3, <2>4, Zenon
  <2> HIDE DEF newlines, b
  <2>7. b \in 0..e /\ b < e /\ b >= e - Limit /\ b \in ends
    BY <1>2, <2>6, <2>9, <2>10
  <2>8. BackStart(e) = b
    BY <2>5 DEF b
  <2> QED BY <2>7, <2>8 DEF Cut, CutIn, LongLine
<1>5. CASE s > 0 /\ s \notin ends /\ newlines \ {e} = {}
  <2>1. \E n \in ends : n >= e
    BY <1>1, <1>2, <1>5
  <2>2. \A n \in ends : s < n => n >= e
    BY <1>1, <1>2, <1>5
  <2>3. LongLine(s)
    BY <1>1, <1>2, <1>5, <2>1, <2>2, LongBefore
  <2> QED BY <1>1, <1>2, <1>3, <1>5, <2>3 DEF Cut, CutIn, LongLine
<1>6. CASE s = 0 \/ s \in ends
  BY <1>1, <1>2, <1>3, <1>6 DEF Cut, CutIn, LongLine
<1> QED BY <1>2, <1>4, <1>5, <1>6
\* The last range of a file that grows starts no earlier than before.
LEMMA TailGrows ==
  ASSUME Lines, NEW m \in Nat, m > fileSize, m <= MaxSize, ends' = ends \union {m}
  PROVE  BackIn(ends, fileSize) <= BackIn(ends', m) /\ BackIn(ends', m) \in Nat
<1> DEFINE z == fileSize
           s == IF z < Limit THEN 0 ELSE z - Limit
           t == IF m < Limit THEN 0 ELSE m - Limit
           old == {n \in ends : s < n /\ n <= z}
           new == {n \in ends' : t < n /\ n <= m}
           x == BackIn(ends, z)
           y == BackIn(ends', m)
<1> SUFFICES x <= y /\ y \in Nat
  OBVIOUS
<1>1. /\ Limit \in Nat /\ Limit >= 1 /\ z \in Nat /\ z < m
      /\ ends \subseteq Nat /\ \A n \in ends : n <= z /\ n >= 1
  BY SizeIs, LimitAssumption
<1>2. s \in Nat /\ t \in Nat /\ s <= t
  BY <1>1
<1>3. x = IF s > 0 /\ s \notin ends /\ old \ {z} # {} THEN Min(old) ELSE s
  BY DEF BackIn
<1>4. y = IF t > 0 /\ t \notin ends' /\ new \ {m} # {} THEN Min(new) ELSE t
  BY DEF BackIn
<1> HIDE DEF x, y, z, s, t
<1>5. new # {} => Min(new) \in new /\ \A n \in new : Min(new) <= n
  <2>1. new \in SUBSET Nat
    BY <1>1
  <2> QED BY <2>1, Smallest
<1>9. \A n \in new : n \in Nat /\ n > t /\ n \in ends'
  BY <1>1
<1> HIDE DEF new, old
<1>6. y \in Nat /\ y >= t
  BY <1>1, <1>2, <1>4, <1>5, <1>9
<1>7. CASE x = s
  BY <1>2, <1>6, <1>7
<1>8. CASE s > 0 /\ s \notin ends /\ old \ {z} # {}
  <2>1. old \in SUBSET Nat /\ old # {}
    BY <1>1, <1>8 DEF old
  <2>2. x \in old /\ \A n \in old : x <= n
    BY <2>1, <1>3, <1>8, Smallest
  <2>3. PICK n \in old : n # z
    BY <1>8
  <2>4. x \in Nat /\ x < z /\ x > s /\ x \in ends
    BY <1>1, <1>2, <2>2, <2>3 DEF old
  <2>5. CASE t >= x
    BY <1>2, <1>6, <2>4, <2>5
  <2>6. CASE t < x
    <3>1. t \notin ends' /\ t > 0
      BY <1>1, <1>2, <1>8, <2>2, <2>4, <2>6 DEF old
    <3>2. x \in new /\ x # m
      BY <1>1, <2>4, <2>6 DEF new
    <3>3. y = Min(new) /\ y \in new
      BY <1>4, <1>5, <3>1, <3>2
    <3>4. y = m \/ y \in old
      BY <1>1, <1>2, <3>3 DEF old, new
    <3> QED BY <1>1, <1>6, <2>2, <2>4, <3>4
  <2> QED BY <1>2, <2>4, <2>5, <2>6
<1> QED BY <1>3, <1>6, <1>7, <1>8

-----------------------------------------------------------------------------
(* The inductive invariant of the log page.                                *)

\* Where the last range of the file starts, the first one that is shown.
TailStart == BackStart(fileSize)

Kind == {"initial", "reload", "before", "after"}
Request == [kind : Kind, seq : Nat, at : Nat]
Result == [kind : Kind, seq : Nat, at : Nat, start : Nat, end : Nat, size : Nat]

\* Requests whose answers the page will not ignore.
Pending == {r \in asked \union answered : r.seq = seq}

RecordInv ==
  /\ asked \subseteq Request /\ answered \subseteq Result
  /\ shown \in Seq(Nat \X Nat)
  /\ \A r \in asked \union answered : r.seq <= seq

\* Ranges are cut where they may be; an older one is never empty, and the first
\* one is empty only when the file is.
RangeInv ==
  /\ \A r \in asked : Cut(r.at) /\ (r.kind = "before" => r.at > 0)
  /\ \A r \in answered :
       /\ Cut(r.start) /\ Cut(r.end)
       /\ r.kind = "after" => r.start = r.at
       /\ r.kind = "before" => r.end = r.at /\ r.start < r.end
       /\ r.kind \in {"initial", "reload"} =>
            r.start <= TailStart /\ (r.start = r.end => r.start = 0)
  /\ Cut(startOffset) /\ Cut(endOffset)

\* The flags let one request of a kind be on its way; a reload is the end of
\* the loadNewLogs that caused it.
FlagInv ==
  /\ \A q, r \in Pending : q.kind = "initial" /\ r.kind = "initial" => q = r
  /\ \A q, r \in Pending : q.kind = "before" /\ r.kind = "before" => q = r
  /\ \A q, r \in Pending : {q.kind, r.kind} \subseteq {"after", "reload"} => q = r
  /\ \A r \in Pending : /\ r.kind = "before" => loadingBefore
                        /\ r.kind \in {"after", "reload"} => loadingAfter

\* Older lines are not asked for before the first range is shown.
FirstInv ==
  /\ hasMoreBefore => startOffset > 0
  /\ \A q, r \in Pending : r.kind = "initial" => ~hasMoreBefore /\ q.kind # "before"

\* What is shown starts at or before the last range of the file, and only
\* older lines move it up.
TopInv ==
  /\ startOffset <= TailStart
  /\ \A r \in Pending : r.kind = "before" => r.at <= startOffset
  /\ \A r \in Pending \intersect answered : r.kind = "reload" => startOffset <= r.start

\* Newer lines are asked for from the end of what is shown.
EndInv ==
  (~early \/ \E r \in Pending : r.kind = "initial") =>
    \A r \in Pending : r.kind # "reload" /\ (r.kind = "after" => r.at = endOffset)

\* Older lines from its start.
FitInv ==
  ~early => /\ \A r \in Pending : r.kind = "before" => r.at = startOffset
            /\ \A q, r \in Pending : q.kind = "initial" => r.kind # "after"
            /\ shown = <<>> => startOffset = endOffset

VInv == ViewInv /\ RecordInv /\ RangeInv /\ FlagInv /\ FirstInv /\ TopInv /\ EndInv /\ FitInv

\* A request is not its own answer.
LEMMA TwoRecords == \A q \in Request : q \notin Result
<1> SUFFICES ASSUME NEW q \in Request, q \in Result PROVE FALSE
  OBVIOUS
<1>1. DOMAIN q = {"kind", "seq", "at"}
  BY DEF Request
<1>2. DOMAIN q = {"kind", "seq", "at", "start", "end", "size"}
  BY DEF Result
<1>3. "size" \in {"kind", "seq", "at"}
  BY <1>1, <1>2
<1> QED BY <1>3

\* The last range is a part of the file.
LEMMA TailInFile == Lines => TailStart \in 0..fileSize
BY SizeIs, BackStartIs DEF TailStart

\* Nothing is shown, and nothing asked for, of an empty file.
LEMMA InitVInv == ViewInit => VInv
<1> SUFFICES ASSUME ViewInit PROVE VInv
  OBVIOUS
<1>1. Lines
  BY ViewBoundsAssumption DEF ViewInit, Lines
<1>2. ends = {} /\ fileSize = 0
  BY <1>1, SizeIs DEF ViewInit
<1>3. ViewTypeOK
  <2>1. DOMAIN shown = {} /\ seq \in 0..MaxSelects /\ lost \in 0..MaxLost
    BY ViewBoundsAssumption DEF ViewInit
  <2>2. startOffset \in 0..fileSize /\ endOffset \in 0..fileSize
    BY <1>2 DEF ViewInit
  <2>3. \A i \in DOMAIN shown : shown[i][1] < shown[i][2] /\ shown[i][2] <= fileSize
    BY <2>1
  <2> QED BY <2>1, <2>2, <2>3 DEF ViewInit, ViewTypeOK
<1>4. Tiled /\ LinesWhole
  BY DEF ViewInit, Tiled, LinesWhole
<1>5. TailStart >= 0
  BY <1>1, <1>2, TailInFile
<1>6. RecordInv /\ RangeInv /\ FlagInv /\ FirstInv /\ TopInv /\ EndInv /\ FitInv
  BY <1>5 DEF ViewInit, RecordInv, RangeInv, FlagInv, FirstInv, TopInv, EndInv, FitInv,
              Pending, Cut, CutIn
<1> QED BY <1>3, <1>4, <1>6 DEF VInv, ViewInv

\* What VInv says of numbers, for the steps below.
LEMMA Numbers ==
  ASSUME VInv
  PROVE  /\ Lines /\ fileSize \in Nat /\ seq \in Nat /\ startOffset \in Nat /\ endOffset \in Nat
         /\ startOffset <= fileSize /\ endOffset <= fileSize
         /\ MaxSize \in Nat /\ MaxSelects \in Nat /\ MaxLost \in Nat /\ lost \in Nat
         /\ TailStart \in 0..fileSize /\ fileSize <= MaxSize
         /\ \A r \in asked : r \in Request /\ r.at <= fileSize /\ r.at \in 0..fileSize
         /\ \A r \in answered : r \in Result /\ r.start <= r.end /\ r.end <= fileSize
         /\ \A r \in asked \union answered : r.seq \in Nat /\ r.seq <= seq
<1>1. Lines
  BY ViewBoundsAssumption DEF VInv, ViewInv, ViewTypeOK, Lines
<1>2. fileSize \in Nat /\ fileSize <= MaxSize
  BY <1>1, SizeIs, ViewBoundsAssumption
<1>3. TailStart \in 0..fileSize
  BY <1>1, TailInFile
<1>4. \A r \in answered : r \in Result /\ r.start <= r.end /\ r.end <= fileSize
  BY <1>2 DEF VInv, ViewInv, ViewTypeOK, RecordInv, Result
<1>5. \A r \in asked : r \in Request /\ r.at <= fileSize /\ r.at \in 0..fileSize
  BY <1>2 DEF VInv, ViewInv, ViewTypeOK, RecordInv, Request
<1>6. \A r \in asked \union answered : r.seq \in Nat /\ r.seq <= seq
  BY <1>4, <1>5 DEF VInv, RecordInv, Request, Result
<1>7. /\ seq \in Nat /\ startOffset \in Nat /\ endOffset \in Nat
      /\ startOffset <= fileSize /\ endOffset <= fileSize /\ lost \in Nat
  BY <1>2, ViewBoundsAssumption DEF VInv, ViewInv, ViewTypeOK
<1> QED BY <1>1, <1>2, <1>3, <1>4, <1>5, <1>6, <1>7, ViewBoundsAssumption

\* What is shown are ranges of the file.
LEMMA Shown ==
  ASSUME VInv
  PROVE  \A i \in DOMAIN shown :
           shown[i][1] \in 0..fileSize /\ shown[i][2] \in 0..fileSize
<1> SUFFICES ASSUME NEW i \in DOMAIN shown
             PROVE  shown[i][1] \in 0..fileSize /\ shown[i][2] \in 0..fileSize
  OBVIOUS
<1>1. shown[i] \in Nat \X Nat
  BY DEF VInv, RecordInv
<1>2. shown[i][1] < shown[i][2] /\ shown[i][2] <= fileSize
  BY DEF VInv, ViewInv, ViewTypeOK
<1> QED BY <1>1, <1>2, Numbers

\* The file is as it was: so are its last range and the places to cut.
LEMMA SameFile ==
  ASSUME ends' = ends
  PROVE  fileSize' = fileSize /\ TailStart' = TailStart /\ \A b : LongLine(b)' <=> LongLine(b)
BY DEF fileSize, TailStart, BackStart, LongLine

\* The file grows.
LEMMA LogLineInv == VInv /\ LogLine => VInv'
<1> SUFFICES ASSUME VInv, LogLine PROVE VInv'
  OBVIOUS
<1> USE Numbers
<1>1. PICK n \in LineLengths : fileSize + n <= MaxSize /\ ends' = ends \union {fileSize + n}
  BY DEF LogLine
<1> DEFINE m == fileSize + n
<1>2. m \in Nat /\ m > fileSize /\ m <= MaxSize /\ ends' = ends \union {m}
  BY <1>1, LimitAssumption
<1>3. fileSize' = m /\ Lines'
  BY <1>2, SizeGrows
<1>4. TailStart <= TailStart' /\ TailStart' \in Nat
  <2>1. BackIn(ends, fileSize) <= BackIn(ends', m)
    BY <1>2, TailGrows
  <2>2. TailStart = BackIn(ends, fileSize) /\ TailStart' = BackIn(ends', m)
    BY <1>3 DEF TailStart, BackStart
  <2>3. TailStart' \in Nat
    BY <1>2, <2>2, TailGrows
  <2> QED BY <2>1, <2>2, <2>3
<1>5. \A b \in 0..fileSize : CutIn(ends, b) => CutIn(ends', b)
  BY <1>2, CutStays DEF Cut
<1>6. UNCHANGED <<asked, answered, seq, view, loadingBefore, loadingAfter, early, lost>>
  BY DEF LogLine
<1>7. Pending' = Pending
  BY <1>6 DEF Pending
<1> HIDE DEF m
<1>8. ViewTypeOK'
  <2>1. fileSize <= fileSize' /\ fileSize' \in Nat /\ ends' \subseteq 1..MaxSize
    BY <1>2, <1>3 DEF Lines
  <2>2. \A r \in asked : /\ r.kind \in {"initial", "reload", "before", "after"}
                         /\ r.seq \in 0..seq /\ r.at \in 0..fileSize'
    BY <2>1 DEF VInv, ViewInv, ViewTypeOK
  <2>3. \A r \in answered : /\ 0 <= r.start /\ r.start <= r.end /\ r.end <= r.size
                            /\ r.size <= fileSize'
    <3>1. \A r \in answered : r.size \in Nat /\ r.size <= fileSize
      BY DEF VInv, ViewInv, ViewTypeOK, RecordInv, Result
    <3>2. \A r \in answered : r.size <= fileSize'
      BY <2>1, <3>1
    <3> QED BY <3>2 DEF VInv, ViewInv, ViewTypeOK
  <2>4. \A i \in DOMAIN shown : shown[i][1] < shown[i][2] /\ shown[i][2] <= fileSize'
    <3>1. \A i \in DOMAIN shown : shown[i][2] \in Nat /\ shown[i][2] <= fileSize
      BY DEF VInv, ViewInv, ViewTypeOK, RecordInv
    <3>2. \A i \in DOMAIN shown : shown[i][2] <= fileSize'
      BY <2>1, <3>1
    <3> QED BY <3>2 DEF VInv, ViewInv, ViewTypeOK
  <2>5. startOffset \in 0..fileSize' /\ endOffset \in 0..fileSize'
    BY <2>1
  <2> QED BY <1>6, <2>1, <2>2, <2>3, <2>4, <2>5 DEF VInv, ViewInv, ViewTypeOK, view
<1>9. Tiled' /\ RecordInv' /\ FlagInv' /\ FirstInv' /\ EndInv' /\ FitInv'
  BY <1>6, <1>7 DEF VInv, ViewInv, Tiled, RecordInv, FlagInv, FirstInv, EndInv, FitInv, view
<1>10. LinesWhole'
  <2>1. \A i \in DOMAIN shown : \A b \in {shown[i][1], shown[i][2]} : b \in 0..fileSize
    BY Shown
  <2>2. \A i \in DOMAIN shown : \A b \in {shown[i][1], shown[i][2]} : CutIn(ends, b)
    BY DEF VInv, ViewInv, LinesWhole, CutIn, LongLine
  <2>3. \A i \in DOMAIN shown : \A b \in {shown[i][1], shown[i][2]} : CutIn(ends', b)
    BY <1>5, <2>1, <2>2
  <2> QED BY <1>6, <2>3 DEF LinesWhole, CutIn, LongLine, view
<1>11. RangeInv'
  BY <1>4, <1>5, <1>6 DEF VInv, RangeInv, view, Cut, Result
<1>12. TopInv'
  BY <1>4, <1>6, <1>7 DEF VInv, TopInv, view
<1> QED BY <1>8, <1>9, <1>10, <1>11, <1>12 DEF VInv, ViewInv

\* A file is selected: what was asked before is of an older selection.
LEMMA SelectFileInv == VInv /\ SelectFile => VInv'
<1> SUFFICES ASSUME VInv, SelectFile PROVE VInv'
  OBVIOUS
<1> USE Numbers
<1> DEFINE new == [kind |-> "initial", seq |-> seq + 1, at |-> 0]
<1>1. /\ seq < MaxSelects /\ seq' = seq + 1 /\ asked' = asked \union {new}
      /\ shown' = <<>> /\ startOffset' = 0 /\ endOffset' = 0 /\ hasMoreBefore' = FALSE
      /\ loadingBefore' = FALSE /\ loadingAfter' = FALSE /\ early' = FALSE
      /\ ends' = ends /\ answered' = answered /\ lost' = lost
  BY DEF SelectFile
<1>2. fileSize' = fileSize /\ TailStart' = TailStart
  BY <1>1, SameFile
<1>3. new \in Request /\ new.kind = "initial" /\ new.seq = seq + 1 /\ new.at = 0
  BY DEF Request, Kind
<1> HIDE DEF new
<1>4. Pending' = {new}
  BY <1>1, <1>3 DEF Pending
<1>5. ViewTypeOK'
  <2>1. DOMAIN shown' = {}
    BY <1>1
  <2>2. 0 \in 0..fileSize /\ new.seq \in 0..seq' /\ seq' \in 0..MaxSelects
    BY <1>1, <1>3
  <2>3. \A r \in asked : r.seq \in 0..seq'
    BY <1>1
  <2> QED BY <1>1, <1>2, <1>3, <2>1, <2>2, <2>3 DEF VInv, ViewInv, ViewTypeOK
<1>6. Tiled' /\ LinesWhole'
  BY <1>1 DEF Tiled, LinesWhole
<1>7. RecordInv'
  BY <1>1, <1>3 DEF VInv, RecordInv
<1>8. RangeInv'
  BY <1>1, <1>2, <1>3 DEF VInv, RangeInv, Cut, CutIn
<1>9. FlagInv' /\ FirstInv' /\ TopInv' /\ EndInv' /\ FitInv'
  BY <1>1, <1>2, <1>3, <1>4 DEF FlagInv, FirstInv, TopInv, EndInv, FitInv
<1> QED BY <1>5, <1>6, <1>7, <1>8, <1>9 DEF VInv, ViewInv

\* Older lines are asked for, from the start of what is shown.
LEMMA LoadOlderInv == VInv /\ LoadOlderLogs => VInv'
<1> SUFFICES ASSUME VInv, LoadOlderLogs PROVE VInv'
  OBVIOUS
<1> USE Numbers
<1> DEFINE new == [kind |-> "before", seq |-> seq, at |-> startOffset]
<1>1. /\ ~loadingBefore /\ hasMoreBefore /\ loadingBefore' = TRUE
      /\ asked' = asked \union {new} /\ ends' = ends /\ answered' = answered /\ seq' = seq
      /\ shown' = shown /\ startOffset' = startOffset /\ endOffset' = endOffset
      /\ hasMoreBefore' = hasMoreBefore /\ loadingAfter' = loadingAfter
      /\ early' = early /\ lost' = lost
  BY DEF LoadOlderLogs, Ask, view
<1>2. fileSize' = fileSize /\ TailStart' = TailStart
  BY <1>1, SameFile
<1>3. new \in Request /\ new.kind = "before" /\ new.seq = seq /\ new.at = startOffset
  BY DEF Request, Kind
<1> HIDE DEF new
<1>4. Pending' = Pending \union {new}
  BY <1>1, <1>3 DEF Pending
<1>5. startOffset > 0 /\ \A r \in Pending : r.kind # "initial" /\ r.kind # "before"
  BY <1>1 DEF VInv, FirstInv, FlagInv
<1>6. ViewTypeOK'
  BY <1>1, <1>2, <1>3 DEF VInv, ViewInv, ViewTypeOK
<1>7. Tiled' /\ LinesWhole'
  BY <1>1 DEF VInv, ViewInv, Tiled, LinesWhole, LongLine
<1>8. RecordInv'
  BY <1>1, <1>3 DEF VInv, RecordInv
<1>9. RangeInv'
  BY <1>1, <1>2, <1>3, <1>5 DEF VInv, RangeInv, Cut, CutIn
<1>10. FlagInv' /\ FirstInv'
  BY <1>1, <1>3, <1>4, <1>5 DEF VInv, FlagInv, FirstInv
<1>11. new \notin answered
  BY <1>3, TwoRecords
<1>12. TopInv' /\ EndInv' /\ FitInv'
  BY <1>1, <1>2, <1>3, <1>4, <1>5, <1>11 DEF VInv, TopInv, EndInv, FitInv
<1> QED BY <1>6, <1>7, <1>8, <1>9, <1>10, <1>12 DEF VInv, ViewInv

\* Newer lines are asked for, from its end.
LEMMA LoadNewInv == VInv /\ LoadNewLogs => VInv'
<1> SUFFICES ASSUME VInv, LoadNewLogs PROVE VInv'
  OBVIOUS
<1> USE Numbers
<1> DEFINE new == [kind |-> "after", seq |-> seq, at |-> endOffset]
<1>1. /\ ~loadingAfter /\ loadingAfter' = TRUE
      /\ asked' = asked \union {new} /\ ends' = ends /\ answered' = answered /\ seq' = seq
      /\ shown' = shown /\ startOffset' = startOffset /\ endOffset' = endOffset
      /\ hasMoreBefore' = hasMoreBefore /\ loadingBefore' = loadingBefore
      /\ early' = (early \/ Loading) /\ lost' = lost
  BY DEF LoadNewLogs, Ask, view
<1>2. fileSize' = fileSize /\ TailStart' = TailStart
  BY <1>1, SameFile
<1>3. new \in Request /\ new.kind = "after" /\ new.seq = seq /\ new.at = endOffset
  BY DEF Request, Kind
<1> HIDE DEF new
<1>4. Pending' = Pending \union {new}
  BY <1>1, <1>3 DEF Pending
<1>5. \A r \in Pending : r.kind # "after" /\ r.kind # "reload"
  BY <1>1 DEF VInv, FlagInv
<1>6. ~early' => ~early /\ \A r \in Pending : r.kind # "initial"
  BY <1>1 DEF Loading, Pending
<1>7. ViewTypeOK'
  BY <1>1, <1>2, <1>3 DEF VInv, ViewInv, ViewTypeOK
<1>8. Tiled' /\ LinesWhole'
  BY <1>1, <1>6 DEF VInv, ViewInv, Tiled, LinesWhole, LongLine
<1>9. RecordInv'
  BY <1>1, <1>3 DEF VInv, RecordInv
<1>10. RangeInv'
  BY <1>1, <1>2, <1>3 DEF VInv, RangeInv, Cut, CutIn
<1>11. FlagInv' /\ FirstInv'
  BY <1>1, <1>3, <1>4, <1>5 DEF VInv, FlagInv, FirstInv
<1>12. new \notin answered
  BY <1>3, TwoRecords
<1>13. TopInv' /\ EndInv' /\ FitInv'
  BY <1>1, <1>2, <1>3, <1>4, <1>5, <1>6, <1>12 DEF VInv, TopInv, EndInv, FitInv
<1> QED BY <1>7, <1>8, <1>9, <1>10, <1>11, <1>13 DEF VInv, ViewInv

\* A request is answered with a range of the file as it is.
LEMMA AnswerInv == VInv /\ (\E r \in asked : Answer(r)) => VInv'
<1> SUFFICES ASSUME VInv, NEW r \in asked, Answer(r) PROVE VInv'
  OBVIOUS
<1> USE Numbers
<1> DEFINE g == LineRange(r)
           new == [kind |-> r.kind, seq |-> r.seq, at |-> r.at,
                   start |-> g[1], end |-> g[2], size |-> fileSize]
<1>1. /\ r.seq = seq /\ asked' = asked \ {r} /\ answered' = answered \union {new}
      /\ ends' = ends /\ seq' = seq /\ shown' = shown /\ startOffset' = startOffset
      /\ endOffset' = endOffset /\ hasMoreBefore' = hasMoreBefore
      /\ loadingBefore' = loadingBefore /\ loadingAfter' = loadingAfter
      /\ early' = early /\ lost' = lost
  BY DEF Answer, view
<1>2. fileSize' = fileSize /\ TailStart' = TailStart
  BY <1>1, SameFile
<1>3. r.kind \in Kind /\ r.at \in 0..fileSize /\ r.seq \in Nat
  BY DEF Request
<1>4. r.kind = "after" => g[1] = r.at /\ g[2] \in r.at..fileSize /\ Cut(g[2])
  BY <1>3, AfterRange
<1>5. r.kind = "before" => g[2] = r.at /\ g[1] \in 0..r.at /\ g[1] < r.at /\ Cut(g[1])
  <2> SUFFICES ASSUME r.kind = "before"
               PROVE  g[2] = r.at /\ g[1] \in 0..r.at /\ g[1] < r.at /\ Cut(g[1])
    OBVIOUS
  <2>1. g = <<BackStart(r.at), r.at>>
    BY <1>3, BackRange
  <2>2. r.at > 0
    BY DEF VInv, RangeInv
  <2>3. /\ BackStart(r.at) \in 0..r.at /\ BackStart(r.at) < r.at /\ Cut(BackStart(r.at))
    BY <1>3, <2>2, BackStartIs
  <2> QED BY <2>1, <2>3
<1>6. r.kind \in {"initial", "reload"} =>
        /\ g[2] = fileSize /\ g[1] = TailStart /\ Cut(g[1])
        /\ (g[1] = g[2] => g[1] = 0)
  <2> SUFFICES ASSUME r.kind \in {"initial", "reload"}
               PROVE  /\ g[2] = fileSize /\ g[1] = TailStart /\ Cut(g[1])
                      /\ (g[1] = g[2] => g[1] = 0)
    OBVIOUS
  <2>1. g = <<BackStart(fileSize), fileSize>>
    BY BackRange
  <2>2. /\ BackStart(fileSize) \in 0..fileSize /\ Cut(BackStart(fileSize))
        /\ (fileSize > 0 => BackStart(fileSize) < fileSize)
    BY BackStartIs
  <2> QED BY <2>1, <2>2 DEF TailStart
<1>7. g[1] \in Nat /\ g[2] \in Nat /\ g[1] <= g[2] /\ g[2] <= fileSize
  BY <1>3, <1>4, <1>5, <1>6 DEF Kind
<1>8. Cut(r.at) /\ Cut(fileSize) /\ Cut(g[1]) /\ Cut(g[2])
  <2>1. Cut(r.at)
    BY DEF VInv, RangeInv
  <2>2. Cut(fileSize)
    BY SizeIs DEF Cut, CutIn
  <2> QED BY <1>3, <1>4, <1>5, <1>6, <2>1, <2>2 DEF Kind
<1>9. /\ new \in Result /\ new.kind = r.kind /\ new.seq = seq /\ new.at = r.at
      /\ new.start = g[1] /\ new.end = g[2] /\ new.size = fileSize
  BY <1>1, <1>3, <1>7 DEF Result
<1>10. r \notin answered /\ new \notin asked
  BY <1>9, TwoRecords
<1> HIDE DEF new, g
<1>11. /\ Pending' = (Pending \ {r}) \union {new} /\ r \in Pending
  BY <1>1, <1>9, <1>10 DEF Pending
<1>12. ViewTypeOK'
  BY <1>1, <1>2, <1>7, <1>9 DEF VInv, ViewInv, ViewTypeOK
<1>13. Tiled' /\ LinesWhole'
  BY <1>1 DEF VInv, ViewInv, Tiled, LinesWhole, LongLine
<1>14. RecordInv'
  BY <1>1, <1>9 DEF VInv, RecordInv
<1>15. RangeInv'
  <2>1. \A b : Cut(b)' <=> Cut(b)
    BY <1>1 DEF Cut, CutIn
  <2>2. /\ Cut(new.start) /\ Cut(new.end)
        /\ new.kind = "after" => new.start = new.at
        /\ new.kind = "before" => new.end = new.at /\ new.start < new.end
        /\ new.kind \in {"initial", "reload"} =>
             new.start <= TailStart /\ (new.start = new.end => new.start = 0)
    BY <1>4, <1>5, <1>6, <1>8, <1>9
  <2> QED BY <1>1, <1>2, <2>2 DEF VInv, RangeInv, Cut
<1>16. FlagInv' /\ FirstInv'
  BY <1>1, <1>9, <1>11 DEF VInv, FlagInv, FirstInv
<1>17. TopInv'
  BY <1>1, <1>2, <1>6, <1>9, <1>11 DEF VInv, TopInv
<1>18. EndInv' /\ FitInv'
  BY <1>1, <1>9, <1>11 DEF VInv, EndInv, FitInv
<1> QED BY <1>12, <1>13, <1>14, <1>15, <1>16, <1>17, <1>18 DEF VInv, ViewInv

\* A request fails, and an answer comes too late: there are fewer of them.
LEMMA FewerInv ==
  ASSUME VInv, asked' \subseteq asked, answered' \subseteq answered, ends' = ends, seq' = seq,
         UNCHANGED <<view, early>>, lost' \in 0..MaxLost,
         loadingBefore' \in BOOLEAN, loadingAfter' \in BOOLEAN,
         loadingBefore /\ ~loadingBefore' => \A r \in Pending' : r.kind # "before",
         loadingAfter /\ ~loadingAfter' => \A r \in Pending' : r.kind \notin {"after", "reload"}
  PROVE  VInv'
<1> USE Numbers
<1>1. fileSize' = fileSize /\ TailStart' = TailStart
  BY SameFile
<1>2. /\ shown' = shown /\ startOffset' = startOffset /\ endOffset' = endOffset
      /\ hasMoreBefore' = hasMoreBefore /\ early' = early
  BY DEF view
<1>3. Pending' \subseteq Pending
  BY DEF Pending
<1>4. ViewTypeOK'
  BY <1>1, <1>2 DEF VInv, ViewInv, ViewTypeOK
<1>5. Tiled' /\ LinesWhole'
  <2>1. Tiled'
    BY <1>2 DEF VInv, ViewInv, Tiled
  <2>2. ends' = ends /\ shown' = shown
    BY <1>2
  <2>3. LinesWhole'
    BY <2>2 DEF VInv, ViewInv, LinesWhole, LongLine
  <2> QED BY <2>1, <2>3
<1>6. RecordInv'
  BY <1>2 DEF VInv, RecordInv
<1>7. RangeInv'
  BY <1>1, <1>2 DEF VInv, RangeInv, Cut
<1>8. FlagInv'
  BY <1>3 DEF VInv, FlagInv, ViewInv, ViewTypeOK
<1>9. FirstInv' /\ TopInv' /\ EndInv' /\ FitInv'
  BY <1>1, <1>2, <1>3 DEF VInv, FirstInv, TopInv, EndInv, FitInv
<1> QED BY <1>4, <1>5, <1>6, <1>7, <1>8, <1>9 DEF VInv, ViewInv

\* A request fails.
LEMMA FailInv == VInv /\ (\E r \in asked : Fail(r)) => VInv'
<1> SUFFICES ASSUME VInv, NEW r \in asked, Fail(r) PROVE VInv'
  OBVIOUS
<1> USE Numbers
<1>1. /\ lost < MaxLost /\ lost' = lost + 1 /\ r.seq = seq /\ asked' = asked \ {r}
      /\ loadingBefore' = (loadingBefore /\ r.kind # "before")
      /\ loadingAfter' = (loadingAfter /\ r.kind \notin {"after", "reload"})
      /\ UNCHANGED <<ends, answered, seq, view, early>>
  BY DEF Fail
<1>2. lost' \in 0..MaxLost
  BY <1>1
<1>3. r \in Pending /\ r \notin answered
  BY <1>1, TwoRecords DEF Pending
<1>4. Pending' = Pending \ {r}
  BY <1>1, <1>3 DEF Pending
<1>5. loadingBefore /\ ~loadingBefore' => \A q \in Pending' : q.kind # "before"
  BY <1>1, <1>3, <1>4 DEF VInv, FlagInv
<1>6. loadingAfter /\ ~loadingAfter' => \A q \in Pending' : q.kind \notin {"after", "reload"}
  BY <1>1, <1>3, <1>4 DEF VInv, FlagInv
<1>7. loadingBefore' \in BOOLEAN /\ loadingAfter' \in BOOLEAN
  BY <1>1
<1> QED BY <1>1, <1>2, <1>5, <1>6, <1>7, FewerInv

\* An answer of an older selection.
LEMMA IgnoreInv == VInv /\ (\E r \in asked \union answered : Ignore(r)) => VInv'
<1> SUFFICES ASSUME VInv, NEW r \in asked \union answered, Ignore(r) PROVE VInv'
  OBVIOUS
<1>1. /\ asked' = asked \ {r} /\ answered' = answered \ {r} /\ loadingBefore' = loadingBefore
      /\ loadingAfter' = loadingAfter
      /\ UNCHANGED <<ends, seq, early, lost, view>>
  BY DEF Ignore, Rest
<1>2. /\ loadingBefore \in BOOLEAN /\ loadingAfter \in BOOLEAN /\ lost \in 0..MaxLost
  BY DEF VInv, ViewInv, ViewTypeOK
<1> QED BY <1>1, <1>2, FewerInv

\* What remains when an answer is taken in.
LEMMA TakenIs ==
  ASSUME VInv, NEW r \in answered, r.seq = seq, answered' = answered \ {r}, asked' = asked,
         seq' = seq
  PROVE  r \in Pending /\ Pending' = Pending \ {r} /\ r \in Result
<1>1. r \in Result /\ r \notin asked
  BY TwoRecords DEF VInv, RecordInv
<1> QED BY <1>1 DEF Pending

\* The ranges of s lead from a to b without a gap.
Tiles(s, a, b) ==
  s # <<>> => /\ s[1][1] = a /\ s[Len(s)][2] = b
              /\ \A i \in 1..(Len(s) - 1) : s[i][2] = s[i + 1][1]

\* What is shown after an answer: s, then t.
LEMMA JoinIs ==
  ASSUME NEW s \in Seq(Nat \X Nat), NEW t \in Seq(Nat \X Nat)
  PROVE  /\ s \o t \in Seq(Nat \X Nat) /\ Len(s \o t) = Len(s) + Len(t)
         /\ Len(s) \in Nat /\ Len(t) \in Nat
         /\ \A i \in 1..Len(s) : (s \o t)[i] = s[i]
         /\ \A i \in 1..Len(t) : (s \o t)[i + Len(s)] = t[i]
         /\ \A i \in 1..(Len(s) + Len(t)) :
              \/ i \in 1..Len(s)
              \/ i - Len(s) \in 1..Len(t) /\ (s \o t)[i] = t[i - Len(s)]
OBVIOUS

\* Its ranges are those of s and those of t.
LEMMA JoinHas ==
  ASSUME NEW s \in Seq(Nat \X Nat), NEW t \in Seq(Nat \X Nat), NEW i \in DOMAIN (s \o t)
  PROVE  \/ \E j \in DOMAIN s : (s \o t)[i] = s[j]
         \/ \E j \in DOMAIN t : (s \o t)[i] = t[j]
<1>1. DOMAIN (s \o t) = 1..(Len(s) + Len(t)) /\ DOMAIN s = 1..Len(s) /\ DOMAIN t = 1..Len(t)
  BY JoinIs
<1>2. i \in 1..Len(s) \/ (i - Len(s) \in 1..Len(t) /\ (s \o t)[i] = t[i - Len(s)])
  BY <1>1, JoinIs
<1>3. i \in 1..Len(s) => (s \o t)[i] = s[i]
  BY JoinIs
<1> QED BY <1>1, <1>2, <1>3

\* Two stretches that meet are one.
LEMMA JoinTiles ==
  ASSUME NEW s \in Seq(Nat \X Nat), NEW t \in Seq(Nat \X Nat), NEW a, NEW m, NEW b,
         Tiles(s, a, m), Tiles(t, m, b), s = <<>> => a = m, t = <<>> => m = b
  PROVE  Tiles(s \o t, a, b)
<1> DEFINE w == s \o t
           k == Len(s)
           l == Len(t)
<1>1. /\ w \in Seq(Nat \X Nat) /\ Len(w) = k + l /\ k \in Nat /\ l \in Nat
      /\ \A i \in 1..k : w[i] = s[i]
      /\ \A i \in 1..l : w[i + k] = t[i]
  BY JoinIs
<1>2. (k = 0 <=> s = <<>>) /\ (l = 0 <=> t = <<>>) /\ (w = <<>> <=> Len(w) = 0)
  BY <1>1
<1> HIDE DEF w, k, l
<1>3. k > 0 => s[1][1] = a /\ s[k][2] = m /\ \A i \in 1..(k - 1) : s[i][2] = s[i + 1][1]
  BY <1>2 DEF Tiles, k
<1>4. l > 0 => t[1][1] = m /\ t[l][2] = b /\ \A i \in 1..(l - 1) : t[i][2] = t[i + 1][1]
  BY <1>2 DEF Tiles, l
<1>5. (k = 0 => a = m) /\ (l = 0 => m = b)
  BY <1>2
<1> SUFFICES ASSUME w # <<>>
             PROVE  /\ w[1][1] = a /\ w[Len(w)][2] = b
                    /\ \A i \in 1..(Len(w) - 1) : w[i][2] = w[i + 1][1]
  BY DEF Tiles, w
<1>11. Len(w) = k + l /\ k + l > 0
  BY <1>1, <1>2
<1>6. k > 0 => w[1] = s[1] /\ w[k] = s[k]
  BY <1>1
<1>7. l > 0 => w[k + 1] = t[1] /\ w[k + l] = t[l]
  <2> SUFFICES ASSUME l > 0 PROVE w[k + 1] = t[1] /\ w[k + l] = t[l]
    OBVIOUS
  <2>1. w[1 + k] = t[1] /\ w[l + k] = t[l]
    BY <1>1
  <2>2. 1 + k = k + 1 /\ l + k = k + l
    BY <1>1
  <2> QED BY <2>1, <2>2
<1>8. w[1][1] = a
  <2>1. CASE k > 0
    BY <1>3, <1>6, <2>1
  <2>2. CASE k = 0
    <3>1. l > 0 /\ k + 1 = 1
      BY <1>1, <1>11, <2>2
    <3> QED BY <1>4, <1>5, <1>7, <2>2, <3>1
  <2> QED BY <1>1, <2>1, <2>2
<1>9. w[k + l][2] = b
  <2>1. CASE l > 0
    BY <1>4, <1>7, <2>1
  <2>2. CASE l = 0
    <3>1. k > 0 /\ k + l = k
      BY <1>1, <1>11, <2>2
    <3> QED BY <1>3, <1>5, <1>6, <2>2, <3>1
  <2> QED BY <1>1, <2>1, <2>2
<1>10. \A i \in 1..((k + l) - 1) : w[i][2] = w[i + 1][1]
  <2> SUFFICES ASSUME NEW i \in 1..((k + l) - 1) PROVE w[i][2] = w[i + 1][1]
    OBVIOUS
  <2>1. CASE i < k
    <3>1. i \in 1..k /\ i + 1 \in 1..k /\ i \in 1..(k - 1) /\ k > 0
      BY <1>1, <2>1
    <3>2. w[i] = s[i] /\ w[i + 1] = s[i + 1]
      BY <1>1, <3>1
    <3> QED BY <1>3, <3>1, <3>2
  <2>2. CASE i = k
    <3>1. k > 0 /\ l > 0
      BY <1>1, <2>2
    <3> QED BY <1>3, <1>4, <1>6, <1>7, <2>2, <3>1
  <2>3. CASE i > k
    <3> DEFINE j == i - k
    <3>1. j \in 1..(l - 1) /\ j \in 1..l /\ j + 1 \in 1..l /\ l > 0
      BY <1>1, <2>3
    <3>2. w[j + k] = t[j] /\ w[(j + 1) + k] = t[j + 1]
      BY <1>1, <3>1
    <3>3. j + k = i /\ (j + 1) + k = i + 1
      BY <1>1
    <3>4. t[j][2] = t[j + 1][1]
      BY <1>4, <3>1
    <3> HIDE DEF j
    <3> QED BY <3>2, <3>3, <3>4
  <2> QED BY <1>1, <2>1, <2>2, <2>3
<1>12. w[Len(w)][2] = b /\ \A i \in 1..(Len(w) - 1) : w[i][2] = w[i + 1][1]
  BY <1>9, <1>10, <1>11
<1> QED BY <1>8, <1>12

\* The piece that an answer adds.
LEMMA PieceIs ==
  ASSUME NEW r \in Result
  PROVE  /\ Piece(r) \in Seq(Nat \X Nat)
         /\ r.start < r.end => Len(Piece(r)) = 1 /\ Piece(r)[1] = <<r.start, r.end>>
         /\ ~(r.start < r.end) => Piece(r) = <<>> /\ Len(Piece(r)) = 0
<1> DEFINE x == <<r.start, r.end>>
<1>1. x \in Nat \X Nat
  BY DEF Result
<1>2. Piece(r) = IF r.start < r.end THEN <<x>> ELSE <<>>
  BY DEF Piece
<1> HIDE DEF x
<1>3. <<x>> \in Seq(Nat \X Nat) /\ Len(<<x>>) = 1 /\ <<x>>[1] = x
  BY <1>1
<1>4. <<>> \in Seq(Nat \X Nat) /\ Len(<<>>) = 0
  OBVIOUS
<1>5. CASE r.start < r.end
  <2>1. Piece(r) = <<x>>
    BY <1>2, <1>5
  <2> QED BY <1>3, <1>5, <2>1 DEF x
<1>6. CASE ~(r.start < r.end)
  <2>1. Piece(r) = <<>>
    BY <1>2, <1>6
  <2> QED BY <1>4, <1>6, <2>1
<1> QED BY <1>5, <1>6

\* It is one stretch.
LEMMA PieceTiles ==
  ASSUME NEW r \in Result
  PROVE  Tiles(Piece(r), r.start, r.end)
<1> DEFINE p == Piece(r)
           x == <<r.start, r.end>>
<1>1. x[1] = r.start /\ x[2] = r.end
  OBVIOUS
<1>2. r.start < r.end => Len(p) = 1 /\ p[1] = x
  BY PieceIs
<1>3. ~(r.start < r.end) => p = <<>>
  BY PieceIs
<1> HIDE DEF p, x
<1>4. Tiles(p, r.start, r.end)
  BY <1>1, <1>2, <1>3 DEF Tiles
<1> QED BY <1>4 DEF p

\* The first range is shown, or all that is shown is replaced.
LEMMA ShowInitialInv == VInv /\ (\E r \in answered : ShowInitial(r)) => VInv'
<1> SUFFICES ASSUME VInv, NEW r \in answered, ShowInitial(r) PROVE VInv'
  OBVIOUS
<1> USE Numbers
<1>1. /\ r.kind \in {"initial", "reload"} /\ r.seq = seq /\ answered' = answered \ {r}
      /\ shown' = Piece(r) /\ startOffset' = r.start /\ endOffset' = r.end
      /\ hasMoreBefore' = (r.start > 0) /\ loadingAfter' = (loadingAfter /\ r.kind = "initial")
      /\ ends' = ends /\ seq' = seq /\ early' = early /\ lost' = lost /\ asked' = asked
      /\ loadingBefore' = loadingBefore
  BY DEF ShowInitial, Arrives, Rest
<1>2. fileSize' = fileSize /\ TailStart' = TailStart
  BY <1>1, SameFile
<1>3. r \in Pending /\ Pending' = Pending \ {r} /\ r \in Result
  BY <1>1, TakenIs
<1>4. /\ Cut(r.start) /\ Cut(r.end) /\ r.start <= TailStart
      /\ r.start = r.end => r.start = 0
  BY <1>1 DEF VInv, RangeInv
<1>5. r.start \in 0..fileSize /\ r.end \in 0..fileSize /\ r.start <= r.end
  BY <1>3 DEF Result
<1>6. /\ Piece(r) \in Seq(Nat \X Nat)
      /\ r.start < r.end => Len(Piece(r)) = 1 /\ Piece(r)[1] = <<r.start, r.end>>
      /\ ~(r.start < r.end) => Piece(r) = <<>> /\ Len(Piece(r)) = 0
  BY <1>3, PieceIs
<1>7. \A i \in DOMAIN shown' : i = 1 /\ shown'[1] = <<r.start, r.end>> /\ r.start < r.end
  <2>1. r.start < r.end => DOMAIN shown' = {1} /\ shown'[1] = <<r.start, r.end>>
    BY <1>1, <1>6
  <2>2. ~(r.start < r.end) => DOMAIN shown' = {}
    BY <1>1, <1>6
  <2> QED BY <2>1, <2>2
<1>8. ViewTypeOK'
  <2>1. \A i \in DOMAIN shown' : shown'[i][1] < shown'[i][2] /\ shown'[i][2] <= fileSize'
    BY <1>2, <1>5, <1>7
  <2> QED BY <1>1, <1>2, <1>5, <2>1 DEF VInv, ViewInv, ViewTypeOK
<1>9. Tiled'
  <2>1. Tiles(Piece(r), r.start, r.end)
    BY <1>3, PieceTiles
  <2> QED BY <1>1, <2>1 DEF Tiled, Tiles
<1>10. LinesWhole'
  <2>1. \A b : LongLine(b)' <=> LongLine(b)
    BY <1>1, SameFile
  <2>2. \A b \in {r.start, r.end} : b \in ends \union {0} \/ LongLine(b)
    BY <1>4 DEF Cut, CutIn, LongLine
  <2>3. \A b \in {r.start, r.end} : b \in ends' \union {0} \/ LongLine(b)'
    BY <1>1, <2>1, <2>2
  <2>4. \A i \in DOMAIN shown' : shown'[i][1] = r.start /\ shown'[i][2] = r.end
    BY <1>7
  <2> QED BY <2>3, <2>4 DEF LinesWhole
<1>11. RecordInv'
  BY <1>1, <1>6 DEF VInv, RecordInv
<1>12. RangeInv'
  BY <1>1, <1>2, <1>4 DEF VInv, RangeInv, Cut
<1>13. FlagInv'
  BY <1>1, <1>3 DEF VInv, FlagInv, ViewInv, ViewTypeOK
<1>14. \A q \in Pending' : q.kind # "initial"
  BY <1>1, <1>3 DEF VInv, FlagInv, EndInv
<1>15. FirstInv'
  BY <1>1, <1>3, <1>5, <1>14 DEF VInv, FirstInv
<1>16. r.kind = "initial" => \A q \in Pending : q.kind # "reload" /\ q.kind # "before"
  BY <1>1, <1>3 DEF VInv, EndInv, FirstInv
<1>17. TopInv'
  <2>1. startOffset' <= TailStart'
    BY <1>1, <1>2, <1>4
  <2>2. \A q \in Pending' : q.kind = "before" => q.at <= startOffset'
    <3> SUFFICES ASSUME NEW q \in Pending, q.kind = "before" PROVE q.at <= r.start
      BY <1>1, <1>3
    <3>1. r.kind = "reload"
      BY <1>1, <1>16
    <3>2. startOffset <= r.start /\ q.at <= startOffset
      BY <1>3, <3>1 DEF VInv, TopInv
    <3>3. q.at \in Nat
      BY DEF Pending, Request, Result
    <3> QED BY <1>5, <3>2, <3>3
  <2>3. \A q \in Pending' : q.kind # "reload"
    BY <1>1, <1>3, <1>16 DEF VInv, FlagInv
  <2> QED BY <2>1, <2>2, <2>3 DEF TopInv
<1>18. EndInv' /\ FitInv'
  BY <1>1, <1>3, <1>4, <1>5, <1>6, <1>14, <1>16 DEF VInv, EndInv, FitInv
<1> QED BY <1>8, <1>9, <1>10, <1>11, <1>12, <1>13, <1>15, <1>17, <1>18 DEF VInv, ViewInv

\* Older lines are put before what is shown.
LEMMA PrependInv == VInv /\ (\E r \in answered : PrependLogLines(r)) => VInv'
<1> SUFFICES ASSUME VInv, NEW r \in answered, PrependLogLines(r) PROVE VInv'
  OBVIOUS
<1> USE Numbers
<1>1. /\ r.kind = "before" /\ r.seq = seq /\ answered' = answered \ {r}
      /\ shown' = Piece(r) \o shown /\ startOffset' = r.start /\ endOffset' = endOffset
      /\ hasMoreBefore' = (r.start > 0) /\ loadingBefore' = FALSE
      /\ ends' = ends /\ seq' = seq /\ early' = early /\ lost' = lost /\ asked' = asked
      /\ loadingAfter' = loadingAfter
  BY DEF PrependLogLines, Arrives, Rest
<1>2. fileSize' = fileSize /\ TailStart' = TailStart
  BY <1>1, SameFile
<1>3. r \in Pending /\ Pending' = Pending \ {r} /\ r \in Result
  BY <1>1, TakenIs
<1>4. /\ Cut(r.start) /\ Cut(r.end) /\ r.end = r.at /\ r.start < r.end
  BY <1>1 DEF VInv, RangeInv
<1>5. /\ r.start \in 0..fileSize /\ r.end \in 0..fileSize /\ r.at \in Nat
      /\ r.at <= startOffset /\ r.start < startOffset
  <2>1. r.at <= startOffset
    BY <1>1, <1>3 DEF VInv, TopInv
  <2>2. r.start \in Nat /\ r.end \in Nat /\ r.at \in Nat
    BY <1>3 DEF Result
  <2> QED BY <1>4, <2>1, <2>2
<1>6. /\ Piece(r) \in Seq(Nat \X Nat) /\ shown \in Seq(Nat \X Nat)
      /\ Len(Piece(r)) = 1 /\ Piece(r)[1] = <<r.start, r.end>>
      /\ Tiles(Piece(r), r.start, r.end)
  BY <1>3, <1>4, PieceIs, PieceTiles DEF VInv, RecordInv
<1>7. shown' \in Seq(Nat \X Nat) /\ Len(shown') = 1 + Len(shown) /\ Len(shown) \in Nat
  <2>1. /\ shown' \in Seq(Nat \X Nat) /\ Len(shown') = Len(Piece(r)) + Len(shown)
        /\ Len(shown) \in Nat
    BY <1>1, <1>6, JoinIs
  <2> QED BY <1>6, <2>1
<1>8. \A i \in DOMAIN shown' : \/ shown'[i] = <<r.start, r.end>>
                               \/ \E j \in DOMAIN shown : shown'[i] = shown[j]
  <2>1. DOMAIN Piece(r) = {1}
    BY <1>6
  <2> SUFFICES ASSUME NEW i \in DOMAIN shown'
               PROVE  \/ shown'[i] = <<r.start, r.end>>
                      \/ \E j \in DOMAIN shown : shown'[i] = shown[j]
    OBVIOUS
  <2>2. \/ \E j \in DOMAIN Piece(r) : shown'[i] = Piece(r)[j]
        \/ \E j \in DOMAIN shown : shown'[i] = shown[j]
    BY <1>1, <1>6, JoinHas
  <2> QED BY <1>6, <2>1, <2>2
<1>9. ViewTypeOK'
  <2>1. \A i \in DOMAIN shown' : shown'[i][1] < shown'[i][2] /\ shown'[i][2] <= fileSize'
    <3>1. \A j \in DOMAIN shown : shown[j][1] < shown[j][2] /\ shown[j][2] <= fileSize'
      BY <1>2 DEF VInv, ViewInv, ViewTypeOK
    <3>2. r.start < r.end /\ r.end <= fileSize'
      BY <1>2, <1>4, <1>5
    <3> SUFFICES ASSUME NEW i \in DOMAIN shown'
                 PROVE  shown'[i][1] < shown'[i][2] /\ shown'[i][2] <= fileSize'
      OBVIOUS
    <3>3. CASE shown'[i] = <<r.start, r.end>>
      BY <3>2, <3>3
    <3>4. CASE \E j \in DOMAIN shown : shown'[i] = shown[j]
      BY <3>1, <3>4
    <3> QED BY <1>8, <3>3, <3>4
  <2>2. hasMoreBefore' \in BOOLEAN /\ loadingBefore' \in BOOLEAN
    <3>1. hasMoreBefore' = (r.start > 0) /\ loadingBefore' = FALSE
      BY <1>1
    <3>2. (r.start > 0) \in BOOLEAN
      BY <1>5
    <3> QED BY <3>1, <3>2, Zenon
  <2>3. \A q \in answered' : /\ 0 <= q.start /\ q.start <= q.end /\ q.end <= q.size
                             /\ q.size <= fileSize'
    BY <1>1, <1>2 DEF VInv, ViewInv, ViewTypeOK
  <2>4. startOffset' \in 0..fileSize'
    BY <1>1, <1>2, <1>5
  <2> QED BY <1>1, <1>2, <2>1, <2>2, <2>3, <2>4 DEF VInv, ViewInv, ViewTypeOK
<1>10. Tiled'
  <2> SUFFICES ASSUME ~early PROVE Tiles(Piece(r) \o shown, r.start, endOffset)
    BY <1>1 DEF Tiled, Tiles
  <2>1. r.end = startOffset
    BY <1>1, <1>3, <1>4 DEF VInv, FitInv
  <2>2. Tiles(shown, startOffset, endOffset) /\ (shown = <<>> => startOffset = endOffset)
    BY DEF VInv, ViewInv, Tiled, Tiles, FitInv
  <2>3. Piece(r) # <<>>
    <3>1. Len(Piece(r)) # 0
      BY <1>6
    <3> QED BY <3>1
  <2> QED BY <1>6, <2>1, <2>2, <2>3, JoinTiles
<1>11. LinesWhole'
  <2>1. \A b : LongLine(b)' <=> LongLine(b)
    BY <1>1, SameFile
  <2>2. \A b \in {r.start, r.end} : b \in ends \union {0} \/ LongLine(b)
    BY <1>4 DEF Cut, CutIn, LongLine
  <2>3. \A j \in DOMAIN shown : \A b \in {shown[j][1], shown[j][2]} :
          b \in ends \union {0} \/ LongLine(b)
    BY DEF VInv, ViewInv, LinesWhole
  <2>4. \A i \in DOMAIN shown' : \A b \in {shown'[i][1], shown'[i][2]} :
          b \in ends \union {0} \/ LongLine(b)
    BY <1>8, <2>2, <2>3
  <2> QED BY <1>1, <2>1, <2>4 DEF LinesWhole
<1>12. RecordInv'
  BY <1>1, <1>7 DEF VInv, RecordInv
<1>13. RangeInv'
  BY <1>1, <1>2, <1>4 DEF VInv, RangeInv, Cut
<1>14. \A q \in Pending' : q.kind # "before" /\ q.kind # "initial"
  BY <1>1, <1>3 DEF VInv, FlagInv, FirstInv
<1>15. FlagInv' /\ FirstInv'
  <2>1. FlagInv'
    BY <1>1, <1>3, <1>14 DEF VInv, FlagInv
  <2>2. hasMoreBefore' => startOffset' > 0
    BY <1>1, <1>5
  <2> QED BY <1>14, <2>1, <2>2 DEF FirstInv
<1>16. TopInv'
  <2>1. startOffset' <= TailStart'
    BY <1>1, <1>2, <1>5 DEF VInv, TopInv
  <2>2. \A q \in Pending' \intersect answered' : q.kind = "reload" => startOffset' <= q.start
    <3> SUFFICES ASSUME NEW q \in Pending \intersect answered, q.kind = "reload"
                 PROVE  r.start <= q.start
      BY <1>1, <1>3
    <3>1. startOffset <= q.start /\ q.start \in Nat
      BY DEF VInv, TopInv, Result
    <3> QED BY <1>5, <3>1
  <2> QED BY <1>14, <2>1, <2>2 DEF TopInv
<1>17. EndInv'
  BY <1>1, <1>3 DEF VInv, EndInv
<1>18. FitInv'
  <2>1. shown' # <<>>
    <3>1. Len(shown') # 0
      BY <1>7
    <3> QED BY <3>1
  <2> QED BY <1>14, <2>1 DEF FitInv
<1> QED BY <1>9, <1>10, <1>11, <1>12, <1>13, <1>15, <1>16, <1>17, <1>18 DEF VInv, ViewInv

\* Newer lines are put after it.
LEMMA AppendInv == VInv /\ (\E r \in answered : AppendLogLines(r)) => VInv'
<1> SUFFICES ASSUME VInv, NEW r \in answered, AppendLogLines(r) PROVE VInv'
  OBVIOUS
<1> USE Numbers
<1>1. /\ r.kind = "after" /\ r.seq = seq /\ answered' = answered \ {r} /\ r.end >= endOffset
      /\ shown' = shown \o Piece(r) /\ endOffset' = r.end /\ startOffset' = startOffset
      /\ hasMoreBefore' = hasMoreBefore /\ loadingAfter' = FALSE
      /\ ends' = ends /\ seq' = seq /\ early' = early /\ lost' = lost /\ asked' = asked
      /\ loadingBefore' = loadingBefore
  BY DEF AppendLogLines, Arrives, Rest
<1>2. fileSize' = fileSize /\ TailStart' = TailStart
  BY <1>1, SameFile
<1>3. r \in Pending /\ Pending' = Pending \ {r} /\ r \in Result
  BY <1>1, TakenIs
<1>4. Cut(r.start) /\ Cut(r.end) /\ r.start = r.at
  BY <1>1 DEF VInv, RangeInv
<1>5. r.start \in 0..fileSize /\ r.end \in 0..fileSize
  BY <1>3 DEF Result
<1>6. /\ Piece(r) \in Seq(Nat \X Nat) /\ shown \in Seq(Nat \X Nat)
      /\ r.start < r.end => Len(Piece(r)) = 1 /\ Piece(r)[1] = <<r.start, r.end>>
      /\ ~(r.start < r.end) => Piece(r) = <<>> /\ Len(Piece(r)) = 0
      /\ Tiles(Piece(r), r.start, r.end)
  BY <1>3, PieceIs, PieceTiles DEF VInv, RecordInv
<1>7. shown' \in Seq(Nat \X Nat) /\ Len(shown') = Len(shown) + Len(Piece(r))
      /\ Len(shown) \in Nat /\ Len(Piece(r)) \in Nat
  BY <1>1, <1>6, JoinIs
<1>8. \A i \in DOMAIN shown' :
        \/ r.start < r.end /\ shown'[i] = <<r.start, r.end>>
        \/ \E j \in DOMAIN shown : shown'[i] = shown[j]
  <2>1. \A j \in DOMAIN Piece(r) : j = 1 /\ r.start < r.end
    BY <1>6
  <2> SUFFICES ASSUME NEW i \in DOMAIN shown'
               PROVE  \/ r.start < r.end /\ shown'[i] = <<r.start, r.end>>
                      \/ \E j \in DOMAIN shown : shown'[i] = shown[j]
    OBVIOUS
  <2>2. \/ \E j \in DOMAIN shown : shown'[i] = shown[j]
        \/ \E j \in DOMAIN Piece(r) : shown'[i] = Piece(r)[j]
    BY <1>1, <1>6, JoinHas
  <2> QED BY <1>6, <2>1, <2>2
<1>9. ViewTypeOK'
  <2>1. \A i \in DOMAIN shown' : shown'[i][1] < shown'[i][2] /\ shown'[i][2] <= fileSize'
    <3>1. \A j \in DOMAIN shown : shown[j][1] < shown[j][2] /\ shown[j][2] <= fileSize'
      BY <1>2 DEF VInv, ViewInv, ViewTypeOK
    <3>2. r.end <= fileSize'
      BY <1>2, <1>5
    <3> QED BY <1>8, <3>1, <3>2
  <2> QED BY <1>1, <1>2, <1>5, <2>1 DEF VInv, ViewInv, ViewTypeOK
<1>10. ~early => /\ r.start = endOffset
                 /\ Tiles(shown, startOffset, endOffset)
                 /\ (shown = <<>> => startOffset = endOffset)
  BY <1>1, <1>3, <1>4 DEF VInv, ViewInv, Tiled, Tiles, EndInv, FitInv
<1>11. Tiled'
  <2> SUFFICES ASSUME ~early PROVE Tiles(shown \o Piece(r), startOffset, r.end)
    BY <1>1 DEF Tiled, Tiles
  <2>1. Piece(r) = <<>> => endOffset = r.end
    <3>1. Piece(r) = <<>> => ~(r.start < r.end)
      BY <1>6
    <3> QED BY <1>1, <1>5, <1>10, <3>1
  <2> QED BY <1>6, <1>10, <2>1, JoinTiles
<1>12. LinesWhole'
  <2>1. \A b : LongLine(b)' <=> LongLine(b)
    BY <1>1, SameFile
  <2>2. \A b \in {r.start, r.end} : b \in ends \union {0} \/ LongLine(b)
    BY <1>4 DEF Cut, CutIn, LongLine
  <2>3. \A j \in DOMAIN shown : \A b \in {shown[j][1], shown[j][2]} :
          b \in ends \union {0} \/ LongLine(b)
    BY DEF VInv, ViewInv, LinesWhole
  <2>4. \A i \in DOMAIN shown' : \A b \in {shown'[i][1], shown'[i][2]} :
          b \in ends \union {0} \/ LongLine(b)
    BY <1>8, <2>2, <2>3
  <2> QED BY <1>1, <2>1, <2>4 DEF LinesWhole
<1>13. RecordInv'
  BY <1>1, <1>7 DEF VInv, RecordInv
<1>14. RangeInv'
  BY <1>1, <1>2, <1>4 DEF VInv, RangeInv, Cut
<1>15. \A q \in Pending' : q.kind # "after" /\ q.kind # "reload"
  BY <1>1, <1>3 DEF VInv, FlagInv
<1>16. FlagInv' /\ FirstInv' /\ TopInv' /\ EndInv'
  BY <1>1, <1>2, <1>3, <1>15 DEF VInv, FlagInv, FirstInv, TopInv, EndInv
<1>17. FitInv'
  <2>1. shown' = <<>> => Len(shown) = 0 /\ Len(Piece(r)) = 0
    <3>1. shown' = <<>> => Len(shown') = 0
      OBVIOUS
    <3> QED BY <1>7, <3>1
  <2>2. shown' = <<>> => shown = <<>> /\ ~(r.start < r.end)
    BY <1>6, <2>1
  <2>3. ~early' /\ shown' = <<>> => startOffset' = endOffset'
    BY <1>1, <1>5, <1>10, <2>2
  <2> QED BY <1>1, <1>3, <1>15, <2>3 DEF VInv, FitInv
<1> QED BY <1>9, <1>11, <1>12, <1>13, <1>14, <1>16, <1>17 DEF VInv, ViewInv

\* The answer ends before what is shown: everything is asked for again.
LEMMA ReloadInv == VInv /\ (\E r \in answered : Reload(r)) => VInv'
<1> SUFFICES ASSUME VInv, NEW r \in answered, Reload(r) PROVE VInv'
  OBVIOUS
<1> USE Numbers
<1> DEFINE new == [kind |-> "reload", seq |-> seq, at |-> 0]
<1>1. /\ r.kind = "after" /\ r.seq = seq /\ answered' = answered \ {r} /\ r.end < endOffset
      /\ asked' = asked \union {new} /\ shown' = shown /\ endOffset' = endOffset
      /\ startOffset' = startOffset /\ hasMoreBefore' = hasMoreBefore
      /\ loadingAfter' = loadingAfter /\ loadingBefore' = loadingBefore
      /\ ends' = ends /\ seq' = seq /\ early' = early /\ lost' = lost
  BY DEF Reload, Arrives, Rest, Ask, view
<1>2. fileSize' = fileSize /\ TailStart' = TailStart
  BY <1>1, SameFile
<1>3. /\ new \in Request /\ new.kind = "reload" /\ new.seq = seq /\ new.at = 0
      /\ new \notin answered
  <2>1. new \in Request
    BY DEF Request, Kind
  <2> QED BY <2>1, TwoRecords
<1> HIDE DEF new
<1>4. r \in Pending /\ r \notin asked /\ r \in Result
  BY <1>1, TwoRecords DEF Pending
<1>5. Pending' = (Pending \ {r}) \union {new}
  BY <1>1, <1>3, <1>4 DEF Pending
<1>6. r.start = r.at /\ r.start \in Nat /\ r.end \in Nat /\ r.start <= r.end
  BY <1>1, <1>4 DEF VInv, RangeInv, Result
<1>7. early /\ \A q \in Pending : q.kind # "initial"
  <2>1. r.at # endOffset
    BY <1>1, <1>6
  <2> QED BY <1>1, <1>4, <2>1 DEF VInv, EndInv, ViewInv, ViewTypeOK
<1>8. ViewTypeOK'
  <2>1. 0 \in 0..fileSize /\ seq \in 0..seq
    OBVIOUS
  <2> QED BY <1>1, <1>2, <1>3, <2>1 DEF VInv, ViewInv, ViewTypeOK
<1>9. Tiled' /\ LinesWhole'
  BY <1>1 DEF VInv, ViewInv, Tiled, LinesWhole, LongLine
<1>10. RecordInv'
  BY <1>1, <1>3 DEF VInv, RecordInv
<1>11. RangeInv'
  BY <1>1, <1>2, <1>3 DEF VInv, RangeInv, Cut, CutIn
<1>12. loadingAfter /\ \A q \in Pending \ {r} : q.kind # "after" /\ q.kind # "reload"
  BY <1>1, <1>4 DEF VInv, FlagInv
<1>13. FlagInv' /\ FirstInv'
  BY <1>1, <1>3, <1>5, <1>7, <1>12 DEF VInv, FlagInv, FirstInv
<1>14. TopInv' /\ EndInv' /\ FitInv'
  BY <1>1, <1>2, <1>3, <1>5, <1>7, <1>12 DEF VInv, TopInv, EndInv, FitInv
<1> QED BY <1>8, <1>9, <1>10, <1>11, <1>13, <1>14 DEF VInv, ViewInv

\* Every step keeps it.
LEMMA ViewStep == VInv /\ [ViewNext]_viewVars => VInv'
<1> SUFFICES ASSUME VInv, [ViewNext]_viewVars PROVE VInv'
  OBVIOUS
<1>1. CASE LogLine \/ SelectFile \/ LoadOlderLogs \/ LoadNewLogs
  BY <1>1, LogLineInv, SelectFileInv, LoadOlderInv, LoadNewInv
<1>2. CASE \E r \in asked : Answer(r) \/ Fail(r)
  BY <1>2, AnswerInv, FailInv
<1>3. CASE \E r \in answered : Deliver(r)
  BY <1>3, ShowInitialInv, PrependInv, AppendInv, ReloadInv DEF Deliver
<1>4. CASE \E r \in asked \union answered : Ignore(r)
  BY <1>4, IgnoreInv
<1>5. CASE UNCHANGED viewVars
  <2>1. UNCHANGED <<asked, answered, ends, seq, view, early, lost, loadingBefore, loadingAfter>>
    BY <1>5 DEF viewVars
  <2>2. lost \in 0..MaxLost /\ loadingBefore \in BOOLEAN /\ loadingAfter \in BOOLEAN
    BY DEF VInv, ViewInv, ViewTypeOK
  <2> QED BY <2>1, <2>2, FewerInv
<1> QED BY <1>1, <1>2, <1>3, <1>4, <1>5 DEF ViewNext

\* Whatever order the answers come in, the log page shows one unbroken stretch of whole
\* lines, of files of every size, with lines and ranges of every length (ReadLogRange,
\* web/logs.html).
THEOREM LogPageIsWhole == ViewSpec => []ViewInv
<1>1. VInv => ViewInv
  BY DEF VInv
<1> QED BY InitVInv, ViewStep, <1>1, PTL DEF ViewSpec

\* An older range that is shown moves the top of the page up: it is never empty, and
\* nothing shown since it was asked for starts later (loadOlderLogs, prependLogLines).
THEOREM OlderLinesAreOlder == ViewSpec => OlderAdvances
<1> DEFINE Up == hasMoreBefore /\ ~loadingBefore' /\ loadingBefore /\ lost' = lost /\ seq' = seq
                   => startOffset' < startOffset
<1>1. VInv /\ [ViewNext]_viewVars => [Up]_viewVars
  <2> SUFFICES ASSUME VInv, ViewNext, loadingBefore, ~loadingBefore', lost' = lost, seq' = seq
               PROVE  startOffset' < startOffset
    OBVIOUS
  <2> USE Numbers
  <2>1. loadingBefore' # loadingBefore
    OBVIOUS
  <2>2. ~LogLine /\ ~SelectFile /\ ~LoadOlderLogs /\ ~LoadNewLogs
    <3>1. ~LogLine /\ ~LoadNewLogs
      BY <2>1 DEF LogLine, LoadNewLogs
    <3>2. ~SelectFile
      BY DEF SelectFile
    <3>3. ~LoadOlderLogs
      BY DEF LoadOlderLogs
    <3> QED BY <3>1, <3>2, <3>3
  <2>3. \A r \in asked : ~Answer(r) /\ ~Fail(r)
    <3> TAKE r \in asked
    <3>1. ~Answer(r)
      BY <2>1 DEF Answer
    <3>2. ~Fail(r)
      BY DEF Fail
    <3> QED BY <3>1, <3>2
  <2>4. \A r \in asked \union answered : ~Ignore(r)
    BY <2>1 DEF Ignore
  <2>5. \A r \in answered : ~ShowInitial(r) /\ ~AppendLogLines(r) /\ ~Reload(r)
    BY <2>1 DEF ShowInitial, AppendLogLines, Reload
  <2>6. PICK r \in answered : PrependLogLines(r)
    BY <2>2, <2>3, <2>4, <2>5 DEF ViewNext, Deliver
  <2>7. /\ r.kind = "before" /\ r.seq = seq /\ startOffset' = r.start
        /\ answered' = answered \ {r} /\ asked' = asked
    BY <2>6 DEF PrependLogLines, Arrives
  <2>8. r \in Pending /\ r \in Result
    BY <2>7 DEF Pending
  <2>9. r.end = r.at /\ r.start < r.end /\ r.at <= startOffset
    BY <2>7, <2>8 DEF VInv, RangeInv, TopInv
  <2>10. r.start \in Nat /\ r.end \in Nat
    BY <2>8 DEF Result
  <2> QED BY <2>7, <2>9, <2>10
<1> QED BY <1>1, InitVInv, ViewStep, PTL DEF ViewSpec, OlderAdvances
=============================================================================
