------------------------------ MODULE LogFiles ------------------------------
(* logging/logger.go: the log files of the server, their rotation by date    *)
(* and size, and their removal.  A line is one unit of size.  rotate runs in *)
(* Setup and then only in the goroutine of backgroundLoop, so its steps      *)
(* interleave with writes and never with each other.                         *)
EXTENDS Integers

CONSTANTS
  MaxLogSize,                \* lines
  RetentionDays,
  Null,
  MaxDay, MaxSeq, MaxLines, MaxFaults, MaxRestarts   \* bounds

ASSUME SizeAssumption == MaxLogSize \in Nat \ {0} /\ RetentionDays \in Nat \ {0}
ASSUME BoundsAssumption ==
  /\ MaxDay \in Nat \ {0} /\ MaxSeq \in Nat \ {0} /\ MaxLines \in Nat
  /\ MaxFaults \in Nat /\ MaxRestarts \in Nat

VARIABLES
  day,          \* time.Now()
  size,         \* lines of each file, or Null when it does not exist
  curDate, curSeq, curSize,
  file, open,   \* l.file, a file name, and whether its handle is open
  sink,         \* the file each logger writes to
  inflight,     \* lines a logger has written and not yet added to curSize
  rot,          \* what rotate does next
  lines, faults, restarts

vars == <<day, size, curDate, curSeq, curSize, file, open, sink, inflight, rot,
          lines, faults, restarts>>

\* log.SetOutput moves the first; gin.Recovery() copied its writer when it was
\* made (a logger of its own, with a mutex of its own).
Loggers == {"log", "recovery"}
Name == (1..MaxDay) \X (1..MaxSeq)
ASSUME NullAssumption == Null \notin Nat \union Name

Exists(n) == size[n] # Null
Full(n) == Exists(n) /\ size[n] >= MaxLogSize

TypeOK ==
  /\ day \in 1..MaxDay
  /\ \A n \in Name : size[n] \in 0..MaxLines \union {Null}
  /\ curDate \in 0..MaxDay /\ curSeq \in 1..MaxSeq /\ curSize \in Nat
  /\ file \in Name \union {Null} /\ open \in BOOLEAN
  /\ sink \in [Loggers -> Name \union {Null}]
  /\ inflight \in [Loggers -> 0..1]
  /\ rot \in {"setup", "idle", "close", "find", "open", "output"}
  /\ lines \in 0..MaxLines /\ faults \in 0..MaxFaults /\ restarts \in 0..MaxRestarts

Init ==
  /\ day = 1
  /\ size = [n \in Name |-> Null]
  /\ curDate = 0 /\ curSeq = 1 /\ curSize = 0
  /\ file = Null /\ open = FALSE
  /\ sink = [l \in Loggers |-> Null]
  /\ inflight = [l \in Loggers |-> 0]
  /\ rot = "setup"
  /\ lines = 0 /\ faults = 0 /\ restarts = 0

Bounds == <<lines, faults, restarts>>

-----------------------------------------------------------------------------
\* sizeTrackingWriter.Write, first half.  A line for a closed file is lost to
\* the files (it still goes to stdout) and is not counted.
Write(l) ==
  /\ lines < MaxLines /\ lines' = lines + 1
  /\ inflight[l] = 0 /\ sink[l] # Null
  /\ IF open /\ sink[l] = file
     THEN /\ size' = [size EXCEPT ![file] = IF @ = Null THEN Null ELSE @ + 1]
          /\ inflight' = [inflight EXCEPT ![l] = 1]
     ELSE UNCHANGED <<size, inflight>>
  /\ UNCHANGED <<day, curDate, curSeq, curSize, file, open, sink, rot, faults, restarts>>

\* Mutant: only the lines of the standard logger are counted.
CountLog(l) ==
  /\ inflight[l] = 1 /\ inflight' = [inflight EXCEPT ![l] = 0]
  /\ curSize' = IF l = "log" THEN curSize + 1 ELSE curSize
  /\ UNCHANGED <<day, size, curDate, curSeq, file, open, sink, rot, Bounds>>

\* ... and second half.
Count(l) ==
  /\ inflight[l] = 1 /\ inflight' = [inflight EXCEPT ![l] = 0]
  /\ curSize' = curSize + 1
  /\ UNCHANGED <<day, size, curDate, curSeq, file, open, sink, rot, Bounds>>

-----------------------------------------------------------------------------
\* Mutant: the date is only looked at by Setup.
RotateBySize ==
  /\ rot \in {"setup", "idle"}
  /\ \/ /\ rot = "setup" /\ curDate' = day /\ curSeq' = 1
     \/ /\ rot = "idle" /\ curSize >= MaxLogSize
        /\ curSeq < MaxSeq /\ curSeq' = curSeq + 1 /\ UNCHANGED curDate
  /\ rot' = "close"
  /\ UNCHANGED <<day, size, curSize, file, open, sink, inflight, Bounds>>

\* The decision at the head of rotate, by the ticker or the midnight timer.
\* curDate and curSeq are moved before anything can fail.
Rotate ==
  /\ rot \in {"setup", "idle"}
  /\ \/ /\ curDate # day /\ curDate' = day /\ curSeq' = 1
     \/ /\ curDate = day /\ file # Null /\ curSize >= MaxLogSize
        /\ curSeq < MaxSeq /\ curSeq' = curSeq + 1 /\ UNCHANGED curDate
  /\ rot' = "close"
  /\ UNCHANGED <<day, size, curSize, file, open, sink, inflight, Bounds>>

Close ==
  /\ rot = "close" /\ rot' = "find"
  /\ open' = FALSE
  /\ UNCHANGED <<day, size, curDate, curSeq, curSize, file, sink, inflight, Bounds>>

\* The loop over sequence numbers: the first file that is missing or not full.
Find ==
  /\ rot = "find" /\ rot' = "open"
  /\ \E s \in curSeq..MaxSeq :
       /\ \A t \in curSeq..(s - 1) : Full(<<curDate, t>>)
       /\ ~Full(<<curDate, s>>)
       /\ curSeq' = s
       /\ curSize' = IF Exists(<<curDate, s>>) THEN size[<<curDate, s>>] ELSE 0
  /\ UNCHANGED <<day, size, curDate, file, open, sink, inflight, Bounds>>

\* O_CREATE|O_APPEND
Open ==
  LET n == <<curDate, curSeq>> IN
  /\ rot = "open" /\ rot' = "output"
  /\ size' = [size EXCEPT ![n] = IF @ = Null THEN 0 ELSE @]
  /\ file' = n /\ open' = TRUE
  /\ UNCHANGED <<day, curDate, curSeq, curSize, sink, inflight, Bounds>>

\* Mutant: the logger is redirected only once.
SetOutputOnce ==
  /\ rot = "output" /\ rot' = "idle"
  /\ inflight["log"] = 0
  /\ sink' = [l \in Loggers |-> IF sink[l] = Null THEN file ELSE sink[l]]
  /\ UNCHANGED <<day, size, curDate, curSeq, curSize, file, open, inflight, Bounds>>

\* log.SetOutput waits for the writer that holds the logger's mutex.  Only
\* Setup's rotate is early enough for gin.Recovery() to copy its writer.
SetOutput ==
  /\ rot = "output" /\ rot' = "idle"
  /\ inflight["log"] = 0
  /\ sink' = [l \in Loggers |-> IF l = "log" \/ sink[l] = Null THEN file ELSE sink[l]]
  /\ UNCHANGED <<day, size, curDate, curSeq, curSize, file, open, inflight, Bounds>>

\* Stat or OpenFile fails: rotate returns, with the old file closed.  In Setup
\* the server does not start; it is started again.
RotateFails ==
  /\ rot \in {"find", "open"} /\ faults < MaxFaults /\ faults' = faults + 1
  /\ day < MaxDay
  /\ rot' = IF file = Null THEN "setup" ELSE "idle"
  /\ curDate' = IF file = Null THEN 0 ELSE curDate
  /\ UNCHANGED <<day, size, curSeq, curSize, file, open, sink, inflight, lines, restarts>>

\* In Setup and at midnight, right after rotate, for every file named after a
\* day too old.  The name is read as UTC and compared with local time: the
\* oldest day allowed may go already.
Cleanup ==
  /\ rot = "idle" /\ curDate = day
  /\ \E oldest \in {day - RetentionDays, day - RetentionDays + 1} :
       size' = [n \in Name |-> IF n[1] < oldest THEN Null ELSE size[n]]
  /\ size' # size
  /\ UNCHANGED <<day, curDate, curSeq, curSize, file, open, sink, inflight, rot, Bounds>>

NewDay ==
  /\ day < MaxDay /\ day' = day + 1
  /\ UNCHANGED <<size, curDate, curSeq, curSize, file, open, sink, inflight, rot, Bounds>>

\* The process ends at any point and Setup runs again.
Restart ==
  /\ restarts < MaxRestarts /\ restarts' = restarts + 1
  /\ rot' = "setup" /\ curDate' = 0 /\ curSeq' = 1 /\ curSize' = 0
  /\ file' = Null /\ open' = FALSE
  /\ sink' = [l \in Loggers |-> Null]
  /\ inflight' = [l \in Loggers |-> 0]
  /\ UNCHANGED <<day, size, lines, faults>>

Rotation == Rotate \/ Close \/ Find \/ Open \/ SetOutput \/ Cleanup

Next ==
  \/ \E l \in Loggers : Write(l) \/ Count(l)
  \/ Rotation \/ RotateFails \/ NewDay \/ Restart

Spec == Init /\ [][Next]_vars

\* The ticker and the timer fire, and the clock moves.
FairSpec == Spec /\ WF_vars(Rotation) /\ WF_vars(NewDay)
                 /\ \A l \in Loggers : WF_vars(Count(l))
-----------------------------------------------------------------------------
AtRest == rot = "idle" /\ open /\ \A l \in Loggers : inflight[l] = 0

\* The lock-free counter never falls behind the file, however a write and a
\* rotation interleave, so a full file is always noticed by the next tick.
CounterCovers == AtRest => curSize >= size[file]

\* Between rotations, the standard logger writes to the file that is open
\* (the writer of gin.Recovery() does not follow: see the README).
LogGoesToFile == rot = "idle" /\ open => sink["log"] = file

\* What holds between any two steps of writers and rotations: the types, and that the
\* log is where it can be found.
Inv == TypeOK /\ LogGoesToFile

\* A rotation never appends to a full file, also after a restart.
OpensBelowLimit == [][~open /\ open' => size'[file'] < MaxLogSize]_vars

\* A rotation that fails leaves the logger on a closed file with the new date
\* recorded; the log comes back, at the next date if not before.
LogReopens == (rot = "idle" /\ ~open) ~> open

\* What rotation is for: files stay near the limit, and the log goes on.
Rotates == OpensBelowLimit /\ LogReopens
=============================================================================
