------------------------------- MODULE LogView -------------------------------
(* The log page: ReadLogRange of logging/logger.go behind GET /api/logs/x    *)
(* (api/log_handler.go), and web/logs.html, which shows one growing file by  *)
(* ranges of bytes.  A file is the set of the offsets at which its lines     *)
(* end; every line is appended by one write.  A request is asked, answered   *)
(* at some later moment and delivered at another, in any order.              *)
EXTENDS Integers, Sequences, FiniteSetsExt

CONSTANTS
  Limit,        \* bytes of a range
  LineLengths,  \* bytes of a line, with its newline
  MaxSize, MaxSelects, MaxLost    \* bounds

ASSUME LimitAssumption == Limit \in Nat \ {0} /\ LineLengths \subseteq Nat \ {0}
ASSUME ViewBoundsAssumption == MaxSize \in Nat /\ MaxSelects \in Nat \ {0} /\ MaxLost \in Nat

VARIABLES
  ends,          \* the file
  asked, answered,   \* requests on their way to the server, and back
  seq,           \* logRequestSeq
  shown,         \* the ranges on the page, from top to bottom
  startOffset, endOffset, hasMoreBefore,    \* logState
  loadingBefore, loadingAfter,
  early,         \* history: new lines were asked for before the first answer
  lost

view == <<shown, startOffset, endOffset, hasMoreBefore>>
viewVars == <<ends, asked, answered, seq, view, loadingBefore, loadingAfter, early, lost>>

fileSize == Max(ends \union {0})

ViewTypeOK ==
  /\ ends \subseteq 1..MaxSize
  /\ \A r \in asked : /\ r.kind \in {"initial", "reload", "before", "after"}
                     /\ r.seq \in 0..seq /\ r.at \in 0..fileSize
  /\ \A r \in answered : 0 <= r.start /\ r.start <= r.end /\ r.end <= r.size /\ r.size <= fileSize
  /\ seq \in 0..MaxSelects
  /\ \A i \in DOMAIN shown : shown[i][1] < shown[i][2] /\ shown[i][2] <= fileSize
  /\ startOffset \in 0..fileSize /\ endOffset \in 0..fileSize
  /\ hasMoreBefore \in BOOLEAN /\ loadingBefore \in BOOLEAN /\ loadingAfter \in BOOLEAN
  /\ early \in BOOLEAN /\ lost \in 0..MaxLost

ViewInit ==
  /\ ends = {} /\ asked = {} /\ answered = {}
  /\ seq = 0
  /\ shown = <<>> /\ startOffset = 0 /\ endOffset = 0 /\ hasMoreBefore = FALSE
  /\ loadingBefore = FALSE /\ loadingAfter = FALSE
  /\ early = FALSE /\ lost = 0

-----------------------------------------------------------------------------
(* The server.                                                               *)

\* Another line of the log.
LogLine ==
  /\ \E n \in LineLengths : fileSize + n <= MaxSize /\ ends' = ends \union {fileSize + n}
  /\ UNCHANGED <<asked, answered, seq, view, loadingBefore, loadingAfter, early, lost>>

\* rangeBounds
RangeBounds(r) ==
  LET least(a, b) == IF a < b THEN a ELSE b
      end == IF r.kind = "before" THEN least(fileSize, r.at) ELSE fileSize
  IN  IF r.kind = "after" THEN
           << least(r.at, fileSize), least(least(r.at, fileSize) + Limit, fileSize) >>
      ELSE << IF end < Limit THEN 0 ELSE end - Limit, end >>

\* Mutant: a range that holds one newline, its last byte, is dropped whole.
DropsAll(r) ==
  LET s == RangeBounds(r)[1]
      e == RangeBounds(r)[2]
      newlines == {n \in ends : s < n /\ n <= e}
  IN  CASE r.kind = "after" /\ e < fileSize /\ newlines # {} -> <<s, Max(newlines)>>
        [] r.kind # "after" /\ s > 0 /\ s \notin ends /\ newlines # {} -> <<Min(newlines), e>>
        [] OTHER -> <<s, e>>

\* A forward range ends after its last newline, a backward range starts after
\* its first one, unless it starts at a line or nothing would be left.
LineRange(r) ==
  LET s == RangeBounds(r)[1]
      e == RangeBounds(r)[2]
      newlines == {n \in ends : s < n /\ n <= e}
  IN  CASE r.kind = "after" /\ e < fileSize /\ newlines # {} -> <<s, Max(newlines)>>
        [] r.kind # "after" /\ s > 0 /\ s \notin ends /\ newlines \ {e} # {} -> <<Min(newlines), e>>
        [] OTHER -> <<s, e>>

\* getLogRange and ReadLogRange.  What a request made before the last
\* selection is answered with does not matter: see Ignore.
Answer(r) ==
  /\ r.seq = seq /\ asked' = asked \ {r}
  /\ LET range == LineRange(r) IN
     answered' = answered \union
       {[kind |-> r.kind, seq |-> r.seq, at |-> r.at,
         start |-> range[1], end |-> range[2], size |-> fileSize]}
  /\ UNCHANGED <<ends, seq, view, loadingBefore, loadingAfter, early, lost>>

-----------------------------------------------------------------------------
(* The page.                                                                 *)

Ask(kind, at) == asked \union {[kind |-> kind, seq |-> seq, at |-> at]}
Loading == \E r \in asked \union answered : r.kind \in {"initial", "reload"} /\ r.seq = seq

\* selectFile, resetLogState and the request of loadInitialLog.
SelectFile ==
  /\ seq < MaxSelects /\ seq' = seq + 1
  /\ shown' = <<>> /\ startOffset' = 0 /\ endOffset' = 0 /\ hasMoreBefore' = FALSE
  /\ loadingBefore' = FALSE /\ loadingAfter' = FALSE
  /\ early' = FALSE
  /\ asked' = asked \union {[kind |-> "initial", seq |-> seq + 1, at |-> 0]}
  /\ UNCHANGED <<ends, answered, lost>>

LoadOlderLogs ==
  /\ seq > 0 /\ ~loadingBefore /\ hasMoreBefore
  /\ loadingBefore' = TRUE
  /\ asked' = Ask("before", startOffset)
  /\ UNCHANGED <<ends, answered, seq, view, loadingAfter, early, lost>>

\* Mutant: a second request is sent while one is open.
LoadNewLogsTwice ==
  /\ seq > 0 /\ ~(\E r \in asked : r.kind = "after" /\ r.seq = seq)
  /\ loadingAfter' = TRUE
  /\ asked' = Ask("after", endOffset)
  /\ early' = (early \/ Loading)
  /\ UNCHANGED <<ends, answered, seq, view, loadingBefore, lost>>

\* The refresh timer, or the refresh button, which does not ask whether the
\* first range has arrived.
LoadNewLogs ==
  /\ seq > 0 /\ ~loadingAfter
  /\ loadingAfter' = TRUE
  /\ asked' = Ask("after", endOffset)
  /\ early' = (early \/ Loading)
  /\ UNCHANGED <<ends, answered, seq, view, loadingBefore, lost>>

Arrives(r, kind) == r \in answered /\ r.kind = kind /\ r.seq = seq
Rest == <<ends, seq, early, lost>>

\* parseLogLines adds nothing for an empty range.
Piece(r) == IF r.start < r.end THEN << <<r.start, r.end>> >> ELSE <<>>

\* loadInitialLog; the one loadNewLogs waits for ends its turn as well.
ShowInitial(r) ==
  /\ Arrives(r, "initial") \/ Arrives(r, "reload")
  /\ answered' = answered \ {r}
  /\ shown' = Piece(r)
  /\ startOffset' = r.start /\ endOffset' = r.end /\ hasMoreBefore' = (r.start > 0)
  /\ loadingAfter' = (loadingAfter /\ r.kind = "initial")
  /\ UNCHANGED <<Rest, asked, loadingBefore>>

PrependLogLines(r) ==
  /\ Arrives(r, "before") /\ answered' = answered \ {r}
  /\ shown' = Piece(r) \o shown
  /\ startOffset' = r.start /\ hasMoreBefore' = (r.start > 0)
  /\ loadingBefore' = FALSE
  /\ UNCHANGED <<Rest, asked, endOffset, loadingAfter>>

AppendLogLines(r) ==
  /\ Arrives(r, "after") /\ r.end >= endOffset /\ answered' = answered \ {r}
  /\ shown' = shown \o Piece(r)
  /\ endOffset' = r.end
  /\ loadingAfter' = FALSE
  /\ UNCHANGED <<Rest, asked, startOffset, hasMoreBefore, loadingBefore>>

\* An answer that ends before what is shown: everything is loaded again.
Reload(r) ==
  /\ Arrives(r, "after") /\ r.end < endOffset /\ answered' = answered \ {r}
  /\ asked' = Ask("reload", 0)
  /\ UNCHANGED <<Rest, view, loadingBefore, loadingAfter>>

\* The answer of a request made before the file was selected (again); its
\* flags have been reset since.
Ignore(r) ==
  /\ r.seq # seq /\ asked' = asked \ {r} /\ answered' = answered \ {r}
  /\ UNCHANGED <<Rest, view, loadingBefore, loadingAfter>>

\* A request fails: only its flag is reset, a later one tries again.
Fail(r) ==
  /\ lost < MaxLost /\ lost' = lost + 1
  /\ r.seq = seq /\ asked' = asked \ {r}
  /\ loadingBefore' = (loadingBefore /\ r.kind # "before")
  /\ loadingAfter' = (loadingAfter /\ r.kind \notin {"after", "reload"})
  /\ UNCHANGED <<ends, answered, seq, view, early>>

Deliver(r) == \/ ShowInitial(r) \/ PrependLogLines(r) \/ AppendLogLines(r)
              \/ Reload(r)

ViewNext ==
  \/ LogLine
  \/ SelectFile \/ LoadOlderLogs \/ LoadNewLogs
  \/ \E r \in asked : Answer(r) \/ Fail(r)
  \/ \E r \in answered : Deliver(r)
  \/ \E r \in asked \union answered : Ignore(r)

ViewSpec == ViewInit /\ [][ViewNext]_viewVars

Reply == (\E r \in asked : Answer(r)) \/ (\E r \in answered : Deliver(r))

\* As long as a request is open, one of them gets on.  The timer of
\* startAutoRefresh fires while the reader stays at the bottom; what the
\* reader does is not fair.
ViewFairSpec == ViewSpec /\ WF_viewVars(Reply) /\ WF_viewVars(LoadNewLogs)

-----------------------------------------------------------------------------
\* The page shows one stretch of the file, from startOffset to endOffset, each
\* byte once, in whatever order the answers come in; only a refresh before the
\* first answer may repeat a short file (see the README).
Tiled ==
  ~early /\ shown # <<>> =>
    /\ shown[1][1] = startOffset /\ shown[Len(shown)][2] = endOffset
    /\ \A i \in 1..(Len(shown) - 1) : shown[i][2] = shown[i + 1][1]

\* A line is split over two ranges only when no range can hold it.
LongLine(b) ==
  LET line == {n \in ends \union {0} : n < b} IN
  Min({n \in ends : n >= b}) - Max(line) > Limit
LinesWhole ==
  \A i \in DOMAIN shown : \A b \in {shown[i][1], shown[i][2]} :
    b \in ends \union {0} \/ LongLine(b)

\* What the reader sees, whatever was answered late, twice asked for, or lost: one
\* unbroken stretch of whole lines.
ViewInv == ViewTypeOK /\ Tiled /\ LinesWhole

\* Scrolling up always makes progress: an older range that is shown is not
\* empty, so the top of the file is reached after finitely many of them.
OlderAdvances ==
  [][hasMoreBefore /\ ~loadingBefore' /\ loadingBefore /\ lost' = lost /\ seq' = seq
       => startOffset' < startOffset]_viewVars

\* Whatever was lost or answered late, the page catches up with the file once
\* it stops growing.
CatchesUp == seq > 0 ~> endOffset = fileSize

\* Reading gets on in both directions.
Progress == OlderAdvances /\ CatchesUp
=============================================================================
