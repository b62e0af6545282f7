------------------------- MODULE PageArchiveProofs -------------------------
(* Type correctness of PageArchive; that the deletion queue never holds the *)
(* HTML of a page; that a ready page has its file; for the kinds of request  *)
(* that allow it, unique and consistent snapshots and kept shares; that no  *)
(* superseded file is left behind; and that no page loses its HTML.         *)
EXTENDS PageArchive, TLAPS

-----------------------------------------------------------------------------
(* The inductive invariant.                                                *)

\* h has not put its HTML into a row, and still may.
Fresh(h) ==
  \/ pc[h] \in {"idle", "insert", "reset", "read", "commit"}
  \/ pc[h] \in {"enqueue", "start", "rewrite"} /\ req[h].kind # "create"

Shows(p, h) == HasRow(p) /\ pages[p].html = h

\* o has read the html_path of its page and will queue it.
HoldsOld(o) ==
  \/ pc[o] \in {"commit", "deleteRow", "queueOld"}
  \/ pc[o] = "rewrite" /\ req[o].kind = "update"

RequestInv ==
  \A o \in Op :
    /\ pc[o] # "idle" => req[o].page \in Op
    /\ HoldsPageLock(o) => req[o].kind = "create"
    /\ pc[o] = "insert" => req[o].page = o

\* The file a row shows was put there by an op on this very page, for good:
\* hence two rows never show the same file.
RowInv ==
  \A p \in Op : HasRow(p) =>
    /\ pages[p].html \in Op
    /\ ~Fresh(pages[p].html)
    /\ req[pages[p].html].page = p

OldInv ==
  \A o \in Op : HoldsOld(o) =>
    /\ old[o] \in Op
    /\ ~Fresh(old[o])
    /\ req[old[o]].page = req[o].page

\* Between the commit or the deletion and QueueOld, no row shows the old file.
GoneInv ==
  \A o, p \in Op : pc[o] = "queueOld" => ~Shows(p, old[o])

QueueInv ==
  \A rec \in queue : ~Fresh(rec.path) /\ \A p \in Op : ~Shows(p, rec.path)

IInv == TypeOK /\ RequestInv /\ RowInv /\ OldInv /\ GoneInv /\ QueueInv

-----------------------------------------------------------------------------
(* Types.  The request of an op names its page as soon as it has arrived,  *)
(* and a row with a state names its file: without these two facts a step    *)
(* could read pages[Null].                                                 *)

TypeInv ==
  /\ TypeOK /\ RequestInv
  /\ \A p \in Op : HasRow(p) => pages[p].html \in Op
  /\ \A o \in Op : pc[o] = "queueOld" => old[o] \in Op

\* What the handlers write into the pages table is a row again.
LEMMA RowUpdates ==
  ASSUME NEW f \in [Op -> Row], NEW p \in Op, NEW h \in Op,
         NEW c \in Content \union {Null}
  PROVE  /\ [f EXCEPT ![p].html = h, ![p].state = "pending"] \in [Op -> Row]
         /\ [f EXCEPT ![p].state = "ready", ![p].links = c] \in [Op -> Row]
         /\ [f EXCEPT ![p].state = "failed"] \in [Op -> Row]
         /\ [f EXCEPT ![p] = [@ EXCEPT !.html = h, !.hash = c, !.state = "ready",
                                       !.links = c]] \in [Op -> Row]
<1>1. [f[p] EXCEPT !.html = h, !.state = "pending"] \in Row
  BY DEF Row
<1>2. [f[p] EXCEPT !.state = "ready", !.links = c] \in Row
  BY DEF Row
<1>3. [f[p] EXCEPT !.state = "failed"] \in Row
  BY DEF Row
<1>4. [f[p] EXCEPT !.html = h, !.hash = c, !.state = "ready", !.links = c] \in Row
  BY DEF Row
<1>5. [f EXCEPT ![p].html = h, ![p].state = "pending"]
        = [f EXCEPT ![p] = [f[p] EXCEPT !.html = h, !.state = "pending"]]
  BY DEF Row
<1>6. [f EXCEPT ![p].state = "ready", ![p].links = c]
        = [f EXCEPT ![p] = [f[p] EXCEPT !.state = "ready", !.links = c]]
  BY DEF Row
<1> QED BY <1>1, <1>2, <1>3, <1>4, <1>5, <1>6

\* The requests that arrive keep every variable in its type.
LEMMA ArriveType ==
  ASSUME TypeInv, NEW o \in Op, Arrive(o)
  PROVE  TypeOK'
<1> USE DEF TypeInv, TypeOK, Label, Request, Row, Share, Kind, RequestInv,
            Goto, Accept, Succeeds, Fails, taskVars, diskVars
<1>1. ASSUME NEW u \in Url, NEW c \in Content, CreateLookup(o, u, c)
      PROVE  TypeOK'
  <2>1. CASE AnswerHit(o, u, c)
    BY <1>1, <2>1 DEF CreateLookup, AnswerHit, Hits, HitsIn
  <2>2. CASE SaveNew(o, u, c)
    <3>1. PICK p \in Op, l \in {"insert", "reset"} :
            Accept(o, "create", u, c, p) /\ Goto(o, l)
      BY <2>2 DEF SaveNew, Hits, HitsIn
    <3>2. pc' \in [Op -> Label] /\ req' \in [Op -> Request]
      BY <3>1
    <3> QED BY <1>1, <2>2, <3>2 DEF CreateLookup, SaveNew
  <2> QED BY <1>1, <2>1, <2>2 DEF CreateLookup
<1>2. ASSUME NEW p \in Op, NEW c \in Content, UpdateRequest(o, p, c)
      PROVE  TypeOK'
  BY <1>2 DEF UpdateRequest
<1>3. ASSUME NEW p \in Op, DeleteRead(o, p)
      PROVE  TypeOK'
  BY <1>3 DEF DeleteRead
<1>4. ASSUME NEW p \in Op, ShareRead(o, p)
      PROVE  TypeOK'
  BY <1>4 DEF ShareRead, HasRow
<1> QED BY <1>1, <1>2, <1>3, <1>4 DEF Arrive

\* So does what the server does on its own.
LEMMA AdvanceType ==
  ASSUME TypeInv, NEW o \in Op, Advance(o)
  PROVE  TypeOK'
<1> USE DEF TypeInv, TypeOK, Label, Goto, Succeeds, Fails, taskVars, diskVars
<1>0. req[o] \in Request /\ pc[o] # "idle" => req[o].page \in Op
  BY DEF RequestInv
<1>1. CASE CreateInsert(o)
  BY <1>0, <1>1 DEF CreateInsert, Request, Row
<1>2. CASE RetryReset(o)
  <2>1. req[o].page \in Op
    BY <1>0, <1>2 DEF RetryReset
  <2>2. [pages EXCEPT ![req[o].page].html = o, ![req[o].page].state = "pending"]
          \in [Op -> Row]
    BY <2>1, RowUpdates DEF Request
  <2> QED BY <1>2, <2>1, <2>2 DEF RetryReset
<1>3. CASE RetryDropOld(o)
  BY <1>3 DEF RetryDropOld
<1>4. CASE Enqueue(o)
  BY <1>0, <1>4 DEF Enqueue
<1>5. CASE TaskStart(o)
  BY <1>5 DEF TaskStart
<1>6. CASE CreateRewrite(o)
  BY <1>6 DEF CreateRewrite
<1>7. CASE CreateLastCheck(o)
  BY <1>7 DEF CreateLastCheck
<1>8. CASE CreateFinalize(o)
  <2>1. [pages EXCEPT ![req[o].page].state = "ready",
                      ![req[o].page].links = req[o].content] \in [Op -> Row]
    BY <1>0, <1>8, RowUpdates, ZenonT(60) DEF CreateFinalize, Request
  <2> QED BY <1>8, <2>1 DEF CreateFinalize
<1>9. CASE CreateOnError(o)
  BY <1>9 DEF CreateOnError
<1>10. CASE CreateMarkFailed(o)
  <2>1. [pages EXCEPT ![req[o].page].state = "failed"] \in [Op -> Row]
    BY <1>0, <1>10, RowUpdates DEF CreateMarkFailed, Request
  <2> QED BY <1>10, <2>1 DEF CreateMarkFailed
<1>11. CASE CreateDropStale(o)
  BY <1>11 DEF CreateDropStale
<1>12. CASE UpdateRead(o)
  BY <1>0, <1>12 DEF UpdateRead
<1>13. CASE UpdateRewrite(o)
  BY <1>13 DEF UpdateRewrite
<1>14. CASE UpdateCommit(o)
  <2>1. [pages EXCEPT ![req[o].page] =
           [@ EXCEPT !.html = o, !.hash = req[o].content, !.state = "ready",
                     !.links = req[o].content]] \in [Op -> Row]
    BY <1>0, <1>14, RowUpdates DEF UpdateCommit, Request
  <2> QED BY <1>14, <2>1 DEF UpdateCommit
<1>15. CASE DeleteRow(o)
  <2>1. NoRow \in Row /\ NoShare \in Share
    BY DEF NoRow, NoShare, Row, Share
  <2> QED BY <1>0, <1>15, <2>1, SMTT(40) DEF DeleteRow
<1>16. CASE QueueOld(o)
  <2>1. old[o] \in Op
    BY <1>16 DEF QueueOld
  <2>2. [path |-> old[o], at |-> clock] \in Record
    BY <2>1 DEF Record
  <2> QED BY <1>16, <2>2 DEF QueueOld
<1>17. CASE ShareReadLinks(o)
  BY <1>0, <1>17 DEF ShareReadLinks, Row
<1>18. CASE ShareInsert(o)
  <2>1. [page |-> req[o].page, html |-> old[o], links |-> rlinks[o],
         active |-> TRUE] \in Share
    BY <1>0, <1>18 DEF ShareInsert, Share
  <2>2. shares' \in [Op -> Share]
    BY <1>18, <2>1 DEF ShareInsert
  <2>3. faults' \in Nat
    BY <1>18 DEF ShareInsert
  <2>4. pc' \in [Op -> Label]
    BY <1>18 DEF ShareInsert
  <2> QED BY <1>18, <2>2, <2>3, <2>4 DEF ShareInsert
<1>19. CASE TaskFinish(o)
  BY <1>0, <1>19 DEF TaskFinish, ForgetTask
<1> QED
  BY <1>1, <1>2, <1>3, <1>4, <1>5, <1>6, <1>7, <1>8, <1>9, <1>10, <1>11, <1>12,
     <1>13, <1>14, <1>15, <1>16, <1>17, <1>18, <1>19 DEF Advance

-----------------------------------------------------------------------------
(* What every step does to files, rows and queue, in five clauses; the      *)
(* invariant follows from them whatever the action was.                    *)

\* An op that has given its file to a row never gives it again.
Spent ==
  \A h \in Op : ~Fresh(h) => ~Fresh(h)' /\ req'[h] = req[h]

\* A row keeps its file or takes that of an op which gives it up just now.
RowStep ==
  \A p \in Op : HasRow(p)' =>
    \/ HasRow(p) /\ pages'[p].html = pages[p].html
    \/ \E h \in Op : /\ pages'[p].html = h /\ req'[h].page = p
                     /\ Fresh(h) /\ ~Fresh(h)'

\* The path an op holds was held before or is read from its page now.
OldStep ==
  \A o \in Op : HoldsOld(o)' =>
    \/ HoldsOld(o) /\ old'[o] = old[o] /\ req'[o] = req[o]
    \/ /\ req'[o].page \in Op /\ HasRow(req'[o].page)
       /\ old'[o] = pages[req'[o].page].html

\* An op gets to QueueOld by taking the path it holds off its page.
GoneStep ==
  \A o \in Op : pc'[o] = "queueOld" =>
    /\ HoldsOld(o) /\ old'[o] = old[o]
    /\ pc[o] # "queueOld" =>
         \A p \in Op, h \in Op : p = req[o].page /\ h = old[o] => ~Shows(p, h)'

\* What enters the queue is a path that QueueOld holds.
QueueStep ==
  \A rec \in queue' :
    rec \in queue \/ \E o \in Op : pc[o] = "queueOld" /\ rec.path = old[o]

FileStep == Spent /\ RowStep /\ OldStep /\ GoneStep /\ QueueStep

\* The five clauses carry the invariant over a step.
LEMMA FileStepInv ==
  ASSUME IInv, FileStep
  PROVE  RowInv' /\ OldInv' /\ GoneInv' /\ QueueInv'
<1> USE DEF IInv, FileStep
<1>1. RowInv'
  <2> SUFFICES ASSUME NEW p \in Op, HasRow(p)'
               PROVE  \E h \in Op : pages'[p].html = h /\ ~Fresh(h)' /\ req'[h].page = p
    BY DEF RowInv
  <2>1. CASE HasRow(p) /\ pages'[p].html = pages[p].html
    BY <2>1 DEF RowInv, Spent
  <2>2. CASE \E h \in Op : /\ pages'[p].html = h /\ req'[h].page = p
                           /\ Fresh(h) /\ ~Fresh(h)'
    BY <2>2
  <2> QED BY <2>1, <2>2 DEF RowStep
<1>2. OldInv'
  <2> SUFFICES ASSUME NEW o \in Op, HoldsOld(o)'
               PROVE  \E h \in Op : old'[o] = h /\ ~Fresh(h)' /\ req'[h].page = req'[o].page
    BY DEF OldInv
  <2>1. CASE HoldsOld(o) /\ old'[o] = old[o] /\ req'[o] = req[o]
    BY <2>1 DEF OldInv, Spent
  <2>2. CASE /\ req'[o].page \in Op /\ HasRow(req'[o].page)
             /\ old'[o] = pages[req'[o].page].html
    BY <2>2 DEF RowInv, Spent
  <2> QED BY <2>1, <2>2 DEF OldStep
<1>3. ASSUME NEW h \in Op, NEW p \in Op, ~Fresh(h), ~Shows(p, h)
      PROVE  ~Shows(p, h)'
  BY <1>3 DEF Shows, RowStep
<1>4. GoneInv'
  <2>0. \A o \in Op : pc'[o] = "queueOld" => old'[o] \in Op
    BY DEF GoneStep, OldInv
  <2> SUFFICES ASSUME NEW o \in Op, NEW p \in Op, pc'[o] = "queueOld",
                      NEW h \in Op, h = old'[o]
               PROVE  ~Shows(p, h)'
    BY <2>0 DEF GoneInv, Shows
  <2>1. /\ HoldsOld(o) /\ h = old[o] /\ ~Fresh(h) /\ req[h].page = req[o].page
    BY DEF GoneStep, OldInv
  <2>2. CASE pc[o] = "queueOld"
    BY <1>3, <2>1, <2>2 DEF GoneInv
  <2>3. CASE pc[o] # "queueOld" /\ p = req[o].page
    BY <2>1, <2>3 DEF GoneStep
  <2>4. CASE p # req[o].page
    BY <1>3, <2>1, <2>4 DEF RowInv, Shows
  <2> QED BY <2>2, <2>3, <2>4
<1>5. QueueInv'
  <2> SUFFICES ASSUME NEW rec \in queue'
               PROVE  ~Fresh(rec.path)' /\ \A p \in Op : ~Shows(p, rec.path)'
    BY DEF QueueInv
  <2>1. rec.path \in Op /\ ~Fresh(rec.path) /\ \A p \in Op : ~Shows(p, rec.path)
    <3>1. CASE rec \in queue
      BY <3>1 DEF QueueInv, TypeOK, Record
    <3>2. CASE \E o \in Op : pc[o] = "queueOld" /\ rec.path = old[o]
      BY <3>2 DEF OldInv, HoldsOld, GoneInv
    <3> QED BY <3>1, <3>2 DEF QueueStep
  <2> QED BY <1>3, <2>1 DEF Spent
<1> QED BY <1>1, <1>2, <1>4, <1>5

-----------------------------------------------------------------------------
(* Every action is a FileStep.                                             *)

\* Most steps only move one op on: no row takes a file, no path is read or
\* queued.
Moves(o, l) ==
  /\ Goto(o, l) /\ UNCHANGED <<req, old>> /\ queue' \subseteq queue
  /\ \A p \in Op : HasRow(p)' => HasRow(p) /\ pages'[p].html = pages[p].html
  /\ pc[o] # "idle"
  /\ l \notin {"idle", "insert", "reset", "dropOld", "queueOld"}
  /\ Fresh(o)' => Fresh(o)
  /\ HoldsOld(o)' => HoldsOld(o)

\* A step that puts no file into a row, reads no path and queues none.
LEMMA MovesFileStep ==
  ASSUME TypeOK, RequestInv, NEW o \in Op, NEW l \in Label, Moves(o, l)
  PROVE  FileStep /\ RequestInv'
<1> USE DEF TypeOK, Moves, Goto
<1>1. Spent
  BY DEF Spent, Fresh
<1>2. RowStep
  BY DEF RowStep
<1>3. OldStep
  BY DEF OldStep, HoldsOld
<1>4. GoneStep
  BY DEF GoneStep, HoldsOld
<1>5. QueueStep
  BY DEF QueueStep
<1>6. RequestInv'
  BY DEF RequestInv, HoldsPageLock
<1> QED BY <1>1, <1>2, <1>3, <1>4, <1>5, <1>6 DEF FileStep

\* The steps of this kind: most of what tasks do between two shared accesses.
LEMMA AdvanceMoves ==
  ASSUME TypeOK, RequestInv, NEW o \in Op,
         \/ RetryDropOld(o) \/ Enqueue(o) \/ TaskStart(o) \/ CreateRewrite(o)
         \/ CreateLastCheck(o) \/ CreateFinalize(o) \/ CreateOnError(o)
         \/ CreateMarkFailed(o) \/ CreateDropStale(o) \/ UpdateRewrite(o)
         \/ ShareReadLinks(o) \/ ShareInsert(o) \/ TaskFinish(o)
  PROVE  \E l \in Label : Moves(o, l)
<1> USE DEF TypeOK, Moves, Goto, Fresh, HoldsOld, HasRow, Label, taskVars, diskVars
<1>1. CASE RetryDropOld(o)
  <2>1. req[o].kind = "create"
    BY <1>1 DEF RetryDropOld, RequestInv, HoldsPageLock
  <2>2. Moves(o, "enqueue")
    BY <1>1, <2>1 DEF RetryDropOld
  <2> QED BY <2>2
<1>2. CASE Enqueue(o)
  <2>1. Moves(o, "start")
    BY <1>2 DEF Enqueue
  <2> QED BY <2>1
<1>3. CASE TaskStart(o)
  <2>1. CASE req[o].kind = "create"
    <3>1. Moves(o, "dropStale") \/ Moves(o, "rewrite")
      BY <1>3, <2>1 DEF TaskStart
    <3> QED BY <3>1
  <2>2. CASE req[o].kind # "create"
    <3>1. Moves(o, "finish") \/ Moves(o, "read")
      BY <1>3, <2>2 DEF TaskStart
    <3> QED BY <3>1
  <2> QED BY <2>1, <2>2
<1>4. CASE CreateRewrite(o)
  <2>1. Moves(o, "dropStale") \/ Moves(o, "written") \/ Moves(o, "onError")
    BY <1>4 DEF CreateRewrite
  <2> QED BY <2>1
<1>5. CASE CreateLastCheck(o)
  <2>1. Moves(o, "dropStale") \/ Moves(o, "finalize")
    BY <1>5 DEF CreateLastCheck
  <2> QED BY <2>1
<1>6. CASE CreateFinalize(o)
  <2>1. \A p \in Op : HasRow(p)' => HasRow(p) /\ pages'[p].html = pages[p].html
    <3>1. CASE /\ HasRow(req[o].page)
               /\ pages' = [pages EXCEPT ![req[o].page].state = "ready",
                                         ![req[o].page].links = req[o].content]
      <4>1. \A p \in Op : p # req[o].page => pages'[p] = pages[p]
        BY <3>1
      <4>2. pages'[req[o].page] = [pages[req[o].page] EXCEPT !.state = "ready",
                                                            !.links = req[o].content]
        BY <1>6, <3>1 DEF CreateFinalize, RequestInv
      <4>3. pages[req[o].page] \in Row
        BY <1>6 DEF CreateFinalize, RequestInv
      <4> QED BY <3>1, <4>1, <4>2, <4>3 DEF Row
    <3> QED BY <1>6, <3>1 DEF CreateFinalize
  <2>2. Moves(o, "finish") \/ Moves(o, "onError")
    BY <1>6, <2>1 DEF CreateFinalize
  <2> QED BY <2>2
<1>7. CASE CreateOnError(o)
  <2>1. Moves(o, "finish") \/ Moves(o, "markFailed")
    BY <1>7 DEF CreateOnError
  <2> QED BY <2>1
<1>8. CASE CreateMarkFailed(o)
  <2>1. \A p \in Op : HasRow(p)' => HasRow(p) /\ pages'[p].html = pages[p].html
    BY <1>8 DEF CreateMarkFailed, Row
  <2>2. Moves(o, "finish")
    BY <1>8, <2>1 DEF CreateMarkFailed
  <2> QED BY <2>2
<1>9. CASE CreateDropStale(o)
  <2>1. Moves(o, "finish")
    BY <1>9 DEF CreateDropStale
  <2> QED BY <2>1
<1>10. CASE UpdateRewrite(o)
  <2>1. Moves(o, "commit") \/ Moves(o, "finish")
    BY <1>10 DEF UpdateRewrite
  <2> QED BY <2>1
<1>11. CASE ShareReadLinks(o)
  <2>1. Moves(o, "insertShare")
    BY <1>11 DEF ShareReadLinks
  <2> QED BY <2>1
<1>12. CASE ShareInsert(o)
  <2>1. Moves(o, "done")
    BY <1>12 DEF ShareInsert
  <2> QED BY <2>1
<1>13. CASE TaskFinish(o)
  <2>1. Moves(o, "done")
    BY <1>13 DEF TaskFinish
  <2> QED BY <2>1
<1> QED
  BY <1>1, <1>2, <1>3, <1>4, <1>5, <1>6, <1>7, <1>8, <1>9, <1>10, <1>11, <1>12, <1>13

\* The steps that put a file into a row, read a path or queue one.
LEMMA AdvanceFileStep ==
  ASSUME IInv, NEW o \in Op, Advance(o)
  PROVE  FileStep /\ RequestInv'
<1> USE DEF IInv, TypeOK, Goto
<1>0. /\ pc[o] # "idle" => req[o].page \in Op
      /\ \A p \in Op : pages[p] \in Row
  BY DEF RequestInv
<1>1. CASE CreateInsert(o)
  <2>1. req[o].page = o /\ req[o].kind = "create"
    BY <1>1 DEF CreateInsert, RequestInv, HoldsPageLock
  <2>2. /\ Fresh(o) /\ ~Fresh(o)' /\ UNCHANGED <<req, old, queue>>
        /\ pc'[o] \in {"enqueue", "done"}
        /\ \A h \in Op : h # o => pc'[h] = pc[h]
    BY <1>1, <2>1 DEF CreateInsert, Fresh
  <2>3. \A p \in Op : HasRow(p)' =>
          \/ HasRow(p) /\ pages'[p].html = pages[p].html
          \/ p = o /\ pages'[p].html = o
    BY <1>1 DEF CreateInsert, HasRow
  <2>4. Spent /\ QueueStep
    BY <2>2 DEF Spent, Fresh, QueueStep
  <2>5. RowStep
    BY <2>1, <2>2, <2>3 DEF RowStep
  <2>6. OldStep /\ GoneStep
    BY <2>1, <2>2 DEF OldStep, GoneStep, HoldsOld
  <2>7. RequestInv'
    BY <2>1, <2>2 DEF RequestInv, HoldsPageLock
  <2> QED BY <2>4, <2>5, <2>6, <2>7 DEF FileStep
<1>2. CASE RetryReset(o)
  <2>1. req[o].page \in Op /\ req[o].kind = "create"
    BY <1>2 DEF RetryReset, RequestInv, HoldsPageLock
  <2>2. /\ Fresh(o) /\ ~Fresh(o)' /\ UNCHANGED <<req, queue>>
        /\ pc'[o] \in {"dropOld", "done"}
        /\ \A h \in Op : h # o => pc'[h] = pc[h] /\ old'[h] = old[h]
    BY <1>2, <2>1 DEF RetryReset, Fresh
  <2>3. \A p \in Op : HasRow(p)' =>
          \/ HasRow(p) /\ pages'[p].html = pages[p].html
          \/ p = req[o].page /\ pages'[p].html = o
    <3>1. CASE pages' = [pages EXCEPT ![req[o].page].html = o,
                                      ![req[o].page].state = "pending"]
      BY <1>0, <2>1, <3>1 DEF HasRow, Row
    <3> QED BY <1>2, <3>1 DEF RetryReset, HasRow
  <2>4. Spent /\ QueueStep
    BY <2>2 DEF Spent, Fresh, QueueStep
  <2>5. RowStep
    BY <2>1, <2>2, <2>3 DEF RowStep
  <2>6. OldStep /\ GoneStep
    BY <2>1, <2>2 DEF OldStep, GoneStep, HoldsOld
  <2>7. RequestInv'
    BY <2>1, <2>2 DEF RequestInv, HoldsPageLock
  <2> QED BY <2>4, <2>5, <2>6, <2>7 DEF FileStep
<1>3. CASE UpdateRead(o)
  <2>1. /\ Fresh(o) /\ UNCHANGED <<req, queue, pages>>
        /\ req[o].page \in Op
        /\ \/ pc'[o] = "finish"
           \/ /\ pc'[o] = "rewrite" /\ HasRow(req[o].page)
              /\ old'[o] = pages[req[o].page].html
        /\ \A h \in Op : h # o => pc'[h] = pc[h] /\ old'[h] = old[h]
    BY <1>0, <1>3 DEF UpdateRead, Fresh
  <2>2. Spent /\ RowStep /\ QueueStep
    BY <2>1 DEF Spent, Fresh, RowStep, HasRow, QueueStep
  <2>3. OldStep /\ GoneStep
    BY <2>1 DEF OldStep, GoneStep, HoldsOld
  <2>4. RequestInv'
    BY <2>1 DEF RequestInv, HoldsPageLock
  <2> QED BY <2>2, <2>3, <2>4 DEF FileStep
<1>4. CASE UpdateCommit(o)
  <2>1. /\ Fresh(o) /\ ~Fresh(o)' /\ UNCHANGED <<req, old, queue>>
        /\ req[o].page \in Op /\ HoldsOld(o)
        /\ pc'[o] \in {"queueOld", "finish"}
        /\ \A h \in Op : h # o => pc'[h] = pc[h]
    BY <1>0, <1>4 DEF UpdateCommit, Fresh, HoldsOld
  <2> DEFINE row == [pages[req[o].page] EXCEPT !.html = o, !.hash = req[o].content,
                                              !.state = "ready", !.links = req[o].content]
  <2>0. \/ pages' = [pages EXCEPT ![req[o].page] = row]
        \/ UNCHANGED pages /\ (pc'[o] = "finish" \/ ~HasRow(req[o].page))
    BY <1>4, <2>1 DEF UpdateCommit
  <2>10. row.html = o
    BY <1>0, <2>1 DEF Row
  <2> HIDE DEF row
  <2>2. \A p \in Op : HasRow(p)' =>
          \/ HasRow(p) /\ pages'[p].html = pages[p].html
          \/ p = req[o].page /\ pages'[p].html = o
    BY <2>0, <2>1, <2>10 DEF HasRow
  <2>3. pc'[o] = "queueOld" =>
          (HasRow(req[o].page)' => pages'[req[o].page].html = o)
    BY <2>0, <2>1, <2>10 DEF HasRow
  <2>4. Spent /\ QueueStep
    BY <2>1 DEF Spent, Fresh, QueueStep
  <2>5. RowStep
    BY <2>1, <2>2 DEF RowStep
  <2>6. OldStep
    BY <2>1 DEF OldStep, HoldsOld
  <2>7. old[o] # o
    BY <2>1 DEF OldInv
  <2>8. GoneStep
    BY <2>1, <2>3, <2>7 DEF GoneStep, HoldsOld, Shows
  <2>9. RequestInv'
    BY <2>1 DEF RequestInv, HoldsPageLock
  <2> QED BY <2>4, <2>5, <2>6, <2>8, <2>9 DEF FileStep
<1>5. CASE DeleteRow(o)
  <2>1. /\ ~Fresh(o)' /\ UNCHANGED <<req, old, queue>>
        /\ req[o].page \in Op /\ HoldsOld(o)
        /\ pc'[o] = "queueOld" => ~HasRow(req[o].page)'
        /\ pc'[o] \in {"queueOld", "done"}
        /\ \A h \in Op : h # o => pc'[h] = pc[h]
    BY <1>0, <1>5 DEF DeleteRow, Fresh, HoldsOld, HasRow, NoRow
  <2>2. \A p \in Op : HasRow(p)' => HasRow(p) /\ pages'[p].html = pages[p].html
    BY <1>5 DEF DeleteRow, HasRow, NoRow
  <2>3. Spent /\ QueueStep
    BY <2>1 DEF Spent, Fresh, QueueStep
  <2>4. RowStep
    BY <2>2 DEF RowStep
  <2>5. OldStep /\ GoneStep
    BY <2>1 DEF OldStep, GoneStep, HoldsOld, Shows
  <2>6. RequestInv'
    BY <2>1 DEF RequestInv, HoldsPageLock
  <2> QED BY <2>3, <2>4, <2>5, <2>6 DEF FileStep
<1>6. CASE QueueOld(o)
  <2>1. /\ ~Fresh(o)' /\ UNCHANGED <<req, old, pages>>
        /\ pc'[o] \in {"finish", "done"} /\ pc[o] = "queueOld"
        /\ \A h \in Op : h # o => pc'[h] = pc[h]
        /\ queue' \subseteq queue \union {[path |-> old[o], at |-> clock]}
    BY <1>6 DEF QueueOld, Fresh
  <2>2. Spent /\ RowStep /\ QueueStep
    BY <2>1 DEF Spent, Fresh, RowStep, HasRow, QueueStep
  <2>3. OldStep /\ GoneStep
    BY <2>1 DEF OldStep, GoneStep, HoldsOld
  <2>4. RequestInv'
    BY <2>1 DEF RequestInv, HoldsPageLock
  <2> QED BY <2>2, <2>3, <2>4 DEF FileStep
<1> QED
  <2> HIDE DEF IInv, TypeOK, Goto
  <2>1. TypeOK /\ RequestInv
    BY DEF IInv
  <2>2. ASSUME \E l \in Label : Moves(o, l)
        PROVE  FileStep /\ RequestInv'
    BY <2>1, <2>2, MovesFileStep
  <2> QED
    BY <1>1, <1>2, <1>3, <1>4, <1>5, <1>6, <2>1, <2>2, AdvanceMoves DEF Advance

\* The requests that arrive: only a delete reads a path to queue later.
LEMMA ArriveFileStep ==
  ASSUME IInv, NEW o \in Op, Arrive(o)
  PROVE  FileStep /\ RequestInv'
<1> USE DEF IInv, TypeOK, Goto, Accept
<1>1. /\ pc[o] = "idle" /\ UNCHANGED <<queue, pages>>
      /\ \A h \in Op : h # o => pc'[h] = pc[h] /\ old'[h] = old[h] /\ req'[h] = req[h]
  BY DEF Arrive, CreateLookup, AnswerHit, SaveNew, UpdateRequest, DeleteRead, ShareRead,
         diskVars
<1> DEFINE Accepted ==
      /\ req'[o].page \in Op
      /\ \/ pc'[o] \in {"insert", "reset"} /\ req'[o].kind = "create"
         \/ pc'[o] \in {"done", "enqueue", "deleteRow", "readLinks"}
      /\ pc'[o] = "insert" => req'[o].page = o
      /\ pc'[o] = "deleteRow" => /\ HasRow(req'[o].page)
                                 /\ old'[o] = pages[req'[o].page].html
<1>2. Accepted
  <2>1. ASSUME NEW u \in Url, NEW c \in Content, CreateLookup(o, u, c)
        PROVE  Accepted
    <3>1. CASE AnswerHit(o, u, c)
      BY <3>1 DEF AnswerHit, Hits, HitsIn
    <3>2. CASE SaveNew(o, u, c)
      BY <3>2 DEF SaveNew, Hits, HitsIn
    <3> QED BY <2>1, <3>1, <3>2 DEF CreateLookup
  <2>2. ASSUME NEW p \in Op, NEW c \in Content, UpdateRequest(o, p, c)
        PROVE  Accepted
    BY <2>2 DEF UpdateRequest
  <2>3. ASSUME NEW p \in Op, DeleteRead(o, p)
        PROVE  Accepted
    BY <2>3 DEF DeleteRead
  <2>4. ASSUME NEW p \in Op, ShareRead(o, p)
        PROVE  Accepted
    BY <2>4 DEF ShareRead
  <2> QED BY <2>1, <2>2, <2>3, <2>4 DEF Arrive
<1>3. Fresh(o)
  BY <1>1 DEF Fresh
<1>4. Spent /\ RowStep /\ QueueStep
  BY <1>1, <1>3 DEF Spent, Fresh, RowStep, HasRow, QueueStep
<1>5. OldStep /\ GoneStep
  BY <1>1, <1>2 DEF OldStep, GoneStep, HoldsOld
<1>6. RequestInv'
  BY <1>1, <1>2 DEF RequestInv, HoldsPageLock
<1> QED BY <1>4, <1>5, <1>6 DEF FileStep

-----------------------------------------------------------------------------
(* The theorems.                                                           *)

\* The seeded pages show their own file, and no path is held or queued.
LEMMA InitInv == Init => IInv
<1> SUFFICES ASSUME Init PROVE IInv
  OBVIOUS
<1>1. PICK u \in [Seeded -> Url], c \in [Seeded -> Content] : Init!1!(u, c)
  BY DEF Init
<1>2. \A p \in Op : pages[p] = IF p \in Seeded
                              THEN [state |-> "ready", url |-> u[p], hash |-> c[p],
                                    html |-> p, links |-> c[p]]
                              ELSE NoRow
  BY <1>1
<1>3. TypeOK
  <2> USE SetsAssumption DEF Row, Request, Kind, NoRow, NoRequest
  <2>1. pages \in [Op -> Row]
    BY <1>1
  <2>2. req \in [Op -> Request]
    BY <1>1
  <2> QED
    BY <2>1, <2>2 DEF Init, TypeOK, Label, Share, NoShare, Record
<1>4. \A p \in Op : HasRow(p) => p \in Seeded /\ pages[p].html = p
  <2>1. ASSUME NEW p \in Op, p \in Seeded
        PROVE  pages[p].html = p
    <3>1. pages[p] = [state |-> "ready", url |-> u[p], hash |-> c[p],
                      html |-> p, links |-> c[p]]
      BY <1>2, <2>1
    <3> QED BY <3>1
  <2>2. ASSUME NEW p \in Op, p \notin Seeded
        PROVE  pages[p].state = "absent"
    <3>1. pages[p] = NoRow
      BY <1>2, <2>2
    <3> QED BY <3>1 DEF NoRow
  <2> QED BY <2>1, <2>2 DEF HasRow
<1>5. \A o \in Op : /\ o \in Seeded => req[o].page = o /\ pc[o] = "done"
                    /\ pc[o] \in {"idle", "done"}
                    /\ o \notin Seeded => pc[o] = "idle"
  BY <1>1 DEF Init
<1>6. queue = {}
  BY DEF Init
<1> QED
  BY <1>3, <1>4, <1>5, <1>6
  DEF IInv, RequestInv, RowInv, OldInv, GoneInv, QueueInv, HoldsOld, Fresh, HoldsPageLock

\* Every step of Next is a FileStep or leaves the files, rows and queue alone.
LEMMA NextInv == IInv /\ [Next]_vars => IInv'
<1> SUFFICES ASSUME IInv, [Next]_vars PROVE IInv'
  OBVIOUS
<1>1. TypeInv
  BY DEF IInv, TypeInv, RowInv, OldInv, HoldsOld
<1>2. ASSUME TypeOK', FileStep /\ RequestInv'
      PROVE  IInv'
  BY <1>2, FileStepInv DEF IInv
<1>3. ASSUME NEW o \in Op, Arrive(o)
      PROVE  IInv'
  BY <1>1, <1>2, <1>3, ArriveType, ArriveFileStep
<1>4. ASSUME NEW o \in Op, Advance(o)
      PROVE  IInv'
  BY <1>1, <1>2, <1>4, AdvanceType, AdvanceFileStep
<1>5. ASSUME NEW s \in Op, ShareEnd(s)
      PROVE  IInv'
  <2>1. TypeOK'
    BY <1>5, ZenonT(60) DEF IInv, TypeOK, ShareEnd, Share, taskVars
  <2> QED
    BY <1>5, <2>1 DEF IInv, ShareEnd, taskVars, RequestInv, RowInv, OldInv, GoneInv,
                      QueueInv, HoldsOld, Fresh, HoldsPageLock, Shows, HasRow
<1>6. ASSUME NEW rec \in queue, Cleanup(rec)
      PROVE  IInv'
  <2>1. TypeOK'
    BY <1>6 DEF IInv, TypeOK, Cleanup, taskVars
  <2> QED
    BY <1>6, <2>1 DEF IInv, Cleanup, taskVars, RequestInv, RowInv, OldInv, GoneInv,
                      QueueInv, HoldsOld, Fresh, HoldsPageLock, Shows, HasRow
<1>7. CASE Tick
  <2>1. TypeOK'
    BY <1>7 DEF IInv, TypeOK, Tick, taskVars, diskVars
  <2> QED
    BY <1>7, <2>1 DEF IInv, Tick, taskVars, diskVars, RequestInv, RowInv, OldInv, GoneInv,
                      QueueInv, HoldsOld, Fresh, HoldsPageLock, Shows, HasRow
<1>8. CASE Crash
  <2>1. TypeOK'
    BY <1>8 DEF IInv, TypeOK, Crash, diskVars, Label
  <2>2. /\ UNCHANGED <<req, old, pages, queue>>
        /\ \A o \in Op : pc'[o] = IF InFlight(o) THEN "done" ELSE pc[o]
    BY <1>8 DEF Crash, diskVars
  <2> QED
    BY <2>1, <2>2 DEF IInv, TypeOK, InFlight, RequestInv, RowInv, OldInv, GoneInv,
                      QueueInv, HoldsOld, Fresh, HoldsPageLock, Shows, HasRow, Record
<1>9. CASE UNCHANGED vars
  BY <1>9 DEF vars, IInv, TypeOK, RequestInv, RowInv, OldInv, GoneInv, QueueInv,
              HoldsOld, Fresh, HoldsPageLock, Shows, HasRow
<1> QED BY <1>3, <1>4, <1>5, <1>6, <1>7, <1>8, <1>9 DEF Next

\* The inductive invariant holds, for any number of requests, faults, crashes.
THEOREM Invariance == Spec => []IInv
<1> QED BY InitInv, NextInv, PTL DEF Spec

\* Every variable keeps its type: no handler follows a reference to a page or a
\* file that is not there.
THEOREM TypeCorrect == Spec => []TypeOK
<1>1. IInv => TypeOK
  BY DEF IInv
<1> QED BY <1>1, Invariance, PTL

\* The cleanup of superseded files never takes the HTML of a page: however
\* creates, retries, updates, deletions, failed calls and crashes interleave, no
\* queued path is the html_path of a row.
THEOREM LiveNeverQueued == Spec => []NoLiveQueued
<1>1. IInv => NoLiveQueued
  BY DEF IInv, QueueInv, Shows, NoLiveQueued
<1> QED BY <1>1, Invariance, PTL

\* Two pages never show the same file, so deleting one leaves the other whole.
HtmlUnique ==
  \A p, q \in Op : HasRow(p) /\ HasRow(q) /\ pages[p].html = pages[q].html => p = q

\* No step makes two rows show one file: an op inserts its own HTML once.
THEOREM HtmlNeverShared == Spec => []HtmlUnique
<1>1. IInv => HtmlUnique
  BY DEF IInv, RowInv, HtmlUnique
<1> QED BY <1>1, Invariance, PTL
-----------------------------------------------------------------------------
(* A ready page has its file.                                              *)
(*                                                                         *)
(* ReadyHasFile is not inductive: a create task finalizes a row it has not   *)
(* read again, after other tasks may have changed or deleted its file.  What *)
(* makes it true is that a page has one create task at a time, that a task   *)
(* finds its own file in the row or that of an update that has committed,   *)
(* and that a task deletes only a file whose row it will never make ready.  *)

\* What an op at a label was asked.
KindInv ==
  \A o \in Op :
    /\ pc[o] = "idle" => req[o].kind = Null
    /\ pc[o] \in {"insert", "reset", "dropOld", "written", "finalize", "onError",
                  "markFailed", "dropStale"} => req[o].kind = "create"
    /\ pc[o] \in {"enqueue", "start", "rewrite"} => req[o].kind \in {"create", "update"}
    /\ pc[o] \in {"read", "commit"} => req[o].kind = "update"
    /\ pc[o] = "deleteRow" => req[o].kind = "delete"
    /\ pc[o] = "queueOld" => req[o].kind \in {"update", "delete"}
    /\ pc[o] \in {"readLinks", "insertShare"} => req[o].kind = "share"

\* The row an op may insert is not there before, and nobody works on it.
UnusedInv ==
  \A o \in Op : pc[o] \in {"idle", "insert"} =>
    /\ ~HasRow(o)
    /\ \A q \in Op \ {o} : pc[q] # "idle" => req[q].page # o

\* o retries or creates its page, or runs its create task and may still finalize
\* the page or mark it failed.
CreateTask(o) ==
  /\ req[o].kind = "create"
  /\ pc[o] \in {"reset", "dropOld", "enqueue", "start", "rewrite", "written",
                "finalize", "onError", "markFailed"}

\* A page has one create task at a time: a retry needs a failed page.
TaskAlone ==
  \A o, q \in Op : CreateTask(o) /\ CreateTask(q) /\ req[o].page = req[q].page => o = q

\* What a create task knows of the row of its page.
TaskRow(o) ==
  LET row == pages[req[o].page] IN
  IF pc[o] = "reset"
  THEN row.state = "failed" => row.url = req[o].url /\ row.hash = req[o].content
  ELSE row.state # "failed" /\ (row.html = o \/ req[row.html].kind = "update")

TaskInv ==
  TaskAlone /\ \A o \in Op : CreateTask(o) /\ HasRow(req[o].page) => TaskRow(o)

\* The file a retry removes is no row's.
DropInv ==
  \A o \in Op : pc[o] = "dropOld" =>
    /\ old[o] \in Op /\ ~Fresh(old[o]) /\ req[old[o]].page = req[o].page
    /\ \A p \in Op : ~Shows(p, old[o])

\* The file a row shows: an update's is whole, a create's once it may be ready,
\* and then its task is past all steps that delete or rewrite it.
WholeRow(p) ==
  LET h == pages[p].html IN
  /\ req[h].kind \in {"create", "update"}
  /\ req[h].kind = "update" => files[h] = "rewritten"
  /\ pc[h] \in {"written", "finalize"} => files[h] = "rewritten"
  /\ req[h].kind = "create" /\ pages[p].state = "ready" =>
       files[h] = "rewritten" /\ pc[h] \in {"finish", "done"}

WholeInv ==
  /\ \A o \in Op : pc[o] = "commit" => files[o] = "rewritten"
  /\ \A p \in Op : HasRow(p) => WholeRow(p)

FilesInv == KindInv /\ UnusedInv /\ TaskInv /\ DropInv /\ WholeInv

\* The row of p takes this file, state and hash; its URL and the other rows stay.
Writes(p, html, state, hash) ==
  /\ p \in Op /\ HasRow(p)
  /\ \A q \in Op \ {p} : pages'[q] = pages[q]
  /\ pages'[p].html = html /\ pages'[p].state = state /\ pages'[p].hash = hash
  /\ pages'[p].url = pages[p].url

\* The four steps of a task that write a row, by what they write into it.
LEMMA RowWrites ==
  ASSUME TypeOK, RequestInv, NEW o \in Op
  PROVE  LET p == req[o].page IN
         /\ RetryReset(o) => \/ UNCHANGED pages /\ pc'[o] = "done"
                             \/ Writes(p, o, "pending", pages[p].hash) /\ pc'[o] = "dropOld"
         /\ CreateFinalize(o) =>
              \/ UNCHANGED pages
              \/ Writes(p, pages[p].html, "ready", pages[p].hash) /\ pc'[o] = "finish"
         /\ CreateMarkFailed(o) =>
              UNCHANGED pages \/ Writes(p, pages[p].html, "failed", pages[p].hash)
         /\ UpdateCommit(o) =>
              \/ UNCHANGED pages
              \/ /\ Writes(p, o, "ready", req[o].content)
                 /\ pages'[p].links = req[o].content /\ pc'[o] = "queueOld"
<1> DEFINE p == req[o].page
<1>0. /\ pc[o] # "idle" => p \in Op
      /\ \A q \in Op : pages[q] \in Row
  BY DEF TypeOK, RequestInv
<1>1. RetryReset(o) => \/ UNCHANGED pages /\ pc'[o] = "done"
                       \/ Writes(p, o, "pending", pages[p].hash) /\ pc'[o] = "dropOld"
  <2>1. ASSUME RetryReset(o), pc'[o] # "done"
        PROVE  Writes(p, o, "pending", pages[p].hash) /\ pc'[o] = "dropOld"
    <3> DEFINE row == [pages[p] EXCEPT !.html = o, !.state = "pending"]
    <3>1. /\ pages' = [pages EXCEPT ![p].html = o, ![p].state = "pending"]
          /\ HasRow(p) /\ p \in Op /\ pc'[o] = "dropOld"
      BY <1>0, <2>1 DEF RetryReset, TypeOK, Goto
    <3>2. /\ row.html = o /\ row.hash = pages[p].hash /\ row.state = "pending"
          /\ row.url = pages[p].url
      BY <1>0, <3>1 DEF Row
    <3>3. pages' = [pages EXCEPT ![p] = row]
      BY <1>0, <3>1 DEF TypeOK, Row
    <3> HIDE DEF row
    <3> QED BY <3>1, <3>2, <3>3 DEF Writes, TypeOK
  <2>2. RetryReset(o) /\ pc'[o] = "done" => UNCHANGED pages
    BY <1>0 DEF RetryReset, TypeOK, Goto
  <2> HIDE DEF p
  <2> QED BY <2>1, <2>2
<1>2. CreateFinalize(o) =>
        \/ UNCHANGED pages
        \/ Writes(p, pages[p].html, "ready", pages[p].hash) /\ pc'[o] = "finish"
  BY <1>0 DEF CreateFinalize, Writes, HasRow, Row, TypeOK, Goto
<1>3. CreateMarkFailed(o) =>
        UNCHANGED pages \/ Writes(p, pages[p].html, "failed", pages[p].hash)
  BY <1>0 DEF CreateMarkFailed, Writes, HasRow, Row, TypeOK
<1>4. UpdateCommit(o) => \/ UNCHANGED pages
                         \/ /\ Writes(p, o, "ready", req[o].content)
                            /\ pages'[p].links = req[o].content /\ pc'[o] = "queueOld"
  <2>1. ASSUME UpdateCommit(o), ~UNCHANGED pages
        PROVE  /\ Writes(p, o, "ready", req[o].content)
               /\ pages'[p].links = req[o].content /\ pc'[o] = "queueOld"
    <3> DEFINE row == [pages[p] EXCEPT !.html = o, !.hash = req[o].content,
                                       !.state = "ready", !.links = req[o].content]
    <3>1. pages' = [pages EXCEPT ![p] = row] /\ HasRow(p) /\ pc'[o] = "queueOld"
      BY <2>1 DEF UpdateCommit, Goto, TypeOK
    <3>2. /\ row.html = o /\ row.hash = req[o].content /\ row.state = "ready"
          /\ row.url = pages[p].url /\ p \in Op /\ row.links = req[o].content
      BY <1>0, <2>1 DEF Row, UpdateCommit
    <3> HIDE DEF row
    <3> QED BY <3>1, <3>2 DEF Writes, TypeOK
  <2> HIDE DEF p
  <2> QED BY <2>1
<1> QED BY <1>1, <1>2, <1>3, <1>4
\* What the server does on its own keeps the facts behind ReadyHasFile.
LEMMA AdvanceFiles ==
  ASSUME IInv, IInv', FilesInv, NEW o \in Op, Advance(o)
  PROVE  FilesInv'
<1> USE DEF IInv, TypeOK, RequestInv, RowInv, FilesInv, KindInv, UnusedInv, TaskInv, TaskAlone,
            TaskRow, DropInv, WholeInv, WholeRow, CreateTask, Fresh, Shows, Goto, Succeeds,
            Fails, taskVars, diskVars, HasRow, HoldsPageLock
<1>0. TypeOK /\ RequestInv
  OBVIOUS
<1>1. CASE CreateInsert(o)
  <2>1. /\ pc[o] = "insert" /\ pc'[o] \in {"enqueue", "done"} /\ UNCHANGED <<req, old>>
        /\ req[o].page = o /\ req[o].kind = "create"
        /\ \A q \in Op \ {o} : pc'[q] = pc[q]
        /\ \A q \in Op \ {o} : pages'[q] = pages[q] /\ files'[q] = files[q]
        /\ pc'[o] = "enqueue" => /\ pages'[o].html = o /\ pages'[o].state = "pending"
                                 /\ UNCHANGED files
        /\ pc'[o] = "done" => UNCHANGED pages
    BY <1>1 DEF CreateInsert
  <2>2. TaskInv'
    <3>1. TaskAlone' /\ \A q \in Op \ {o} : (CreateTask(q) /\ HasRow(req[q].page))' => TaskRow(q)'
      <4>1. TaskAlone'
        <5> HIDE DEF KindInv, DropInv, WholeInv, RowInv, TaskRow
        <5> QED BY <2>1
      <4>2. ASSUME NEW q \in Op \ {o}, CreateTask(q)', HasRow(req[q].page)' PROVE TaskRow(q)'
        <5>1. CreateTask(q) /\ req[q].page \in Op \ {o} /\ HasRow(req[q].page)
          BY <2>1, <4>2
        <5> QED BY <2>1, <4>2, <5>1
      <4> QED BY <4>1, <4>2
    <3>2. (CreateTask(o) /\ HasRow(req[o].page))' => TaskRow(o)'
      BY <2>1
    <3> QED
      <4> HIDE DEF IInv, FilesInv, TaskAlone, TaskRow, CreateTask
      <4> QED BY <3>1, <3>2, SMTT(40)
  <2>3. WholeInv'
    <3>1. ASSUME NEW p \in Op, HasRow(p)' PROVE WholeRow(p)'
      <4>1. CASE p = o
        BY <2>1, <3>1, <4>1
      <4>2. CASE p # o
        BY <2>1, <3>1, <4>2
      <4> QED BY <4>1, <4>2
    <3> QED BY <2>1, <3>1
  <2>4. KindInv' /\ UnusedInv'
    BY <2>1
  <2>5. DropInv'
    BY <1>1 DEF CreateInsert
  <2> QED BY <2>2, <2>3, <2>4, <2>5
<1>2. CASE RetryReset(o)
  <2>1. /\ pc[o] = "reset" /\ UNCHANGED req
        /\ \A q \in Op \ {o} : pc'[q] = pc[q]
        /\ files' = IF pc'[o] = "done" THEN [files EXCEPT ![o] = "none"] ELSE files
        /\ old' = IF pc'[o] = "done" THEN old
                  ELSE [old EXCEPT ![o] = pages[req[o].page].html]
    <3> HIDE DEF FilesInv, RowInv
    <3> QED BY <1>2, SMTT(40) DEF RetryReset
  <2>2. \/ UNCHANGED pages /\ pc'[o] = "done"
        \/ /\ Writes(req[o].page, o, "pending", pages[req[o].page].hash)
           /\ pc'[o] = "dropOld"
    BY <1>0, <1>2, RowWrites
  <2>3. KindInv'
    BY <2>1, <2>2
  <2>4. UnusedInv'
    <3> HIDE DEF TaskInv, DropInv, WholeInv
    <3> QED BY <2>1, <2>2, SMTT(40) DEF Writes
  <2>5. TaskInv'
    <3>1. TaskAlone'
      BY <2>1
    <3>2. \A q \in Op \ {o} : (CreateTask(q) /\ HasRow(req[q].page))' => TaskRow(q)'
      <4>1. ASSUME NEW q \in Op \ {o}, CreateTask(q)', HasRow(req[q].page)' PROVE TaskRow(q)'
        <5>1. CreateTask(q) /\ req[q].page \in Op /\ req[q].page # req[o].page
          BY <2>1, <4>1
        <5>2. pages'[req[q].page] = pages[req[q].page]
          BY <2>2, <5>1 DEF Writes
        <5> QED BY <2>1, <4>1, <5>1, <5>2
      <4> QED BY <4>1
    <3>3. (CreateTask(o) /\ HasRow(req[o].page))' => TaskRow(o)'
      BY <2>1, <2>2 DEF Writes
    <3> QED BY <3>1, <3>2, <3>3
  <2>6. DropInv'
    <3>2. \A p \in Op \ {req[o].page} : pages'[p] = pages[p]
      BY <2>2 DEF Writes
    <3>3. pc'[o] = "dropOld" => pages'[req[o].page].html = o /\ req[o].page \in Op
      BY <2>1, <2>2 DEF Writes
    <3>4. ASSUME NEW q \in Op \ {o}, pc'[q] = "dropOld", NEW h, h = old[q]
          PROVE  /\ h = old'[q] /\ h \in Op /\ ~Fresh(h)' /\ req'[h].page = req'[q].page
                 /\ \A p \in Op : ~Shows(p, h)'
      <4>1. /\ pc[q] = "dropOld" /\ old'[q] = h
            /\ h \in Op /\ ~Fresh(h) /\ req[h].page = req[q].page
            /\ \A p \in Op : ~Shows(p, h)
        BY <2>1, <3>4
      <4>2. h # o /\ ~Fresh(h)'
        BY <2>1, <4>1
      <4>3. \A p \in Op : ~Shows(p, h)'
        BY <2>1, <2>2, <3>2, <3>3, <4>1, <4>2
      <4> QED BY <2>1, <4>1, <4>2, <4>3
    <3>5. ASSUME pc'[o] = "dropOld", NEW h, h = pages[req[o].page].html
          PROVE  /\ h = old'[o] /\ h \in Op /\ ~Fresh(h)' /\ req'[h].page = req'[o].page
                 /\ \A p \in Op : ~Shows(p, h)'
      <4>1. HasRow(req[o].page) /\ req[o].page \in Op /\ h = old'[o]
        BY <2>1, <2>2, <3>5 DEF Writes
      <4>2. h \in Op /\ ~Fresh(h) /\ req[h].page = req[o].page
        <5>1. \A p \in Op : HasRow(p) => /\ pages[p].html \in Op /\ ~Fresh(pages[p].html)
                                        /\ req[pages[p].html].page = p
          OBVIOUS
        <5> HIDE DEF Fresh, HasRow, IInv, TypeOK, FilesInv
        <5> QED BY <3>5, <4>1, <5>1
      <4>3. h # o /\ ~Fresh(h)'
        BY <2>1, <4>2
      <4>4. \A p \in Op : ~Shows(p, h)'
        BY <3>2, <3>3, <3>5, <4>1, <4>2, <4>3
      <4> QED BY <2>1, <4>1, <4>2, <4>3, <4>4
    <3> QED BY <3>4, <3>5
  <2>7. WholeInv'
    <3> HIDE DEF DropInv, UnusedInv, TaskInv
    <3>1. \A q \in Op : pc'[q] = "commit" => files'[q] = "rewritten"
      BY <2>1, <2>2
    <3>2. ASSUME NEW p \in Op, HasRow(p)', p # req[o].page PROVE WholeRow(p)'
      BY <2>1, <2>2, <3>2 DEF Writes
    <3>3. HasRow(req[o].page)' /\ req[o].page \in Op => WholeRow(req[o].page)'
      BY <2>1, <2>2 DEF Writes
    <3> QED BY <2>1, <3>1, <3>2, <3>3
  <2> QED BY <2>3, <2>4, <2>5, <2>6, <2>7
<1>3. CASE RetryDropOld(o)
  BY <1>3, SMTT(40) DEF RetryDropOld
<1>4. CASE Enqueue(o)
  BY <1>4, SMTT(40) DEF Enqueue
<1>5. CASE TaskStart(o)
  BY <1>5, SMTT(40) DEF TaskStart
<1>6. CASE CreateRewrite(o)
  BY <1>6, SMTT(40) DEF CreateRewrite
<1>7. CASE CreateLastCheck(o)
  BY <1>7, SMTT(40) DEF CreateLastCheck
<1>8. CASE CreateFinalize(o)
  <2>1. /\ pc[o] = "finalize" /\ pc'[o] \in {"finish", "onError"} /\ UNCHANGED <<req, old, files>>
        /\ \A q \in Op \ {o} : pc'[q] = pc[q]
    <3> HIDE DEF FilesInv, RowInv
    <3> QED BY <1>8, SMTT(40) DEF CreateFinalize
  <2>2. \/ UNCHANGED pages
        \/ /\ Writes(req[o].page, pages[req[o].page].html, "ready", pages[req[o].page].hash)
           /\ pc'[o] = "finish"
    BY <1>0, <1>8, RowWrites
  <2>3. KindInv' /\ UnusedInv'
    <3> HIDE DEF TaskInv, DropInv, WholeInv
    <3> QED BY <2>1, <2>2, SMTT(40) DEF Writes
  <2>4. TaskInv'
    <3>1. TaskAlone'
      BY <2>1
    <3>2. ASSUME NEW q \in Op, CreateTask(q)', HasRow(req[q].page)' PROVE TaskRow(q)'
      <4>1. CASE UNCHANGED pages
        BY <2>1, <3>2, <4>1
      <4>2. CASE pc'[o] = "finish"
        <5>1. q # o /\ CreateTask(q) /\ req[q].page \in Op /\ req[q].page # req[o].page
          BY <2>1, <3>2, <4>2
        <5> QED
          <6> HIDE DEF UnusedInv, DropInv, WholeInv
          <6> QED BY <2>1, <2>2, <3>2, <5>1, SMTT(40) DEF Writes
      <4> QED BY <2>2, <4>1, <4>2
    <3> QED
      <4> HIDE DEF IInv, FilesInv, TaskAlone, TaskRow, CreateTask
      <4> QED BY <2>1, <3>1, <3>2, SMTT(40)
  <2>5. DropInv'
    <3> HIDE DEF KindInv, UnusedInv, TaskInv, WholeInv
    <3> QED BY <2>1, <2>2, SMTT(40) DEF Writes
  <2>6. WholeInv'
    <3>1. CASE UNCHANGED pages
      BY <2>1, <3>1
    <3>2. ASSUME Writes(req[o].page, pages[req[o].page].html, "ready", pages[req[o].page].hash),
                 pc'[o] = "finish", NEW p \in Op, HasRow(p)'
          PROVE  WholeRow(p)'
      <4>1. CASE p = req[o].page
        <5>1. /\ p \in Op /\ HasRow(p) /\ pages'[p].html = pages[p].html
              /\ pages[p].html \in Op /\ CreateTask(o) /\ pc[o] = "finalize"
          BY <2>1, <3>2, <4>1 DEF Writes
        <5>2. WholeRow(p) /\ TaskRow(o)
          BY <4>1, <5>1
        <5>3. CASE pages[p].html = o
          BY <2>1, <3>2, <5>1, <5>2, <5>3
        <5>4. CASE pages[p].html # o /\ req[pages[p].html].kind = "update"
          BY <2>1, <5>1, <5>2, <5>4
        <5> QED BY <4>1, <5>1, <5>2, <5>3, <5>4
      <4>2. CASE p # req[o].page
        <5> HIDE DEF DropInv, UnusedInv, RequestInv, TaskAlone
        <5> QED BY <2>1, <3>2, <4>2, SMTT(40) DEF Writes
      <4> QED BY <4>1, <4>2
    <3> QED BY <2>1, <2>2, <3>1, <3>2, SMTT(40)
  <2> QED BY <2>3, <2>4, <2>5, <2>6
<1>9. CASE CreateOnError(o)
  BY <1>9, SMTT(40) DEF CreateOnError
<1>10. CASE CreateMarkFailed(o)
  <2>1. /\ pc[o] = "markFailed" /\ pc'[o] = "finish" /\ UNCHANGED <<req, old, files>>
        /\ \A q \in Op \ {o} : pc'[q] = pc[q]
    BY <1>10 DEF CreateMarkFailed
  <2>2. \/ UNCHANGED pages
        \/ Writes(req[o].page, pages[req[o].page].html, "failed", pages[req[o].page].hash)
    BY <1>0, <1>10, RowWrites
  <2>3. KindInv' /\ UnusedInv'
    <3> HIDE DEF TaskInv, DropInv, WholeInv
    <3> QED BY <2>1, <2>2, SMTT(40) DEF Writes
  <2>4. TaskInv'
    <3>1. TaskAlone'
      BY <2>1
    <3>2. ASSUME NEW q \in Op, CreateTask(q)', HasRow(req[q].page)' PROVE TaskRow(q)'
      <4>1. q # o /\ CreateTask(q) /\ req[q].page \in Op /\ req[q].page # req[o].page
        BY <2>1, <3>2
      <4> QED
        <5> HIDE DEF UnusedInv, DropInv, WholeInv
        <5> QED BY <2>1, <2>2, <3>2, <4>1, SMTT(40) DEF Writes
    <3> QED
      <4> HIDE DEF IInv, FilesInv, TaskAlone, TaskRow, CreateTask
      <4> QED BY <2>1, <3>1, <3>2, SMTT(40)
  <2>5. DropInv'
    <3> HIDE DEF KindInv, UnusedInv, TaskInv, WholeInv
    <3> QED BY <2>1, <2>2, SMTT(40) DEF Writes
  <2>6. WholeInv'
    <3>1. ASSUME NEW p \in Op, HasRow(p)' PROVE WholeRow(p)'
      <4>1. HasRow(p) /\ pages'[p].html = pages[p].html
        <5>1. CASE p = req[o].page
          BY <2>2, <3>1, <5>1 DEF Writes
        <5>2. CASE p # req[o].page
          <6> HIDE DEF FilesInv
          <6> QED BY <2>2, <3>1, <5>2, SMTT(40) DEF Writes
        <5> QED BY <5>1, <5>2
      <4>2. pages'[p].state # "ready" \/ pages'[p].state = pages[p].state
        <5> HIDE DEF FilesInv
        <5> QED BY <2>2, <3>1, SMTT(40) DEF Writes
      <4> QED BY <2>1, <4>1, <4>2
    <3> QED BY <2>1, <3>1
  <2> QED BY <2>3, <2>4, <2>5, <2>6
<1>11. CASE CreateDropStale(o)
  BY <1>11, SMTT(40) DEF CreateDropStale
<1>12. CASE UpdateRead(o)
  <2>1. KindInv' /\ UnusedInv'
    <3> HIDE DEF TaskInv, DropInv, WholeInv
    <3> QED BY <1>12, SMTT(40) DEF UpdateRead
  <2>2. TaskInv'
    <3>1. /\ pc[o] = "read" /\ UNCHANGED <<pages, req>> /\ pc'[o] \in {"rewrite", "finish"}
          /\ \A q \in Op \ {o} : pc'[q] = pc[q]
      <4> HIDE DEF FilesInv, RowInv
      <4> QED BY <1>12 DEF UpdateRead
    <3>2. \A q \in Op : CreateTask(q)' => CreateTask(q) /\ q # o
      BY <3>1
    <3>3. TaskAlone'
      BY <3>1, <3>2
    <3>4. \A q \in Op : CreateTask(q)' /\ HasRow(req[q].page)' => TaskRow(q)'
      BY <3>1, <3>2
    <3> QED BY <3>1, <3>3, <3>4
  <2>3. DropInv'
    BY <1>12 DEF UpdateRead
  <2>4. WholeInv'
    <3> HIDE DEF TaskInv, DropInv
    <3> QED BY <1>12, SMTT(40) DEF UpdateRead
  <2> QED BY <2>1, <2>2, <2>3, <2>4
<1>13. CASE UpdateRewrite(o)
  <2>1. /\ pc[o] = "rewrite" /\ req[o].kind = "update" /\ UNCHANGED <<pages, req, old>>
        /\ pc'[o] \in {"commit", "finish"}
        /\ pc'[o] = "commit" => files'[o] = "rewritten"
        /\ \A q \in Op \ {o} : pc'[q] = pc[q] /\ files'[q] = files[q]
    <3> HIDE DEF FilesInv, RowInv
    <3> QED BY <1>13 DEF UpdateRewrite
  <2>2. KindInv' /\ UnusedInv'
    BY <2>1
  <2>3. TaskInv'
    <3>1. \A q \in Op : CreateTask(q)' => CreateTask(q) /\ q # o
      BY <2>1
    <3>2. TaskAlone'
      BY <2>1, <3>1
    <3>3. \A q \in Op : CreateTask(q)' /\ HasRow(req[q].page)' => TaskRow(q)'
      BY <2>1, <3>1
    <3> QED BY <2>1, <3>2, <3>3
  <2>4. DropInv' /\ WholeInv'
    BY <2>1
  <2> QED BY <2>2, <2>3, <2>4
<1>14. CASE UpdateCommit(o)
  <2>1. /\ pc[o] = "commit" /\ pc'[o] \in {"queueOld", "finish"} /\ UNCHANGED <<req, old>>
        /\ \A q \in Op \ {o} : pc'[q] = pc[q] /\ files'[q] = files[q]
        /\ pc'[o] = "queueOld" => UNCHANGED files
        /\ req[o].kind = "update"
    <3> HIDE DEF UnusedInv, TaskInv, DropInv, WholeInv, RowInv
    <3> QED BY <1>14, SMTT(40) DEF UpdateCommit
  <2>2. \/ UNCHANGED pages
        \/ Writes(req[o].page, o, "ready", req[o].content) /\ pc'[o] = "queueOld"
    BY <1>0, <1>14, RowWrites
  <2>3. KindInv' /\ UnusedInv'
    <3> HIDE DEF TaskInv, DropInv, WholeInv
    <3> QED BY <2>1, <2>2, SMTT(40) DEF Writes
  <2>4. TaskInv'
    <3>1. TaskAlone'
      BY <2>1
    <3>2. ASSUME NEW q \in Op, CreateTask(q)', HasRow(req[q].page)' PROVE TaskRow(q)'
      <4>1. q # o /\ CreateTask(q) /\ req[q].page \in Op
        BY <2>1, <3>2
      <4>2. CASE UNCHANGED pages
        BY <2>1, <3>2, <4>1, <4>2
      <4>3. CASE Writes(req[o].page, o, "ready", req[o].content)
        BY <2>1, <3>2, <4>1, <4>3 DEF Writes
      <4> QED BY <2>2, <4>2, <4>3
    <3> QED
      <4> HIDE DEF IInv, FilesInv, TaskAlone, TaskRow, CreateTask
      <4> QED BY <2>1, <3>1, <3>2, SMTT(40)
  <2>5. DropInv'
    <3> HIDE DEF KindInv, UnusedInv, TaskInv, WholeInv
    <3> QED BY <2>1, <2>2, SMTT(40) DEF Writes
  <2>6. WholeInv'
    <3>1. ASSUME NEW p \in Op, HasRow(p)' PROVE WholeRow(p)'
      <4>1. CASE UNCHANGED pages
        BY <2>1, <3>1, <4>1
      <4>2. CASE /\ Writes(req[o].page, o, "ready", req[o].content) /\ pc'[o] = "queueOld"
                 /\ p = req[o].page
        <5> HIDE DEF TaskInv, DropInv, UnusedInv
        <5> QED BY <2>1, <3>1, <4>2, SMTT(40) DEF Writes
      <4>3. CASE /\ Writes(req[o].page, o, "ready", req[o].content) /\ pc'[o] = "queueOld"
                 /\ p # req[o].page
        BY <2>1, <3>1, <4>3 DEF Writes
      <4> QED BY <2>2, <4>1, <4>2, <4>3
    <3> QED BY <2>1, <3>1
  <2> QED BY <2>3, <2>4, <2>5, <2>6
<1>15. CASE DeleteRow(o)
  <2>1. /\ pc[o] = "deleteRow" /\ pc'[o] \in {"queueOld", "done"}
        /\ UNCHANGED <<req, old, files>>
        /\ \A q \in Op \ {o} : pc'[q] = pc[q]
    BY <1>15 DEF DeleteRow
  <2>2. \A q \in Op : HasRow(q)' => HasRow(q) /\ pages'[q] = pages[q]
    BY <1>15 DEF DeleteRow, NoRow
  <2>3. KindInv' /\ UnusedInv'
    BY <2>1, <2>2
  <2>4. TaskInv'
    BY <2>1, <2>2
  <2>5. DropInv'
    BY <2>1, <2>2
  <2>6. WholeInv'
    BY <2>1, <2>2
  <2> QED BY <2>3, <2>4, <2>5, <2>6
<1>16. CASE QueueOld(o)
  BY <1>16, SMTT(40) DEF QueueOld
<1>17. CASE ShareReadLinks(o)
  BY <1>17, SMTT(40) DEF ShareReadLinks
<1>18. CASE ShareInsert(o)
  <2>1. /\ pc[o] = "insertShare" /\ pc'[o] = "done" /\ UNCHANGED <<req, old, pages, files>>
        /\ \A q \in Op \ {o} : pc'[q] = pc[q]
    BY <1>18 DEF ShareInsert
  <2>2. KindInv' /\ UnusedInv' /\ TaskInv'
    BY <2>1
  <2>3. DropInv' /\ WholeInv'
    BY <2>1
  <2> QED BY <2>2, <2>3
<1>19. CASE TaskFinish(o)
  BY <1>19, SMTT(40) DEF TaskFinish, ForgetTask
<1> QED
  BY <1>1, <1>2, <1>3, <1>4, <1>5, <1>6, <1>7, <1>8, <1>9, <1>10, <1>11, <1>12,
     <1>13, <1>14, <1>15, <1>16, <1>17, <1>18, <1>19 DEF Advance

\* So do the requests that arrive: a retry finds no create task of its page.
LEMMA ArriveFiles ==
  ASSUME IInv, FilesInv, NEW o \in Op, Arrive(o)
  PROVE  FilesInv'
<1> USE DEF IInv, TypeOK, RequestInv, RowInv, FilesInv, KindInv, UnusedInv, TaskInv, TaskAlone,
            TaskRow, DropInv, WholeInv, WholeRow, CreateTask, Fresh, Shows, Goto, Accept,
            taskVars, diskVars, HasRow, HoldsPageLock
<1>1. ASSUME NEW u \in Url, NEW c \in Content, CreateLookup(o, u, c)
      PROVE  FilesInv'
  <2>0. /\ pc[o] = "idle" /\ UNCHANGED <<pages, old>>
        /\ \A q \in Op \ {o} : pc'[q] = pc[q] /\ req'[q] = req[q] /\ files'[q] = files[q]
    BY <1>1 DEF CreateLookup, AnswerHit, SaveNew
  <2>1. CASE pc'[o] = "done"
    <3>1. req'[o].kind = "create" /\ req'[o].page \in Op /\ HasRow(req'[o].page)
      BY <1>1, <2>1, SMTT(40) DEF CreateLookup, AnswerHit, SaveNew, Hits, HitsIn
    <3>2. KindInv'
      BY <2>0, <2>1, <3>1
    <3>5. UnusedInv'
      BY <2>0, <2>1, <3>1
    <3>3. TaskInv'
      BY <2>0, <2>1, <3>1, SMTT(40)
    <3>4. DropInv' /\ WholeInv'
      BY <2>0, <2>1, <3>1, SMTT(40)
    <3> QED BY <3>2, <3>3, <3>4, <3>5
  <2>2. CASE pc'[o] = "insert"
    <3>1. req'[o].kind = "create" /\ req'[o].page = o
      BY <1>1, <2>2 DEF CreateLookup, AnswerHit, SaveNew
    <3>2. KindInv' /\ UnusedInv'
      BY <2>0, <2>2, <3>1
    <3>3. TaskInv'
      BY <2>0, <2>2, <3>1, SMTT(40)
    <3>4. DropInv' /\ WholeInv'
      BY <2>0, <2>2, <3>1
    <3> QED BY <3>2, <3>3, <3>4
  <2>3. CASE pc'[o] = "reset"
    <3>1. /\ req'[o].kind = "create" /\ req'[o].page \in Op /\ HasRow(req'[o].page)
          /\ req'[o].url = u /\ req'[o].content = c
          /\ pages[req'[o].page].state = "failed"
          /\ pages[req'[o].page].url = u /\ pages[req'[o].page].hash = c
      BY <1>1, <2>3, SMTT(40) DEF CreateLookup, AnswerHit, SaveNew, Hits, HitsIn
    <3>2. \A q \in Op : CreateTask(q) => req[q].page # req'[o].page
      BY <1>1, <3>1 DEF CreateLookup, PageLockFree
    <3>3. KindInv'
      BY <2>0, <2>3, <3>1
    <3>6. UnusedInv'
      BY <2>0, <2>3, <3>1
    <3>4. TaskInv'
      <4>1. TaskAlone'
        BY <2>0, <2>3, <3>1, <3>2
      <4>2. ASSUME NEW q \in Op \ {o}, CreateTask(q)', HasRow(req[q].page)' PROVE TaskRow(q)'
        BY <2>0, <4>2
      <4>3. TaskRow(o)'
        BY <2>0, <2>3, <3>1
      <4> QED BY <4>1, <4>2, <4>3
    <3>5. DropInv' /\ WholeInv'
      BY <2>0, <2>3, <3>1, SMTT(40)
    <3> QED BY <3>3, <3>4, <3>5, <3>6
  <2>4. pc'[o] \in {"done", "insert", "reset"}
    <3>1. CASE AnswerHit(o, u, c)
      BY <3>1 DEF AnswerHit
    <3>2. CASE SaveNew(o, u, c)
      BY <3>2 DEF SaveNew
    <3> QED BY <1>1, <3>1, <3>2 DEF CreateLookup
  <2> QED BY <2>1, <2>2, <2>3, <2>4
<1> DEFINE Asks ==
      /\ pc[o] = "idle" /\ UNCHANGED <<pages, files>>
      /\ \A q \in Op \ {o} : pc'[q] = pc[q] /\ req'[q] = req[q] /\ old'[q] = old[q]
      /\ req'[o].page \in Op /\ HasRow(req'[o].page)
      /\ \/ req'[o].kind = "update" /\ pc'[o] \in {"done", "enqueue"}
         \/ req'[o].kind = "delete" /\ pc'[o] = "deleteRow"
         \/ req'[o].kind = "share" /\ pc'[o] = "readLinks"
<1>2. ASSUME NEW p \in Op, NEW c \in Content, UpdateRequest(o, p, c)
      PROVE  Asks
  BY <1>2 DEF UpdateRequest
<1>3. ASSUME NEW p \in Op, DeleteRead(o, p)
      PROVE  Asks
  BY <1>3 DEF DeleteRead
<1>4. ASSUME NEW p \in Op, ShareRead(o, p)
      PROVE  Asks
  BY <1>4 DEF ShareRead
<1>5. ASSUME Asks PROVE FilesInv'
  <2>1. KindInv' /\ UnusedInv'
    BY <1>5
  <2>2. TaskInv'
    <3>1. \A q \in Op : CreateTask(q)' => q # o /\ CreateTask(q) /\ req[q].page \in Op
      BY <1>5
    <3> QED BY <1>5, <3>1
  <2>3. DropInv' /\ WholeInv'
    BY <1>5
  <2> QED BY <2>1, <2>2, <2>3
<1> HIDE DEF Asks
<1> QED BY <1>1, <1>2, <1>3, <1>4, <1>5 DEF Arrive

\* At the start the seeded pages are ready with their files, and no task runs.
LEMMA InitFiles == Init => FilesInv
<1> SUFFICES ASSUME Init PROVE FilesInv
  OBVIOUS
<1>1. PICK u \in [Seeded -> Url], c \in [Seeded -> Content] : Init!1!(u, c)
  BY DEF Init
<1>2. \A o \in Op : IF o \in Seeded
                    THEN pc[o] = "done" /\ files[o] = "rewritten"
                    ELSE pc[o] = "idle"
  BY DEF Init
<1>3. \A o \in Op : IF o \in Seeded
                    THEN /\ req[o].kind = "create" /\ req[o].page = o
                         /\ pages[o].state = "ready" /\ pages[o].html = o
                    ELSE req[o].kind = Null /\ ~HasRow(o)
  <2>1. ASSUME NEW o \in Op, o \in Seeded
        PROVE  /\ req[o].kind = "create" /\ req[o].page = o
               /\ pages[o].state = "ready" /\ pages[o].html = o
    <3>1. pages[o] = [state |-> "ready", url |-> u[o], hash |-> c[o],
                      html |-> o, links |-> c[o]]
      BY <1>1, <2>1
    <3>2. req[o] = [kind |-> "create", url |-> u[o], content |-> c[o],
                    page |-> o, begun |-> 0]
      BY <1>1, <2>1
    <3> QED BY <3>1, <3>2
  <2>2. ASSUME NEW o \in Op, o \notin Seeded
        PROVE  req[o].kind = Null /\ ~HasRow(o)
    <3>1. pages[o] = NoRow /\ req[o] = NoRequest
      BY <1>1, <2>2
    <3> QED BY <3>1 DEF NoRow, NoRequest, HasRow
  <2> QED BY <2>1, <2>2
<1> QED
  BY <1>2, <1>3 DEF FilesInv, KindInv, UnusedInv, TaskInv, TaskAlone, TaskRow, DropInv,
                    WholeInv, WholeRow, CreateTask, HasRow

\* The cleanup takes only files no row shows, a crash ends every task, and the
\* other steps touch neither rows nor HTML files.
LEMMA NextFiles == IInv /\ IInv' /\ FilesInv /\ [Next]_vars => FilesInv'
<1> SUFFICES ASSUME IInv, IInv', FilesInv, [Next]_vars PROVE FilesInv'
  OBVIOUS
<1>1. ASSUME NEW o \in Op, Arrive(o)
      PROVE  FilesInv'
  BY <1>1, ArriveFiles
<1>2. ASSUME NEW o \in Op, Advance(o)
      PROVE  FilesInv'
  BY <1>2, AdvanceFiles
<1> USE DEF FilesInv, KindInv, UnusedInv, TaskInv, TaskAlone, TaskRow, DropInv, WholeInv,
            WholeRow, CreateTask, Fresh, Shows, HasRow, taskVars, diskVars
<1>3. ASSUME NEW s \in Op, ShareEnd(s)
      PROVE  FilesInv'
  BY <1>3 DEF ShareEnd
<1>4. ASSUME NEW rec \in queue, Cleanup(rec)
      PROVE  FilesInv'
  <2>1. /\ UNCHANGED <<pc, req, old, pages>>
        /\ rec.path \in Op /\ ~Fresh(rec.path)
        /\ \A p \in Op : ~Shows(p, rec.path)
        /\ \A f \in Op : f # rec.path => files'[f] = files[f]
    BY <1>4 DEF Cleanup, IInv, QueueInv, TypeOK, Record
  <2>2. \A o \in Op : pc[o] = "commit" => files'[o] = "rewritten"
    BY <2>1
  <2>3. ASSUME NEW p \in Op, HasRow(p) PROVE files'[pages[p].html] = files[pages[p].html]
    BY <2>1, <2>3 DEF IInv, RowInv
  <2> QED BY <2>1, <2>2, <2>3
<1>5. CASE Tick
  BY <1>5 DEF Tick
<1>6. CASE Crash
  <2>1. /\ UNCHANGED <<req, old, pages, files>>
        /\ \A o \in Op : pc'[o] = IF pc[o] = "idle" THEN "idle" ELSE "done"
    BY <1>6 DEF Crash, InFlight
  <2> QED BY <2>1 DEF IInv, RowInv
<1>7. CASE UNCHANGED vars
  BY <1>7 DEF vars
<1> QED BY <1>1, <1>2, <1>3, <1>4, <1>5, <1>6, <1>7 DEF Next

\* These facts hold for requests of every kind.
THEOREM FilesInvariance == Spec => []FilesInv
<1> QED BY InitFiles, NextFiles, Invariance, PTL DEF Spec

\* A page reported ready can be viewed: whatever stale tasks, retries, failed
\* updates, crashes and the cleanup delete, the HTML of a ready row is on disk and
\* has been rewritten.
THEOREM ReadyFiles == Spec => []ReadyHasFile
<1>1. IInv /\ FilesInv => ReadyHasFile
  BY DEF IInv, RowInv, FilesInv, WholeInv, WholeRow, ReadyHasFile, HasRow
<1> QED BY <1>1, Invariance, FilesInvariance, PTL

-----------------------------------------------------------------------------
(* Where pages only change: one whole snapshot, and shares that keep theirs. *)
(*                                                                         *)
(* Without captures of new or failed pages no create task is about, which    *)
(* find_mixed and a retry of a shared page show to be necessary.            *)

\* No create request or task is under way.
NoCreates == \A o \in Op : req[o].kind = "create" => ~InFlight(o)

\* A row is always ready, and its hash and links are those of the capture that
\* wrote its file.
SnapshotInv ==
  \A p \in Op : HasRow(p) =>
    /\ pages[p].state = "ready"
    /\ pages[p].hash = req[pages[p].html].content
    /\ pages[p].links = req[pages[p].html].content

\* No request outlives the tick after the one in which it began.
BegunInv ==
  \A o \in Op : InFlight(o) => req[o].begun <= clock /\ clock <= req[o].begun + 1

\* The path a share request carries is on disk and was queued, if at all, after
\* the request began; so it is too young for the cleanup until the share is there.
CarriedInv ==
  \A o \in Op : pc[o] \in {"readLinks", "insertShare"} =>
    /\ old[o] \in Op /\ ~Fresh(old[o]) /\ files[old[o]] # "none"
    /\ \A rec \in queue : rec.path = old[o] => rec.at >= req[o].begun

\* The file of an active share is on disk and its op is through with it.
PinnedInv ==
  \A s \in Op : shares[s].active =>
    /\ shares[s].html \in Op /\ ~Fresh(shares[s].html)
    /\ files[shares[s].html] # "none"

ChangeInv == NoCreates /\ SnapshotInv /\ BegunInv /\ CarriedInv /\ PinnedInv

\* What the server does on its own keeps them; the create task's steps cannot be.
LEMMA AdvanceChange ==
  ASSUME IInv, IInv', FilesInv, ChangeInv, NEW o \in Op, Advance(o)
  PROVE  ChangeInv'
<1> USE DEF IInv, TypeOK, RequestInv, RowInv, KindInv, ChangeInv, NoCreates, SnapshotInv,
            BegunInv, CarriedInv, PinnedInv, Fresh, Shows, Goto, Succeeds, Fails, taskVars,
            diskVars, HasRow, InFlight
<1>0. TypeOK /\ RequestInv /\ KindInv
  BY DEF FilesInv
<1>1. CASE CreateInsert(o) \/ RetryReset(o) \/ RetryDropOld(o) \/ CreateRewrite(o)
           \/ CreateLastCheck(o) \/ CreateFinalize(o) \/ CreateOnError(o)
           \/ CreateMarkFailed(o) \/ CreateDropStale(o)
  <2>1. InFlight(o) /\ req[o].kind = "create"
    BY <1>0, <1>1 DEF CreateInsert, RetryReset, RetryDropOld, CreateRewrite, CreateLastCheck,
                      CreateFinalize, CreateOnError, CreateMarkFailed, CreateDropStale
  <2> QED BY <2>1
<1>4. CASE Enqueue(o)
  BY <1>4 DEF Enqueue
<1>5. CASE TaskStart(o)
  BY <1>5 DEF TaskStart
<1>12. CASE UpdateRead(o) \/ UpdateRewrite(o)
  <2>1. /\ pc[o] \in {"read", "rewrite"} /\ pc'[o] \in {"rewrite", "commit", "finish"}
        /\ UNCHANGED <<req, pages, queue, shares, clock>>
        /\ \A q \in Op \ {o} : pc'[q] = pc[q] /\ old'[q] = old[q] /\ files'[q] = files[q]
        /\ Fresh(o)
    BY <1>0, <1>12 DEF UpdateRead, UpdateRewrite
  <2>2. NoCreates' /\ BegunInv' /\ SnapshotInv'
    BY <2>1
  <2>3. CarriedInv'
    BY <2>1
  <2>4. PinnedInv'
    BY <2>1
  <2> QED BY <2>2, <2>3, <2>4
<1>14. CASE UpdateCommit(o)
  <2>1. /\ pc[o] = "commit" /\ pc'[o] \in {"queueOld", "finish"} /\ ~Fresh(o)'
        /\ UNCHANGED <<req, old, queue, shares, clock>>
        /\ \A q \in Op \ {o} : pc'[q] = pc[q] /\ files'[q] = files[q]
    BY <1>14 DEF UpdateCommit
  <2>2. \/ UNCHANGED pages
        \/ /\ Writes(req[o].page, o, "ready", req[o].content)
           /\ pages'[req[o].page].links = req[o].content
    BY <1>0, <1>14, RowWrites
  <2>3. NoCreates' /\ BegunInv' /\ CarriedInv'
    BY <2>1
  <2>4. PinnedInv'
    BY <2>1
  <2>5. SnapshotInv'
    <3>1. ASSUME NEW p \in Op, HasRow(p)'
          PROVE  /\ pages'[p].state = "ready"
                 /\ pages'[p].hash = req[pages'[p].html].content
                 /\ pages'[p].links = req[pages'[p].html].content
      <4>1. CASE UNCHANGED pages \/ p # req[o].page
        BY <2>2, <3>1, <4>1 DEF Writes
      <4>2. CASE ~UNCHANGED pages /\ p = req[o].page
        BY <2>2, <4>2 DEF Writes
      <4> QED BY <4>1, <4>2
    <3> QED BY <2>1, <3>1
  <2> QED BY <2>3, <2>4, <2>5
<1>15. CASE DeleteRow(o)
  <2>1. /\ pc[o] = "deleteRow" /\ pc'[o] \in {"queueOld", "done"}
        /\ UNCHANGED <<req, old, files, queue, clock>>
        /\ \A q \in Op \ {o} : pc'[q] = pc[q]
    BY <1>15 DEF DeleteRow
  <2>2. \A q \in Op : HasRow(q)' => HasRow(q) /\ pages'[q] = pages[q]
    BY <1>15 DEF DeleteRow, NoRow
  <2>3. \A s \in Op : shares'[s].active => shares'[s] = shares[s]
    BY <1>15 DEF DeleteRow, NoShare
  <2>4. NoCreates' /\ BegunInv'
    BY <2>1, SMTT(40)
  <2>5. CarriedInv'
    BY <2>1
  <2>6. SnapshotInv'
    BY <2>1, <2>2
  <2>7. PinnedInv'
    BY <2>1, <2>3
  <2> QED BY <2>4, <2>5, <2>6, <2>7
<1>16. CASE QueueOld(o)
  BY <1>16 DEF QueueOld
<1>17. CASE ShareReadLinks(o)
  BY <1>17 DEF ShareReadLinks
<1>18. CASE ShareInsert(o)
  BY <1>18, SMTT(40) DEF ShareInsert
<1>19. CASE TaskFinish(o)
  BY <1>19 DEF TaskFinish, ForgetTask
<1> QED
  BY <1>1, <1>4, <1>5, <1>12, <1>14, <1>15, <1>16, <1>17, <1>18, <1>19 DEF Advance

\* The requests that arrive: a share carries the path of a ready page.
LEMMA ArriveChange ==
  ASSUME IInv, FilesInv, ChangeInv, "create" \notin Kinds, NEW o \in Op, Arrive(o)
  PROVE  ChangeInv'
<1> USE DEF IInv, TypeOK, RequestInv, RowInv, KindInv, ChangeInv, NoCreates, SnapshotInv,
            BegunInv, CarriedInv, PinnedInv, Fresh, Shows, Goto, Accept, taskVars, diskVars,
            HasRow, InFlight
<1>1. ASSUME NEW u \in Url, NEW c \in Content, CreateLookup(o, u, c)
      PROVE  FALSE
  BY <1>1 DEF CreateLookup
<1>2. ASSUME NEW p \in Op, NEW c \in Content, UpdateRequest(o, p, c)
      PROVE  ChangeInv'
  BY <1>2 DEF UpdateRequest
<1>3. ASSUME NEW p \in Op, DeleteRead(o, p)
      PROVE  ChangeInv'
  BY <1>3 DEF DeleteRead
<1>4. ASSUME NEW p \in Op, ShareRead(o, p)
      PROVE  ChangeInv'
  <2>1. files[pages[p].html] = "rewritten"
    BY <1>4 DEF ShareRead, FilesInv, WholeInv, WholeRow
  <2> QED BY <1>4, <2>1 DEF ShareRead, QueueInv
<1> QED BY <1>1, <1>2, <1>3, <1>4 DEF Arrive

\* The seeded pages are whole, and no request or share is there yet.
LEMMA InitChange == Init => ChangeInv
<1> SUFFICES ASSUME Init PROVE ChangeInv
  OBVIOUS
<1>1. PICK u \in [Seeded -> Url], c \in [Seeded -> Content] : Init!1!(u, c)
  BY DEF Init
<1>2. SnapshotInv
  <2> SUFFICES ASSUME NEW p \in Op, HasRow(p)
               PROVE  /\ pages[p].state = "ready"
                      /\ pages[p].hash = req[pages[p].html].content
                      /\ pages[p].links = req[pages[p].html].content
    BY DEF SnapshotInv
  <2>1. p \in Seeded
    <3> SUFFICES ASSUME p \notin Seeded PROVE FALSE
      OBVIOUS
    <3>1. pages[p] = NoRow
      BY <1>1
    <3> QED BY <3>1 DEF NoRow, HasRow
  <2>2. pages[p] = [state |-> "ready", url |-> u[p], hash |-> c[p],
                    html |-> p, links |-> c[p]]
    BY <1>1, <2>1
  <2>3. req[p] = [kind |-> "create", url |-> u[p], content |-> c[p],
                  page |-> p, begun |-> 0]
    BY <1>1, <2>1
  <2> QED BY <2>2, <2>3
<1>3. \A o \in Op : ~InFlight(o)
  BY DEF Init, InFlight
<1>5. \A s \in Op : ~shares[s].active
  BY DEF Init, NoShare
<1> QED
  BY <1>2, <1>3, <1>5 DEF ChangeInv, NoCreates, BegunInv, CarriedInv, PinnedInv, InFlight

\* The cleanup takes no file an active share pins, nor, since a request ends
\* within a tick and the retention is at least two, one a share request carries.
LEMMA NextChange ==
  ASSUME "create" \notin Kinds
  PROVE  IInv /\ IInv' /\ FilesInv /\ ChangeInv /\ [Next]_vars => ChangeInv'
<1> SUFFICES ASSUME IInv, IInv', FilesInv, ChangeInv, [Next]_vars PROVE ChangeInv'
  OBVIOUS
<1>1. ASSUME NEW o \in Op, Arrive(o)
      PROVE  ChangeInv'
  BY <1>1, ArriveChange
<1>2. ASSUME NEW o \in Op, Advance(o)
      PROVE  ChangeInv'
  BY <1>2, AdvanceChange
<1> USE DEF ChangeInv, NoCreates, SnapshotInv, BegunInv, CarriedInv, PinnedInv, Fresh, HasRow,
            InFlight, taskVars, diskVars
<1>3. ASSUME NEW s \in Op, ShareEnd(s)
      PROVE  ChangeInv'
  BY <1>3 DEF ShareEnd, IInv, TypeOK, Share
<1>4. ASSUME NEW rec \in queue, Cleanup(rec)
      PROVE  ChangeInv'
  <2>1. /\ UNCHANGED <<pc, req, old, pages, shares, clock>> /\ queue' \subseteq queue
        /\ rec.path \in Op /\ rec.at \in Nat /\ rec.at + Retention <= clock /\ ~Protected(rec.path)
        /\ \A f \in Op : f # rec.path => files'[f] = files[f]
    BY <1>4 DEF Cleanup, IInv, TypeOK, Record
  <2>2. ASSUME NEW o \in Op, pc[o] \in {"readLinks", "insertShare"}
        PROVE  old[o] # rec.path
    <3>1. req[o].begun \in Nat /\ clock \in Nat /\ clock <= req[o].begun + 1
      BY <2>2 DEF IInv, TypeOK, Request
    <3> QED BY <2>1, <2>2, <3>1, BoundsAssumption
  <2>3. ASSUME NEW s \in Op, shares[s].active
        PROVE  shares[s].html # rec.path
    BY <2>1, <2>3 DEF Protected
  <2> QED BY <2>1, <2>2, <2>3
<1>5. CASE Tick
  BY <1>5 DEF Tick, IInv, TypeOK
<1>6. CASE Crash
  <2>1. /\ UNCHANGED <<req, old, pages, files, queue, shares, clock>>
        /\ \A o \in Op : pc'[o] = IF pc[o] = "idle" THEN "idle" ELSE "done"
    BY <1>6 DEF Crash
  <2> QED BY <2>1
<1>7. CASE UNCHANGED vars
  BY <1>7 DEF vars
<1> QED BY <1>1, <1>2, <1>3, <1>4, <1>5, <1>6, <1>7 DEF Next

\* Without create requests, these facts hold too.
THEOREM ChangeInvariance ==
  ASSUME "create" \notin Kinds
  PROVE  Spec => []ChangeInv
<1>1. IInv /\ IInv' /\ FilesInv /\ ChangeInv /\ [Next]_vars => ChangeInv'
  BY NextChange
<1> QED BY <1>1, InitChange, Invariance, FilesInvariance, PTL DEF Spec

\* A ready page is one capture: updates, deletions, shares and crashes leave its
\* hash, its HTML and its links of the same document, as ReplacePageSnapshot swaps
\* them in one transaction.
THEOREM PageConsistent ==
  ASSUME "create" \notin Kinds
  PROVE  Spec => []SnapshotConsistent
<1>1. IInv /\ ChangeInv => SnapshotConsistent
  BY DEF IInv, ChangeInv, SnapshotInv, SnapshotConsistent, HasRow
<1> QED BY <1>1, Invariance, ChangeInvariance, PTL

\* The file an active share pins is on disk: updates of its page queue it, and the
\* cleanup neither takes it later nor before the share is inserted.
THEOREM ShareKeepsFile ==
  ASSUME "create" \notin Kinds
  PROVE  Spec => []SharedFileKept
<1>1. ChangeInv => SharedFileKept
  BY DEF ChangeInv, PinnedInv, SharedFileKept
<1> QED BY <1>1, ChangeInvariance, PTL

-----------------------------------------------------------------------------
(* Without updates, captures never give a URL and content two rows.         *)

\* pageCreateMu is held by one request for each URL and content.
LockInv ==
  \A o, q \in Op : HoldsPageLock(o) /\ HoldsPageLock(q) /\ o # q =>
    <<req[o].url, req[o].content>> # <<req[q].url, req[q].content>>

NoUpdates == \A o \in Op : pc[o] = "idle" \/ req[o].kind # "update"

\* Who is about to insert a row has seen that there is none.
InsertInv ==
  \A o, p \in Op : pc[o] = "insert" /\ HasRow(p) =>
    <<pages[p].url, pages[p].hash>> # <<req[o].url, req[o].content>>

Distinct ==
  \A p, q \in Op : /\ HasRow(p) /\ HasRow(q)
                   /\ pages[p].url = pages[q].url /\ pages[p].hash = pages[q].hash
                   => p = q

UniqueInv == LockInv /\ (NoUpdates => InsertInv /\ Distinct)

\* A row keeps its URL and hash, and a request that is not idle what it asks; no
\* request gets or keeps the lock that did not have it.
Keeps ==
  /\ \A p \in Op : HasRow(p)' =>
       HasRow(p) /\ pages'[p].url = pages[p].url /\ pages'[p].hash = pages[p].hash
  /\ \A o \in Op : pc[o] # "idle" => pc'[o] # "idle" /\ req'[o] = req[o]
  /\ \A o \in Op : HoldsPageLock(o)' => HoldsPageLock(o)
  /\ \A o \in Op : pc'[o] = "insert" => pc[o] = "insert"
  /\ \A o \in Op : pc[o] = "idle" => pc'[o] = "idle" \/ ~HoldsPageLock(o)'

\* Such a step keeps rows unique.
LEMMA KeepsUnique ==
  ASSUME UniqueInv, Keeps
  PROVE  UniqueInv'
<1> USE DEF UniqueInv, Keeps
<1>1. LockInv'
  BY DEF LockInv, HoldsPageLock
<1>2. NoUpdates' => NoUpdates
  BY DEF NoUpdates
<1>3. ASSUME NoUpdates' PROVE InsertInv' /\ Distinct'
  BY <1>2, <1>3 DEF InsertInv, Distinct
<1> QED BY <1>1, <1>3

\* Every step of the server is one, but for the insertion of a row and the commit
\* of an update.
LEMMA AdvanceUnique ==
  ASSUME IInv, FilesInv, UniqueInv, NEW o \in Op, Advance(o)
  PROVE  UniqueInv'
<1> USE DEF IInv, TypeOK, RequestInv, KindInv, Goto, Succeeds, Fails, taskVars, diskVars,
            HasRow, HoldsPageLock, Keeps
<1>0. TypeOK /\ RequestInv /\ KindInv
  BY DEF FilesInv
<1>1. CASE CreateInsert(o)
  <2>1. /\ pc[o] = "insert" /\ pc'[o] \in {"enqueue", "done"} /\ UNCHANGED req
        /\ \A q \in Op \ {o} : pc'[q] = pc[q] /\ pages'[q] = pages[q]
        /\ pc'[o] = "enqueue" => pages'[o].url = req[o].url /\ pages'[o].hash = req[o].content
        /\ pc'[o] = "done" => UNCHANGED pages
    BY <1>1 DEF CreateInsert
  <2>2. LockInv'
    BY <2>1 DEF UniqueInv, LockInv
  <2>3. ASSUME NoUpdates' PROVE InsertInv' /\ Distinct'
    <3>1. NoUpdates /\ InsertInv /\ Distinct
      BY <2>1, <2>3 DEF NoUpdates, UniqueInv
    <3>2. InsertInv'
      BY <2>1, <3>1 DEF InsertInv, UniqueInv, LockInv
    <3>3. Distinct'
      BY <2>1, <3>1 DEF InsertInv, Distinct
    <3> QED BY <3>2, <3>3
  <2> QED BY <2>2, <2>3 DEF UniqueInv
<1>2. CASE UpdateCommit(o)
  <2>1. /\ pc[o] = "commit" /\ pc'[o] \in {"queueOld", "finish"} /\ UNCHANGED req
        /\ \A q \in Op \ {o} : pc'[q] = pc[q]
    BY <1>2 DEF UpdateCommit
  <2>2. LockInv'
    BY <2>1 DEF UniqueInv, LockInv
  <2>3. ~NoUpdates'
    BY <1>0, <2>1 DEF NoUpdates
  <2> QED BY <2>2, <2>3 DEF UniqueInv
<1>3. CASE RetryReset(o) \/ CreateFinalize(o) \/ CreateMarkFailed(o)
  <2>1. \A p \in Op : HasRow(p)' =>
          HasRow(p) /\ pages'[p].url = pages[p].url /\ pages'[p].hash = pages[p].hash
    <3>1. UNCHANGED pages \/ \E h, s : Writes(req[o].page, h, s, pages[req[o].page].hash)
      BY <1>0, <1>3, RowWrites
    <3> QED BY <3>1 DEF Writes
  <2>2. Keeps
    BY <1>3, <2>1 DEF RetryReset, CreateFinalize, CreateMarkFailed
  <2> QED BY <2>2, KeepsUnique
<1>4. CASE DeleteRow(o)
  <2>1. Keeps
    BY <1>4 DEF DeleteRow, NoRow
  <2> QED BY <2>1, KeepsUnique
<1>5. CASE \/ RetryDropOld(o) \/ Enqueue(o) \/ TaskStart(o) \/ CreateRewrite(o)
           \/ CreateLastCheck(o) \/ CreateOnError(o) \/ CreateDropStale(o) \/ UpdateRead(o)
           \/ UpdateRewrite(o) \/ QueueOld(o) \/ ShareReadLinks(o) \/ ShareInsert(o)
           \/ TaskFinish(o)
  <2>1. Keeps
    BY <1>5 DEF RetryDropOld, Enqueue, TaskStart, CreateRewrite, CreateLastCheck,
                CreateOnError, CreateDropStale, UpdateRead, UpdateRewrite, QueueOld,
                ShareReadLinks, ShareInsert, TaskFinish
  <2> QED BY <2>1, KeepsUnique
<1> QED BY <1>1, <1>2, <1>3, <1>4, <1>5 DEF Advance

\* A request that will insert takes the lock and finds no row.
LEMMA ArriveUnique ==
  ASSUME IInv, UniqueInv, NEW o \in Op, Arrive(o)
  PROVE  UniqueInv'
<1> USE DEF IInv, TypeOK, Goto, Accept, taskVars, diskVars, HasRow, HoldsPageLock
<1>1. ASSUME NEW u \in Url, NEW c \in Content, CreateLookup(o, u, c)
      PROVE  UniqueInv'
  <2>1. /\ pc[o] = "idle" /\ UNCHANGED pages /\ PageLockFree(u, c)
        /\ req'[o].url = u /\ req'[o].content = c /\ req'[o].kind = "create"
        /\ \A q \in Op \ {o} : pc'[q] = pc[q] /\ req'[q] = req[q]
    BY <1>1 DEF CreateLookup, AnswerHit, SaveNew
  <2>2. pc'[o] = "insert" => Hits(u, c) = {}
    BY <1>1 DEF CreateLookup, AnswerHit, SaveNew
  <2>3. LockInv'
    BY <2>1 DEF UniqueInv, LockInv, PageLockFree
  <2>4. ASSUME NoUpdates' PROVE InsertInv' /\ Distinct'
    <3>1. NoUpdates /\ InsertInv /\ Distinct
      BY <2>1, <2>4 DEF NoUpdates, UniqueInv
    <3> QED BY <2>1, <2>2, <3>1 DEF InsertInv, Distinct, Hits
  <2> QED BY <2>3, <2>4 DEF UniqueInv
<1>2. ASSUME NEW p \in Op, NEW c \in Content, UpdateRequest(o, p, c)
      PROVE  UniqueInv'
  <2>1. Keeps
    BY <1>2 DEF Keeps, UpdateRequest
  <2> QED BY <2>1, KeepsUnique
<1>3. ASSUME NEW p \in Op, DeleteRead(o, p)
      PROVE  UniqueInv'
  <2>1. Keeps
    BY <1>3 DEF Keeps, DeleteRead
  <2> QED BY <2>1, KeepsUnique
<1>4. ASSUME NEW p \in Op, ShareRead(o, p)
      PROVE  UniqueInv'
  <2>1. Keeps
    BY <1>4 DEF Keeps, ShareRead
  <2> QED BY <2>1, KeepsUnique
<1> QED BY <1>1, <1>2, <1>3, <1>4 DEF Arrive

\* The seeded pages are given; with at most one of them, rows are unique at first.
LEMMA InitUnique ==
  ASSUME \A p, q \in Seeded : p = q
  PROVE  Init => UniqueInv
<1> SUFFICES ASSUME Init PROVE UniqueInv
  OBVIOUS
<1>1. PICK u \in [Seeded -> Url], c \in [Seeded -> Content] : Init!1!(u, c)
  BY DEF Init
<1>2. \A p \in Op : HasRow(p) => p \in Seeded
  <2> SUFFICES ASSUME NEW p \in Op, p \notin Seeded PROVE ~HasRow(p)
    OBVIOUS
  <2>1. pages[p] = NoRow
    BY <1>1
  <2> QED BY <2>1 DEF NoRow, HasRow
<1>3. \A o \in Op : pc[o] \in {"idle", "done"}
  BY DEF Init
<1> QED BY <1>2, <1>3 DEF UniqueInv, LockInv, InsertInv, Distinct, HoldsPageLock

\* No other step touches rows, requests or the lock, but a crash, which ends all.
LEMMA NextUnique == IInv /\ FilesInv /\ UniqueInv /\ [Next]_vars => UniqueInv'
<1> SUFFICES ASSUME IInv, FilesInv, UniqueInv, [Next]_vars PROVE UniqueInv'
  OBVIOUS
<1>1. ASSUME NEW o \in Op, Arrive(o)
      PROVE  UniqueInv'
  BY <1>1, ArriveUnique
<1>2. ASSUME NEW o \in Op, Advance(o)
      PROVE  UniqueInv'
  BY <1>2, AdvanceUnique
<1>3. CASE \/ \E s \in Op : ShareEnd(s)
           \/ \E rec \in queue : Cleanup(rec)
           \/ Tick \/ UNCHANGED vars
  <2>1. UNCHANGED <<pc, req, pages>>
    BY <1>3 DEF ShareEnd, Cleanup, Tick, vars, taskVars, diskVars
  <2>2. Keeps
    BY <2>1 DEF Keeps, HasRow, HoldsPageLock
  <2> QED BY <2>2, KeepsUnique
<1>4. CASE Crash
  <2>1. /\ UNCHANGED <<req, pages>>
        /\ \A o \in Op : pc'[o] = IF pc[o] = "idle" THEN "idle" ELSE "done"
    BY <1>4 DEF Crash, InFlight, diskVars
  <2>2. Keeps
    BY <2>1 DEF Keeps, HasRow, HoldsPageLock
  <2> QED BY <2>2, KeepsUnique
<1> QED BY <1>1, <1>2, <1>3, <1>4 DEF Next

\* Captures of the same URL and content, however they overlap, fail or are cut off
\* by a crash, end in one row as long as no update has been requested.
THEOREM CapturesUnique ==
  ASSUME \A p, q \in Seeded : p = q
  PROVE  Spec => []UniqueSnapshot
<1>1. UniqueInv => UniqueSnapshot
  BY DEF UniqueInv, NoUpdates, Distinct, UniqueSnapshot
<1>2. Init => UniqueInv
  BY InitUnique
<1> QED BY <1>1, <1>2, NextUnique, Invariance, FilesInvariance, PTL DEF Spec

-----------------------------------------------------------------------------
(* No HTML file is left behind.                                            *)
(*                                                                         *)
(* While nothing fails, a page never is marked failed, so nothing is retried, *)
(* and the path an update or a deletion will queue is still the one its page   *)
(* shows when it changes the row: what a row drops is in that op's hands, and  *)
(* from there in the queue.  The cleanup removes record and file together, and *)
(* no file whose op is still about to write it.                            *)

\* Nothing failed, and an update met neither another update nor a deletion.
Undisturbed ==
  /\ faults = 0 /\ crashes = 0
  /\ \A o, r \in Op : /\ pc[o] # "idle" /\ req[o].kind = "update"
                      /\ pc[r] # "idle" /\ req[r].kind \in {"update", "delete"}
                      => o = r

\* A file op has saved, and that no row has shown yet, will be shown or removed.
Saving(f) == Fresh(f) /\ pc[f] # "idle"

\* No page is marked failed.
NoneFailed ==
  /\ \A p \in Op : HasRow(p) => pages[p].state # "failed"
  /\ \A o \in Op : /\ pc[o] \notin {"reset", "dropOld"}
                   /\ pc[o] \in {"onError", "markFailed"} => ~HasRow(req[o].page)

\* The path an update or a deletion will queue is the one the row shows, until it is
\* the op itself that changes the row.
HeldIsShown ==
  \A o \in Op :
    /\ pc[o] = "deleteRow" /\ HasRow(req[o].page) => Shows(req[o].page, old[o])
    /\ req[o].kind = "update" =>
         /\ pc[o] \in {"rewrite", "commit"} => Shows(req[o].page, old[o])
         /\ pc[o] \in {"enqueue", "start", "read"} => HasRow(req[o].page)

\* A row shows f, or the queue has it, or an op is about to queue it.
Kept(f) ==
  \/ \E p \in Op : Shows(p, f)
  \/ \E rec \in queue : rec.path = f
  \/ \E o \in Op : pc[o] = "queueOld" /\ old[o] = f

\* A file is kept, or still to be shown.
KeptInv ==
  \A f \in Op : files[f] # "none" \/ (InFlight(f) /\ req[f].kind = "create")
                  => Kept(f) \/ Saving(f)

\* Records of a file whose op is under way are no older than the op.
YoungInv ==
  \A f \in Op : InFlight(f) /\ ~Fresh(f) =>
    \A rec \in queue : rec.path = f => rec.at >= req[f].begun

\* An op has no file before it saves one.
UnsavedInv ==
  \A o \in Op : \/ pc[o] = "idle"
                \/ pc[o] \in {"enqueue", "start", "read"} /\ req[o].kind = "update"
                => files[o] = "none"

OrphanInv ==
  BegunInv /\ YoungInv /\ UnsavedInv /\ (Undisturbed => NoneFailed /\ HeldIsShown /\ KeptInv)

\* What every step of a running op leaves alone.
LEMMA AdvanceFrame ==
  ASSUME TypeOK, NEW o \in Op, Advance(o)
  PROVE  /\ pc[o] \notin {"idle", "done"} /\ pc'[o] # "idle" /\ UNCHANGED <<req, clock, crashes>>
         /\ \A q \in Op \ {o} : pc'[q] = pc[q]
         /\ faults' = faults \/ faults' # 0
         /\ \/ UNCHANGED queue
            \/ QueueOld(o) /\ queue' = queue \union {[path |-> old[o], at |-> clock]}
<1> USE DEF TypeOK, Goto, Succeeds, Fails, taskVars, diskVars
<1>1. CASE CreateInsert(o)
  BY <1>1 DEF CreateInsert
<1>2. CASE RetryReset(o)
  BY <1>2 DEF RetryReset
<1>3. CASE RetryDropOld(o)
  BY <1>3 DEF RetryDropOld
<1>4. CASE Enqueue(o)
  BY <1>4 DEF Enqueue
<1>5. CASE TaskStart(o)
  BY <1>5 DEF TaskStart
<1>6. CASE CreateRewrite(o)
  BY <1>6 DEF CreateRewrite
<1>7. CASE CreateLastCheck(o)
  BY <1>7 DEF CreateLastCheck
<1>8. CASE CreateFinalize(o)
  BY <1>8 DEF CreateFinalize
<1>9. CASE CreateOnError(o)
  BY <1>9 DEF CreateOnError
<1>10. CASE CreateMarkFailed(o)
  BY <1>10 DEF CreateMarkFailed
<1>11. CASE CreateDropStale(o)
  BY <1>11 DEF CreateDropStale
<1>12. CASE UpdateRead(o)
  BY <1>12 DEF UpdateRead
<1>13. CASE UpdateRewrite(o)
  BY <1>13 DEF UpdateRewrite
<1>14. CASE UpdateCommit(o)
  BY <1>14 DEF UpdateCommit
<1>15. CASE DeleteRow(o)
  BY <1>15 DEF DeleteRow
<1>16. CASE QueueOld(o)
  BY <1>16 DEF QueueOld
<1>17. CASE ShareReadLinks(o)
  BY <1>17 DEF ShareReadLinks
<1>18. CASE ShareInsert(o)
  BY <1>18 DEF ShareInsert
<1>19. CASE TaskFinish(o)
  BY <1>19 DEF TaskFinish
<1> QED
  BY <1>1, <1>2, <1>3, <1>4, <1>5, <1>6, <1>7, <1>8, <1>9, <1>10, <1>11, <1>12,
     <1>13, <1>14, <1>15, <1>16, <1>17, <1>18, <1>19 DEF Advance

\* No op becomes fresh again: what it shows, it has shown for good.
LEMMA AdvanceYoung ==
  ASSUME IInv, IInv', FilesInv, OrphanInv, NEW o \in Op, Advance(o)
  PROVE  BegunInv' /\ YoungInv' /\ UnsavedInv'
<1>0. TypeOK /\ TypeOK'
  BY DEF IInv
<1>1. /\ pc[o] \notin {"idle", "done"} /\ UNCHANGED <<req, clock>>
      /\ \A q \in Op \ {o} : pc'[q] = pc[q]
      /\ \/ UNCHANGED queue
         \/ QueueOld(o) /\ queue' = queue \union {[path |-> old[o], at |-> clock]}
  BY <1>0, AdvanceFrame
<1>2. BegunInv'
  BY <1>1 DEF OrphanInv, BegunInv, InFlight
<1>3. YoungInv'
  <2> SUFFICES ASSUME NEW f \in Op, InFlight(f)', ~Fresh(f)', NEW rec \in queue', rec.path = f
               PROVE  rec.at >= req[f].begun
    BY <1>1 DEF YoungInv
  <2>1. InFlight(f) /\ req[f].begun <= clock
    BY <1>1 DEF InFlight, OrphanInv, BegunInv
  <2>2. CASE rec \in queue
    <3>1. ~Fresh(f)
      BY <2>2 DEF IInv, QueueInv
    <3> QED BY <2>1, <2>2, <3>1 DEF OrphanInv, YoungInv
  <2>3. CASE rec = [path |-> old[o], at |-> clock]
    BY <1>0, <2>1, <2>3 DEF TypeOK, Request
  <2> QED BY <1>1, <2>2, <2>3
<1>4. UnsavedInv'
  <2> USE DEF TypeOK, OrphanInv, UnsavedInv, KindInv, Goto, Succeeds, Fails, taskVars, diskVars
  <2>0. TypeOK /\ KindInv
    BY <1>0 DEF FilesInv
  <2>1. CASE CreateInsert(o) \/ RetryReset(o)
    BY <1>1, <2>0, <2>1 DEF CreateInsert, RetryReset
  <2>2. CASE RetryDropOld(o)
    BY <1>1, <2>0, <2>2 DEF RetryDropOld
  <2>3. CASE Enqueue(o) \/ TaskStart(o)
    BY <1>1, <2>0, <2>3 DEF Enqueue, TaskStart
  <2>4. CASE CreateRewrite(o) \/ CreateDropStale(o)
    BY <1>1, <2>0, <2>4 DEF CreateRewrite, CreateDropStale
  <2>5. CASE CreateLastCheck(o) \/ CreateFinalize(o) \/ CreateOnError(o) \/ CreateMarkFailed(o)
    BY <1>1, <2>0, <2>5 DEF CreateLastCheck, CreateFinalize, CreateOnError, CreateMarkFailed
  <2>6. CASE UpdateRead(o) \/ UpdateRewrite(o) \/ UpdateCommit(o)
    BY <1>1, <2>0, <2>6 DEF UpdateRead, UpdateRewrite, UpdateCommit
  <2>7. CASE DeleteRow(o) \/ QueueOld(o) \/ ShareReadLinks(o) \/ ShareInsert(o) \/ TaskFinish(o)
    BY <1>1, <2>0, <2>7 DEF DeleteRow, QueueOld, ShareReadLinks, ShareInsert, TaskFinish
  <2> QED BY <2>1, <2>2, <2>3, <2>4, <2>5, <2>6, <2>7 DEF Advance
<1> QED BY <1>2, <1>3, <1>4

\* While the past was undisturbed so is the step, and so was all before it.
LEMMA AdvanceKept ==
  ASSUME IInv, IInv', FilesInv, NEW o \in Op, Advance(o), Undisturbed',
         UnsavedInv, NoneFailed, HeldIsShown, KeptInv
  PROVE  NoneFailed' /\ HeldIsShown' /\ KeptInv'
<1>2. ~RetryReset(o) /\ ~RetryDropOld(o)
  BY DEF NoneFailed, RetryReset, RetryDropOld
<1> USE DEF IInv, TypeOK, RequestInv, RowInv, KindInv, NoneFailed, HeldIsShown, KeptInv,
            Kept, Saving, Fresh, Shows, Goto, Succeeds, Fails, taskVars, diskVars, HasRow, InFlight
<1>0. TypeOK /\ RequestInv /\ KindInv /\ UnusedInv
  BY DEF FilesInv
<1>u. /\ faults' = 0
      /\ \A q, r \in Op : /\ pc[q] # "idle" /\ req[q].kind = "update"
                       /\ pc[r] # "idle" /\ req[r].kind \in {"update", "delete"}
                      => q = r
  <2>1. /\ pc[o] # "idle" /\ pc'[o] # "idle" /\ UNCHANGED req
        /\ \A q \in Op \ {o} : pc'[q] = pc[q]
    BY <1>0, AdvanceFrame
  <2> QED BY <2>1 DEF Undisturbed
<1>1. CASE CreateInsert(o)
  <2>1. /\ pc[o] = "insert" /\ pc'[o] = "enqueue" /\ UNCHANGED <<req, old, queue, files>>
        /\ \A q \in Op \ {o} : pc'[q] = pc[q] /\ pages'[q] = pages[q]
        /\ req[o].page = o /\ req[o].kind = "create" /\ ~HasRow(o)
        /\ pages'[o].html = o /\ pages'[o].state = "pending"
        /\ \A q \in Op \ {o} : pc[q] # "idle" => req[q].page # o
    BY <1>0, <1>u, <1>1 DEF CreateInsert, UnusedInv
  <2>2. NoneFailed' /\ HeldIsShown'
    BY <1>0, <2>1, SMTT(40)
  <2>3. KeptInv'
    BY <1>0, <2>1
  <2> QED BY <2>2, <2>3
<1>4. CASE Enqueue(o)
  BY <1>0, <1>4 DEF Enqueue
<1>5. CASE TaskStart(o)
  BY <1>0, <1>5 DEF TaskStart, UnsavedInv
<1>6. CASE CreateRewrite(o)
  BY <1>0, <1>u, <1>6 DEF CreateRewrite
<1>7. CASE CreateLastCheck(o)
  BY <1>0, <1>7 DEF CreateLastCheck
<1>8. CASE CreateFinalize(o)
  <2>1. /\ pc[o] = "finalize" /\ UNCHANGED <<req, old, queue, files>>
        /\ \A q \in Op \ {o} : pc'[q] = pc[q]
        /\ pc'[o] = "finish" \/ (pc'[o] = "onError" /\ ~HasRow(req[o].page) /\ UNCHANGED pages)
    BY <1>0, <1>u, <1>8 DEF CreateFinalize, LinkFails
  <2>2. \/ UNCHANGED pages
        \/ Writes(req[o].page, pages[req[o].page].html, "ready", pages[req[o].page].hash)
    BY <1>0, <1>8, RowWrites
  <2>3. \A p \in Op : (HasRow(p)' <=> HasRow(p)) /\ pages'[p].html = pages[p].html
    BY <2>2 DEF Writes
  <2>4. NoneFailed'
    <3>1. \A p \in Op : HasRow(p)' => pages'[p].state # "failed"
      BY <2>2, <2>3, SMTT(40) DEF Writes
    <3>2. ASSUME NEW q \in Op, pc'[q] \in {"onError", "markFailed"}
          PROVE  ~HasRow(req[q].page)'
      BY <1>0, <2>1, <2>3, <3>2, SMTT(40)
    <3> QED BY <2>1, <3>1, <3>2
  <2>5. HeldIsShown'
    BY <1>0, <2>1, <2>3
  <2>6. ASSUME NEW f \in Op, Kept(f) PROVE Kept(f)'
    <3>1. CASE \E p \in Op : Shows(p, f)
      BY <2>3, <3>1
    <3>2. CASE \/ \E rec \in queue : rec.path = f
               \/ \E q \in Op : pc[q] = "queueOld" /\ old[q] = f
      BY <2>1, <3>2
    <3> QED BY <2>6, <3>1, <3>2
  <2>7. KeptInv'
    BY <1>0, <2>1, <2>6
  <2> QED BY <2>4, <2>5, <2>7
<1>9. CASE CreateOnError(o)
  BY <1>0, <1>9 DEF CreateOnError
<1>10. CASE CreateMarkFailed(o)
  BY <1>0, <1>u, <1>10 DEF CreateMarkFailed
<1>11. CASE CreateDropStale(o)
  BY <1>0, <1>11 DEF CreateDropStale
<1>12. CASE UpdateRead(o)
  <2>1. /\ pc[o] = "read" /\ UNCHANGED <<req, pages, queue>> /\ req[o].kind = "update"
        /\ \A q \in Op \ {o} : pc'[q] = pc[q] /\ old'[q] = old[q] /\ files'[q] = files[q]
        /\ \/ pc'[o] = "finish" /\ UNCHANGED <<old, files>>
           \/ /\ pc'[o] = "rewrite" /\ HasRow(req[o].page)
              /\ old'[o] = pages[req[o].page].html
    BY <1>0, <1>12 DEF UpdateRead
  <2>2. NoneFailed' /\ HeldIsShown'
    BY <1>0, <2>1
  <2>3. KeptInv'
    BY <1>0, <2>1 DEF UnsavedInv
  <2> QED BY <2>2, <2>3
<1>13. CASE UpdateRewrite(o)
  <2>1. /\ pc[o] = "rewrite" /\ req[o].kind = "update" /\ UNCHANGED <<req, pages, old, queue>>
        /\ \A q \in Op \ {o} : pc'[q] = pc[q] /\ files'[q] = files[q]
        /\ pc'[o] = "commit" \/ (pc'[o] = "finish" /\ files'[o] = "none")
    BY <1>0, <1>u, <1>13 DEF UpdateRewrite
  <2>2. NoneFailed' /\ HeldIsShown'
    BY <1>0, <2>1
  <2>3. KeptInv'
    BY <1>0, <2>1
  <2> QED BY <2>2, <2>3
<1>14. CASE UpdateCommit(o)
  <2>1. /\ pc[o] = "commit" /\ req[o].page \in Op /\ req[o].kind = "update"
        /\ Shows(req[o].page, old[o])
    BY <1>0, <1>14 DEF UpdateCommit
  <2>2. /\ pc'[o] = "queueOld" /\ UNCHANGED <<req, old, queue, files>>
        /\ \A q \in Op \ {o} : pc'[q] = pc[q]
    BY <1>0, <1>u, <1>14, <2>1, SMTT(40) DEF UpdateCommit, LinkFails
  <2>3. Writes(req[o].page, o, "ready", req[o].content)
    <3> DEFINE row == [pages[req[o].page] EXCEPT !.html = o, !.hash = req[o].content,
                                    !.state = "ready", !.links = req[o].content]
    <3>1. pages' = [pages EXCEPT ![req[o].page] = row]
      BY <1>0, <1>u, <1>14, <2>1, SMTT(40) DEF UpdateCommit, LinkFails
    <3>2. /\ row.html = o /\ row.hash = req[o].content /\ row.state = "ready"
          /\ row.url = pages[req[o].page].url
      BY <1>0, <2>1 DEF Row
    <3> HIDE DEF row
    <3> QED BY <1>0, <2>1, <3>1, <3>2 DEF Writes
  <2>3a. \A p \in Op : /\ HasRow(p)' <=> HasRow(p)
                       /\ HasRow(p)' => pages'[p].state # "failed"
    BY <2>1, <2>3 DEF Writes
  <2>4. NoneFailed'
    BY <1>0, <2>1, <2>2, <2>3a
  <2>5. HeldIsShown'
    BY <1>0, <1>u, <2>1, <2>2, <2>3 DEF Writes
  <2>6. ASSUME NEW f \in Op, Kept(f) PROVE Kept(f)'
    <3>1. CASE \E p \in Op : Shows(p, f)
      BY <2>1, <2>2, <2>3, <3>1 DEF Writes
    <3>2. CASE \/ \E rec \in queue : rec.path = f
               \/ \E q \in Op : pc[q] = "queueOld" /\ old[q] = f
      BY <2>1, <2>2, <3>2
    <3> QED BY <2>6, <3>1, <3>2
  <2>7. Kept(o)'
    BY <2>1, <2>3 DEF Writes
  <2>8. KeptInv'
    BY <1>0, <2>1, <2>2, <2>6, <2>7
  <2> QED BY <2>4, <2>5, <2>8
<1>15. CASE DeleteRow(o)
  <2>1. /\ pc[o] = "deleteRow" /\ pc'[o] = "queueOld" /\ req[o].kind = "delete"
        /\ req[o].page \in Op /\ UNCHANGED <<req, old, files, queue>>
        /\ \A q \in Op \ {o} : pc'[q] = pc[q]
    BY <1>0, <1>u, <1>15 DEF DeleteRow
  <2>2. /\ ~HasRow(req[o].page)'
        /\ \A q \in Op \ {req[o].page} : pages'[q] = pages[q]
    BY <1>0, <1>u, <1>15, <2>1 DEF DeleteRow, NoRow
  <2>3. NoneFailed'
    <3>1. \A p \in Op : HasRow(p)' => HasRow(p) /\ pages'[p] = pages[p]
      BY <2>1, <2>2
    <3> QED BY <1>0, <2>1, <3>1
  <2>4. HeldIsShown'
    BY <1>0, <1>u, <2>1, <2>2, SMTT(40)
  <2>5. ASSUME NEW f \in Op, Kept(f) PROVE Kept(f)'
    <3>1. CASE \E p \in Op : Shows(p, f)
      BY <2>1, <2>2, <3>1
    <3>2. CASE \/ \E rec \in queue : rec.path = f
               \/ \E q \in Op : pc[q] = "queueOld" /\ old[q] = f
      BY <2>1, <3>2
    <3> QED BY <2>5, <3>1, <3>2
  <2>6. KeptInv'
    BY <1>0, <2>1, <2>5
  <2> QED BY <2>3, <2>4, <2>6
<1>16. CASE QueueOld(o)
  <2>1. /\ pc[o] = "queueOld" /\ pc'[o] \in {"finish", "done"}
        /\ UNCHANGED <<req, old, files, pages>>
        /\ \A q \in Op \ {o} : pc'[q] = pc[q]
        /\ queue' = queue \union {[path |-> old[o], at |-> clock]}
    BY <1>0, <1>u, <1>16 DEF QueueOld
  <2>2. NoneFailed' /\ HeldIsShown'
    BY <1>0, <2>1
  <2>3. ASSUME NEW f \in Op, Kept(f) PROVE Kept(f)'
    <3>1. CASE old[o] = f
      <4>1. [path |-> old[o], at |-> clock].path = f
        BY <3>1
      <4> QED BY <2>1, <4>1
    <3>2. CASE old[o] # f
      BY <2>1, <2>3, <3>2
    <3> QED BY <3>1, <3>2
  <2>4. req[o].kind \in {"update", "delete"}
    BY <1>0, <2>1
  <2>5. KeptInv'
    BY <1>0, <2>1, <2>3
  <2> QED BY <2>2, <2>5
<1>17. CASE ShareReadLinks(o)
  BY <1>0, <1>17 DEF ShareReadLinks
<1>18. CASE ShareInsert(o)
  BY <1>0, <1>18, SMTT(40) DEF ShareInsert
<1>19. CASE TaskFinish(o)
  BY <1>0, <1>19 DEF TaskFinish, ForgetTask
<1> QED
  BY <1>1, <1>2, <1>4, <1>5, <1>6, <1>7, <1>8, <1>9, <1>10, <1>11, <1>12,
     <1>13, <1>14, <1>15, <1>16, <1>17, <1>18, <1>19 DEF Advance

\* The requests that arrive.
LEMMA ArriveOrphan ==
  ASSUME IInv, FilesInv, OrphanInv, NEW o \in Op, Arrive(o)
  PROVE  OrphanInv'
<1> USE DEF IInv, TypeOK, RequestInv, RowInv, KindInv, Fresh, Shows, Goto, Accept,
            taskVars, diskVars, HasRow, InFlight
<1>0. TypeOK /\ RequestInv /\ KindInv /\ UnusedInv /\ QueueInv
  BY DEF FilesInv
<1> DEFINE Arrived ==
      /\ pc[o] = "idle" /\ pc'[o] # "idle" /\ UNCHANGED <<queue, pages, clock, faults, crashes>>
      /\ \A q \in Op \ {o} : /\ pc'[q] = pc[q] /\ req'[q] = req[q]
                             /\ files'[q] = files[q] /\ old'[q] = old[q]
      /\ req'[o].begun = clock /\ files[o] = "none"
<1>1. Arrived
  <2>1. files[o] = "none" /\ pc[o] = "idle"
    BY DEF OrphanInv, UnsavedInv, Arrive, CreateLookup, UpdateRequest, DeleteRead, ShareRead
  <2>2. ASSUME NEW u \in Url, NEW c \in Content, CreateLookup(o, u, c)
        PROVE  Arrived
    BY <2>1, <2>2 DEF CreateLookup, AnswerHit, SaveNew
  <2>3. ASSUME NEW p \in Op, NEW c \in Content, UpdateRequest(o, p, c) PROVE Arrived
    BY <2>1, <2>3 DEF UpdateRequest
  <2>4. ASSUME NEW p \in Op, DeleteRead(o, p) PROVE Arrived
    BY <2>1, <2>4 DEF DeleteRead
  <2>5. ASSUME NEW p \in Op, ShareRead(o, p) PROVE Arrived
    BY <2>1, <2>5 DEF ShareRead
  <2> QED BY <2>2, <2>3, <2>4, <2>5 DEF Arrive
<1>2. BegunInv' /\ YoungInv'
  BY <1>0, <1>1 DEF OrphanInv, BegunInv, YoungInv, QueueInv
<1> DEFINE Asked ==
      /\ req'[o].kind \in {"create", "update", "delete", "share"}
      /\ req'[o].kind = "update" => /\ pc'[o] \in {"done", "enqueue"} /\ UNCHANGED <<files, old>>
                                    /\ HasRow(req'[o].page)
      /\ req'[o].kind = "delete" => /\ pc'[o] = "deleteRow" /\ UNCHANGED files
                                    /\ Shows(req'[o].page, old'[o])
      /\ req'[o].kind = "share" => pc'[o] = "readLinks" /\ UNCHANGED files
      /\ req'[o].kind = "create" =>
           \/ pc'[o] = "done" /\ UNCHANGED files
           \/ pc'[o] = "insert"
           \/ pc'[o] = "reset" /\ \E p \in Op : HasRow(p) /\ pages[p].state = "failed"
<1>3. Asked
  <2>2. ASSUME NEW u \in Url, NEW c \in Content, CreateLookup(o, u, c)
        PROVE  Asked
    <3>1. CASE AnswerHit(o, u, c)
      BY <2>2, <3>1 DEF CreateLookup, AnswerHit
    <3>2. CASE SaveNew(o, u, c)
      BY <2>2, <3>2 DEF CreateLookup, SaveNew, Hits, HitsIn
    <3> QED BY <2>2, <3>1, <3>2 DEF CreateLookup
  <2>3. ASSUME NEW p \in Op, NEW c \in Content, UpdateRequest(o, p, c) PROVE Asked
    BY <2>3 DEF UpdateRequest
  <2>4. ASSUME NEW p \in Op, DeleteRead(o, p) PROVE Asked
    BY <2>4 DEF DeleteRead
  <2>5. ASSUME NEW p \in Op, ShareRead(o, p) PROVE Asked
    BY <2>5 DEF ShareRead
  <2> QED BY <2>2, <2>3, <2>4, <2>5 DEF Arrive
<1>4. UnsavedInv'
  BY <1>0, <1>1, <1>3 DEF OrphanInv, UnsavedInv
<1>5. ASSUME Undisturbed' PROVE NoneFailed' /\ HeldIsShown' /\ KeptInv'
  <2>1. /\ Undisturbed
        /\ \A q, r \in Op : /\ pc'[q] # "idle" /\ req'[q].kind = "update"
                            /\ pc'[r] # "idle" /\ req'[r].kind \in {"update", "delete"}
                           => q = r
    BY <1>1, <1>5 DEF Undisturbed
  <2>2. NoneFailed /\ HeldIsShown /\ KeptInv
    BY <2>1 DEF OrphanInv
  <2>3. NoneFailed'
    BY <1>0, <1>1, <1>3, <2>2 DEF NoneFailed
  <2>4. HeldIsShown'
    BY <1>0, <1>1, <1>3, <2>2 DEF HeldIsShown
  <2>5. \A f \in Op : Kept(f) => Kept(f)'
    BY <1>1 DEF Kept
  <2>6. KeptInv'
    BY <1>0, <1>1, <1>3, <2>2, <2>5 DEF KeptInv, Saving
  <2> QED BY <2>3, <2>4, <2>6
<1> QED BY <1>2, <1>4, <1>5 DEF OrphanInv

\* At the start rows show the only files.
LEMMA InitOrphan == Init => OrphanInv
<1> SUFFICES ASSUME Init PROVE OrphanInv
  OBVIOUS
<1>1. PICK u \in [Seeded -> Url], c \in [Seeded -> Content] : Init!1!(u, c)
  BY DEF Init
<1>2. \A o \in Op : IF o \in Seeded THEN pc[o] = "done" ELSE pc[o] = "idle" /\ files[o] = "none"
  BY DEF Init
<1>3. \A p \in Op : IF p \in Seeded
                    THEN pages[p].state = "ready" /\ pages[p].html = p
                    ELSE ~HasRow(p)
  <2>1. ASSUME NEW p \in Op, p \in Seeded PROVE pages[p].state = "ready" /\ pages[p].html = p
    BY <1>1, <2>1
  <2>2. ASSUME NEW p \in Op, p \notin Seeded PROVE ~HasRow(p)
    BY <1>1, <2>2 DEF NoRow, HasRow
  <2> QED BY <2>1, <2>2
<1> QED
  BY <1>2, <1>3 DEF OrphanInv, BegunInv, YoungInv, UnsavedInv, NoneFailed, HeldIsShown, KeptInv,
                    Kept, Saving, Shows, HasRow, InFlight

\* The cleanup removes a record together with its file; nothing else in the
\* environment touches rows, files or the queue.
LEMMA NextOrphan == IInv /\ IInv' /\ FilesInv /\ OrphanInv /\ [Next]_vars => OrphanInv'
<1> SUFFICES ASSUME IInv, IInv', FilesInv, OrphanInv, [Next]_vars PROVE OrphanInv'
  OBVIOUS
<1>1. ASSUME NEW o \in Op, Arrive(o)
      PROVE  OrphanInv'
  BY <1>1, ArriveOrphan
<1>2. ASSUME NEW o \in Op, Advance(o)
      PROVE  OrphanInv'
  <2>1. BegunInv' /\ YoungInv' /\ UnsavedInv'
    BY <1>2, AdvanceYoung
  <2>2. ASSUME Undisturbed' PROVE NoneFailed' /\ HeldIsShown' /\ KeptInv'
    <3>1. /\ pc[o] # "idle" /\ pc'[o] # "idle" /\ UNCHANGED <<req, crashes>>
          /\ \A q \in Op \ {o} : pc'[q] = pc[q]
          /\ faults' = faults \/ faults' # 0
      BY <1>2, AdvanceFrame DEF IInv
    <3>2. Undisturbed
      BY <2>2, <3>1 DEF Undisturbed
    <3> QED BY <1>2, <2>2, <3>2, AdvanceKept DEF OrphanInv
  <2> QED BY <2>1, <2>2 DEF OrphanInv
<1> USE DEF OrphanInv, BegunInv, YoungInv, UnsavedInv, Undisturbed, NoneFailed, HeldIsShown,
            KeptInv, Kept, Saving, Shows, Fresh, HasRow, InFlight, taskVars, diskVars
<1>3. ASSUME NEW s \in Op, ShareEnd(s)
      PROVE  OrphanInv'
  BY <1>3 DEF ShareEnd
<1>4. ASSUME NEW rec \in queue, Cleanup(rec)
      PROVE  OrphanInv'
  <2>1. /\ UNCHANGED <<pc, req, old, pages, clock, faults, crashes>> /\ queue' = queue \ {rec}
        /\ rec.path \in Op /\ rec.at \in Nat /\ rec.at + Retention <= clock
        /\ files'[rec.path] = "none" /\ \A f \in Op : f # rec.path => files'[f] = files[f]
        /\ ~Fresh(rec.path)
    BY <1>4 DEF Cleanup, IInv, TypeOK, Record, QueueInv
  <2>2. ~InFlight(rec.path)
    <3> SUFFICES ASSUME InFlight(rec.path) PROVE FALSE
      OBVIOUS
    <3>1. req[rec.path].begun \in Nat /\ clock \in Nat /\ clock <= req[rec.path].begun + 1
      BY <2>1 DEF IInv, TypeOK, Request
    <3>2. rec.at >= req[rec.path].begun
      BY <2>1
    <3> QED BY <2>1, <3>1, <3>2, BoundsAssumption
  <2>3. BegunInv' /\ YoungInv' /\ UnsavedInv'
    BY <2>1
  <2>4. ASSUME Undisturbed' PROVE NoneFailed' /\ HeldIsShown' /\ KeptInv'
    <3>1. Undisturbed /\ NoneFailed' /\ HeldIsShown'
      BY <2>1, <2>4
    <3>2. ASSUME NEW f \in Op, f # rec.path, Kept(f) PROVE Kept(f)'
      BY <2>1, <3>2
    <3>3. KeptInv'
      BY <2>1, <2>2, <3>1, <3>2
    <3> QED BY <3>1, <3>3
  <2> QED BY <2>3, <2>4
<1>5. CASE Tick
  BY <1>5 DEF Tick, IInv, TypeOK
<1>6. CASE Crash
  <2>1. /\ UNCHANGED <<req, old, pages, files, queue, clock>> /\ crashes' # 0
        /\ \A o \in Op : pc'[o] = IF pc[o] = "idle" THEN "idle" ELSE "done"
    BY <1>6 DEF Crash, IInv, TypeOK
  <2> QED BY <2>1
<1>7. CASE UNCHANGED vars
  BY <1>7 DEF vars
<1> QED BY <1>1, <1>2, <1>3, <1>4, <1>5, <1>6, <1>7 DEF Next

\* As long as nothing failed and no update met another update or a deletion, no
\* superseded HTML file is left on disk for good: at rest a row shows it or the
\* deletion queue has it, whatever captures, deletions and shares interleaved.
THEOREM NoOrphans == Spec => []NoOrphanAtRest
<1>1. IInv /\ FilesInv /\ OrphanInv => NoOrphanAtRest
  BY DEF OrphanInv, KeptInv, Kept, Saving, Undisturbed, NoOrphanAtRest, Shows, Fresh,
         InFlight, UnsavedInv
<1> QED BY <1>1, InitOrphan, NextOrphan, Invariance, FilesInvariance, PTL DEF Spec

-----------------------------------------------------------------------------
(* A page does not lose its HTML.                                          *)
(*                                                                         *)
(* Two arguments, for the two ways a create task may be told it is stale.   *)
(* A page that is never updated has one task at work, and that task is the  *)
(* latest: a retry is numbered above the failed task that has yet to finish. *)
(* With a second failing call this breaks (the finished retry forgets the    *)
(* page, numbering restarts at 1, and the first task finishes last).        *)
(* A page that is updated while nothing fails loses its first HTML only to   *)
(* an update that is the latest task and will commit.                       *)

\* o runs a background task that has its number.
Numbered(o) ==
  \/ pc[o] \in {"start", "read", "rewrite", "written", "finalize", "onError", "markFailed",
                "dropStale", "commit", "finish"}
  \/ pc[o] = "queueOld" /\ req[o].kind = "update"

NeverUpdated(p) == \A o \in Op : req[o].page = p => req[o].kind # "update"

\* A row was inserted by the create request of its own name; before, its page has no
\* task; a saved file waits for its row.
OwnInv ==
  /\ \A p \in Op : HasRow(p) => req[p].kind = "create" /\ req[p].page = p
  /\ \A p \in Op : pc[p] \in {"idle", "insert"} => latest[p] = 0
  /\ \A o \in Op : /\ pc[o] \in {"insert", "reset"} => files[o] # "none"
                   /\ pc[o] = "finish" => req[o].kind \in {"create", "update"}
                   /\ pc[o] = "idle" => req[o].page \notin Op

\* The create task whose file the row of p shows is the latest and keeps that file.  If
\* it is a retry, a call has failed, and the page's own task may still have to finish,
\* under a number that the retry does not share.
AloneTask(p) ==
  LET state == pages[p].state
      h == pages[p].html IN
  /\ files[h] # "none" /\ pc[h] # "dropStale"
  /\ Numbered(h) => seq[h] = latest[p]
  /\ state = "failed" \/ pc[h] \in {"onError", "markFailed"} => faults # 0 /\ h = p
  /\ state = "failed" => pc[p] \in {"finish", "done"}
  /\ h # p => faults # 0 /\ pc[p] \in {"finish", "done"}
  /\ h # p /\ pc[p] = "finish" =>
       IF pc[h] \in {"dropOld", "enqueue"} THEN seq[p] = latest[p]
                                           ELSE pc[h] = "done" \/ seq[p] < seq[h]

\* The other create requests on the page wait for the lock to retry it, while it is still
\* the failed page they found.
AloneRetries(p) ==
  /\ \A o \in Op \ {p, pages[p].html} :
       req[o].page = p /\ req[o].kind = "create" => pc[o] \in {"idle", "reset", "done"}
  /\ \A o \in Op : req[o].page = p /\ pc[o] = "reset" =>
       /\ pages[p].state = "failed"
       /\ pages[p].url = req[o].url /\ pages[p].hash = req[o].content

Alone(p) == AloneTask(p) /\ AloneRetries(p)

\* Nothing is retried: a create works on its own page, and a row shows its own file or
\* an update's.
NoRetries ==
  /\ NoneFailed
  /\ \A o \in Op : InFlight(o) /\ req[o].kind = "create" => req[o].page = o
  /\ \A p \in Op : HasRow(p) => pages[p].html = p \/ req[pages[p].html].kind = "update"

\* The file of the page's own create is not whole yet, or gone.
AtRisk(p) ==
  pc[p] \in {"enqueue", "start", "rewrite", "written", "dropStale"} \/ files[p] = "none"

\* o is the latest task of p: the create, which then goes on, or an update, which then
\* commits another content.
Leads(o, p) ==
  /\ Numbered(o) /\ req[o].page = p /\ seq[o] = latest[p]
  /\ \/ o = p /\ pc[p] \in {"start", "rewrite", "written"}
     \/ /\ req[o].kind = "update" /\ pc[o] \in {"start", "read", "rewrite", "commit"}
        /\ req[o].content # pages[p].hash

\* The tasks of p have numbers of their own up to the latest, which one of them has.
Led(p) ==
  /\ \A o \in Op : Numbered(o) /\ req[o].page = p => 1 <= seq[o] /\ seq[o] <= latest[p]
  /\ \A o, q \in Op : /\ Numbered(o) /\ req[o].page = p
                      /\ Numbered(q) /\ req[q].page = p /\ seq[o] = seq[q]
                      => o = q
  /\ \A o \in Op : pc[o] = "enqueue" /\ req[o].page = p /\ req[o].kind = "update" =>
                     req[o].content # pages[p].hash
  /\ (pc[p] = "enqueue" /\ latest[p] = 0) \/ \E o \in Op : Leads(o, p)

AloneInv == faults <= 1 => \A p \in Op : HasRow(p) /\ NeverUpdated(p) => Alone(p)

LedInv ==
  /\ faults = 0 => NoRetries
  /\ faults = 0 /\ crashes = 0 =>
       \A p \in Op : HasRow(p) /\ pages[p].html = p /\ AtRisk(p) => Led(p)

LossInv == OwnInv /\ AloneInv /\ LedInv

-----------------------------------------------------------------------------
(* What a step of a running op leaves alone.                               *)

\* A step concerns the op, its page and its file; a retry also removes one other file.
LEMMA AdvanceLocal ==
  ASSUME TypeOK, RequestInv, NEW o \in Op, Advance(o)
  PROVE  /\ faults' = faults \/ faults' = faults + 1
         /\ \A q \in Op \ {o} : seq'[q] = seq[q]
         /\ \A p \in Op : p # req[o].page => pages'[p] = pages[p] /\ latest'[p] = latest[p]
         /\ \A f \in Op \ {o} : files'[f] = files[f] \/ (pc[o] = "dropOld" /\ f = old[o])
<1> USE DEF TypeOK, Goto, Succeeds, Fails, taskVars, diskVars
<1>1. CASE CreateInsert(o)
  BY <1>1 DEF CreateInsert, RequestInv
<1>2. CASE RetryReset(o)
  BY <1>2 DEF RetryReset
<1>3. CASE RetryDropOld(o)
  BY <1>3 DEF RetryDropOld
<1>4. CASE Enqueue(o)
  BY <1>4 DEF Enqueue
<1>5. CASE TaskStart(o)
  BY <1>5 DEF TaskStart
<1>6. CASE CreateRewrite(o)
  BY <1>6 DEF CreateRewrite
<1>7. CASE CreateLastCheck(o)
  BY <1>7 DEF CreateLastCheck
<1>8. CASE CreateFinalize(o)
  BY <1>8 DEF CreateFinalize
<1>9. CASE CreateOnError(o)
  BY <1>9 DEF CreateOnError
<1>10. CASE CreateMarkFailed(o)
  BY <1>10 DEF CreateMarkFailed
<1>11. CASE CreateDropStale(o)
  BY <1>11 DEF CreateDropStale
<1>12. CASE UpdateRead(o)
  BY <1>12 DEF UpdateRead
<1>13. CASE UpdateRewrite(o)
  BY <1>13 DEF UpdateRewrite
<1>14. CASE UpdateCommit(o)
  BY <1>14 DEF UpdateCommit
<1>15. CASE DeleteRow(o)
  BY <1>15 DEF DeleteRow
<1>16. CASE QueueOld(o)
  BY <1>16 DEF QueueOld
<1>17. CASE ShareReadLinks(o)
  BY <1>17 DEF ShareReadLinks
<1>18. CASE ShareInsert(o)
  BY <1>18 DEF ShareInsert
<1>19. CASE TaskFinish(o)
  BY <1>19 DEF TaskFinish, ForgetTask
<1> QED
  BY <1>1, <1>2, <1>3, <1>4, <1>5, <1>6, <1>7, <1>8, <1>9, <1>10, <1>11, <1>12,
     <1>13, <1>14, <1>15, <1>16, <1>17, <1>18, <1>19 DEF Advance

\* No running op works on a page that has yet to be inserted, or inserts another's row.
LEMMA AdvanceOwn ==
  ASSUME IInv, FilesInv, OwnInv, NEW o \in Op, Advance(o)
  PROVE  OwnInv'
<1>0. TypeOK /\ RequestInv /\ KindInv /\ UnusedInv /\ DropInv
  BY DEF IInv, FilesInv
<1>1. /\ pc[o] \notin {"idle", "done"} /\ pc'[o] # "idle" /\ UNCHANGED req
      /\ \A q \in Op \ {o} : pc'[q] = pc[q]
  BY <1>0, AdvanceFrame
<1>2. /\ \A p \in Op : p # req[o].page => pages'[p] = pages[p] /\ latest'[p] = latest[p]
      /\ \A f \in Op \ {o} : files'[f] = files[f] \/ (pc[o] = "dropOld" /\ f = old[o])
  BY <1>0, AdvanceLocal
<1>3. \A p \in Op : HasRow(p)' => HasRow(p) \/ (pc[o] = "insert" /\ p = o)
  <2> SUFFICES ASSUME NEW p \in Op, HasRow(p)', ~HasRow(p)
               PROVE  pc[o] = "insert" /\ p = o
    OBVIOUS
  <2>1. FileStep /\ RequestInv'
    BY AdvanceFileStep
  <2>2. PICK h \in Op : pages'[p].html = h /\ req'[h].page = p /\ Fresh(h) /\ ~Fresh(h)'
    BY <2>1 DEF FileStep, RowStep
  <2>3. h = o /\ p = req[o].page
    BY <1>1, <2>2 DEF Fresh
  <2>4. CASE CreateInsert(o)
    BY <1>0, <2>3, <2>4 DEF CreateInsert, RequestInv
  <2>5. CASE ~CreateInsert(o)
    <3>1. ~RetryReset(o) /\ ~UpdateCommit(o) /\ ~CreateFinalize(o) /\ ~CreateMarkFailed(o)
      BY <1>0, <2>2, <2>3, RowWrites DEF Writes, HasRow
    <3>2. UNCHANGED pages \/ DeleteRow(o)
      BY <2>5, <3>1 DEF Advance, RetryDropOld, Enqueue, TaskStart, CreateRewrite,
            CreateLastCheck, CreateOnError, CreateDropStale, UpdateRead, UpdateRewrite,
            QueueOld, ShareReadLinks, ShareInsert, TaskFinish, diskVars
    <3>3. ~DeleteRow(o)
      BY <1>0, <2>2 DEF DeleteRow, TypeOK, NoRow, HasRow
    <3> QED BY <3>2, <3>3 DEF HasRow
  <2> QED BY <2>4, <2>5
<1>4. \A p \in Op : HasRow(p)' => req'[p].kind = "create" /\ req'[p].page = p
  BY <1>0, <1>1, <1>3 DEF OwnInv, KindInv, RequestInv
<1>5. \A p \in Op : pc'[p] \in {"idle", "insert"} => latest'[p] = 0
  <2> SUFFICES ASSUME NEW p \in Op, pc'[p] \in {"idle", "insert"}
               PROVE  latest'[p] = 0
    OBVIOUS
  <2>1. pc'[o] # "insert"
    BY <1>0 DEF Advance, CreateInsert, RetryReset, RetryDropOld, Enqueue, TaskStart,
          CreateRewrite, CreateLastCheck, CreateFinalize, CreateOnError, CreateMarkFailed,
          CreateDropStale, UpdateRead, UpdateRewrite, UpdateCommit, DeleteRow, QueueOld,
          ShareReadLinks, ShareInsert, TaskFinish, Goto, TypeOK
  <2>2. p # o /\ pc[p] = pc'[p]
    BY <1>1, <2>1
  <2>3. p # req[o].page
    BY <1>1, <1>0, <2>2 DEF UnusedInv
  <2> QED BY <1>2, <2>2, <2>3 DEF OwnInv
<1>6. ASSUME NEW q \in Op
      PROVE  /\ pc'[q] \in {"insert", "reset"} => files'[q] # "none"
             /\ pc'[q] = "finish" => req'[q].kind \in {"create", "update"}
             /\ pc'[q] = "idle" => req'[q].page \notin Op
  <2>1. CASE q # o
    <3>1. pc[o] = "dropOld" /\ q = old[o] => pc[q] \notin {"insert", "reset"}
      BY <1>0 DEF DropInv, Fresh
    <3> QED BY <1>1, <1>2, <2>1, <3>1 DEF OwnInv
  <2>2. CASE q = o
    BY <1>0, <1>1, <2>2
       DEF Advance, CreateInsert, RetryReset, RetryDropOld, Enqueue, TaskStart,
           CreateRewrite, CreateLastCheck, CreateFinalize, CreateOnError, CreateMarkFailed,
           CreateDropStale, UpdateRead, UpdateRewrite, UpdateCommit, DeleteRow, QueueOld,
           ShareReadLinks, ShareInsert, TaskFinish, Goto, TypeOK, KindInv
  <2> QED BY <2>1, <2>2
<1> QED BY <1>4, <1>5, <1>6 DEF OwnInv

-----------------------------------------------------------------------------
(* A page that is never updated.                                           *)

\* The steps of ops that work on another page.
LEMMA AloneElsewhere ==
  ASSUME IInv, FilesInv, OwnInv, NEW o \in Op, Advance(o),
         NEW p \in Op, p # req[o].page, HasRow(p), Alone(p)
  PROVE  Alone(p)'
<1> DEFINE h == pages[p].html
<1>0. TypeOK /\ RequestInv /\ DropInv
  BY DEF IInv, FilesInv
<1>1. /\ h \in Op /\ req[h].page = p /\ req[p].page = p /\ pages'[p] = pages[p]
      /\ latest'[p] = latest[p] /\ UNCHANGED req /\ files'[h] = files[h]
      /\ \A q \in Op : req[q].page = p => pc'[q] = pc[q] /\ seq'[q] = seq[q]
  <2>1. h \in Op /\ req[h].page = p /\ req[p].page = p
    BY DEF IInv, RowInv, OwnInv
  <2>2. UNCHANGED req /\ \A q \in Op \ {o} : pc'[q] = pc[q] /\ seq'[q] = seq[q]
    BY <1>0, AdvanceFrame, AdvanceLocal
  <2>3. files'[h] = files[h] \/ (pc[o] = "dropOld" /\ h = old[o])
    BY <1>0, <2>1, AdvanceLocal
  <2>4. ~(pc[o] = "dropOld" /\ h = old[o])
    BY <1>0 DEF DropInv, Shows
  <2>5. pages'[p] = pages[p] /\ latest'[p] = latest[p]
    BY <1>0, AdvanceLocal
  <2> HIDE DEF h
  <2> QED BY <2>1, <2>2, <2>3, <2>4, <2>5
<1>2. faults # 0 => faults' # 0
  BY <1>0, AdvanceLocal DEF TypeOK
<1> QED BY <1>1, <1>2 DEF Alone, AloneTask, AloneRetries, Numbered

\* Nobody retries a page but the holder of its lock, and only a failed one.
LEMMA AloneHere ==
  ASSUME IInv, IInv', FilesInv, LockInv, OwnInv, NEW o \in Op, Advance(o),
         NEW p \in Op, p = req[o].page, HasRow(p), HasRow(p)', NeverUpdated(p), Alone(p),
         faults' <= 1
  PROVE  Alone(p)'
<1>0. TypeOK /\ RequestInv /\ KindInv /\ UnusedInv /\ DropInv /\ TypeOK'
  BY DEF IInv, FilesInv
<1>h. PICK h \in Op : h = pages[p].html
  BY DEF IInv, RowInv
<1>1. /\ ~Fresh(h) /\ req[h].page = p
      /\ req[p].page = p /\ req[p].kind = "create" /\ req[h].kind = "create"
      /\ req[o].kind # "update"
  BY <1>h DEF IInv, RowInv, OwnInv, FilesInv, WholeInv, WholeRow, NeverUpdated
<1>t. /\ seq[h] \in Nat /\ seq[p] \in Nat /\ latest[p] \in Nat /\ faults \in Nat
      /\ seq'[h] \in Nat /\ seq'[p] \in Nat /\ latest'[p] \in Nat /\ faults' \in Nat
  BY <1>0 DEF TypeOK
<1>2. /\ pc[o] \notin {"idle", "done"} /\ pc'[o] # "idle" /\ UNCHANGED req
      /\ \A q \in Op \ {o} : pc'[q] = pc[q] /\ seq'[q] = seq[q]
      /\ \A f \in Op \ {o} : files'[f] = files[f] \/ (pc[o] = "dropOld" /\ f = old[o])
      /\ faults' = faults \/ (faults = 0 /\ faults' = 1)
  <2>1. faults' = faults \/ faults' = faults + 1
    BY <1>0, AdvanceLocal
  <2>2. faults' = faults \/ (faults = 0 /\ faults' = 1)
    BY <1>t, <2>1
  <2> QED BY <1>0, <2>2, AdvanceFrame, AdvanceLocal
<1>f. /\ faults # 0 => faults' # 0
      /\ faults' = faults + 1 => faults = 0 /\ faults' # 0
  BY <1>t, <1>2
<1>3. AloneTask(p) /\ AloneRetries(p)
  BY DEF Alone
<1>4. req[o].kind = "create" =>
        /\ o = h \/ pc[o] = "reset" \/ (o = p /\ pc[o] = "finish")
        /\ pc[o] = "reset" => h = p /\ o # h
  BY <1>1, <1>2, <1>3, <1>h DEF AloneTask, AloneRetries, Fresh
<1>5. h # o => files'[h] = files[h] /\ files[h] # "none"
  BY <1>0, <1>1, <1>2, <1>3, <1>h DEF DropInv, Shows, AloneTask
\* The other retries notice no step that leaves the row in its state, or that no retry
\* waits for.
<1>6. ASSUME /\ pages'[p].html = h /\ pages'[p].url = pages[p].url
             /\ pages'[p].hash = pages[p].hash
             /\ \/ pages'[p].state = pages[p].state
                \/ \A q \in Op : req[q].page = p => pc[q] # "reset"
             /\ pc'[o] # "reset" /\ (o \in {h, p} \/ req[o].kind # "create")
      PROVE  AloneRetries(p)'
  BY <1>2, <1>3, <1>6, <1>h DEF AloneRetries
<1> USE DEF Goto, Succeeds, Fails, diskVars
<1>7. CASE CreateInsert(o) \/ UpdateRead(o) \/ UpdateRewrite(o) \/ UpdateCommit(o)
  BY <1>0, <1>1, <1>7 DEF CreateInsert, UpdateRead, UpdateRewrite, UpdateCommit, KindInv,
                          RequestInv, UnusedInv
<1>8. DeleteRow(o) => UNCHANGED pages
  BY <1>0 DEF DeleteRow, NoRow, HasRow, TypeOK
<1>9. CASE CreateDropStale(o)
  BY <1>0, <1>3, <1>4, <1>9, <1>h DEF CreateDropStale, AloneTask, KindInv
<1>10. CASE DeleteRow(o) \/ QueueOld(o) \/ ShareReadLinks(o) \/ ShareInsert(o)
  <2>1. /\ UNCHANGED <<pages, files, latest, seq>> /\ req[o].kind \notin {"create", "update"}
        /\ pc'[o] \in {"done", "queueOld", "insertShare"} /\ o # h /\ o # p
    BY <1>0, <1>1, <1>8, <1>10 DEF DeleteRow, QueueOld, ShareReadLinks, ShareInsert, KindInv,
                                   TypeOK
  <2>2. AloneTask(p)'
    BY <1>h, <1>t, <1>1, <1>2, <1>3, <2>1 DEF AloneTask, Numbered
  <2>3. AloneRetries(p)'
    BY <1>6, <1>h, <2>1
  <2> QED BY <2>2, <2>3 DEF Alone
<1>11. CASE RetryDropOld(o)
  <2>1. /\ o = h /\ pc[h] = "dropOld" /\ pc'[h] = "enqueue" /\ UNCHANGED <<pages, latest, seq>>
        /\ faults' = faults
    BY <1>0, <1>4, <1>11 DEF RetryDropOld, KindInv, TypeOK
  <2>2. files'[h] = files[h]
    <3>1. old[o] \in Op /\ old[o] # h
      BY <1>0, <1>h, <2>1 DEF DropInv, Shows
    <3> QED BY <1>0, <1>11, <3>1 DEF RetryDropOld, TypeOK
  <2>3. AloneTask(p)'
    BY <1>h, <1>t, <1>1, <1>2, <1>3, <2>1, <2>2 DEF AloneTask, Numbered
  <2>4. AloneRetries(p)'
    BY <1>6, <1>h, <2>1
  <2> QED BY <2>3, <2>4 DEF Alone
<1>12. CASE Enqueue(o)
  <2>1. /\ o = h /\ pc[h] = "enqueue" /\ pc'[h] = "start" /\ UNCHANGED <<pages, files>>
        /\ latest'[p] = latest[p] + 1 /\ seq'[h] = latest[p] + 1 /\ faults' = faults
    BY <1>0, <1>1, <1>4, <1>12 DEF Enqueue, KindInv, TypeOK
  <2>3. AloneTask(p)'
    <3>1. CASE h = p
      BY <1>h, <1>1, <1>3, <2>1, <3>1 DEF AloneTask, Numbered
    <3>2. CASE h # p
      <4>1. pc'[p] = pc[p] /\ seq'[p] = seq[p] /\ (pc[p] = "finish" => seq[p] = latest[p])
        BY <1>h, <1>2, <1>3, <2>1, <3>2 DEF AloneTask
      <4>2. pc[p] = "finish" => seq'[p] < seq'[h]
        BY <1>t, <2>1, <4>1
      <4>3. faults' # 0 /\ pc[p] \in {"finish", "done"} /\ pages'[p].state # "failed"
        BY <1>h, <1>3, <1>f, <2>1, <3>2 DEF AloneTask
      <4> QED BY <1>h, <1>3, <2>1, <3>2, <4>1, <4>2, <4>3 DEF AloneTask, Numbered
    <3> QED BY <3>1, <3>2
  <2>4. AloneRetries(p)'
    BY <1>6, <1>h, <2>1
  <2> QED BY <2>3, <2>4 DEF Alone
<1>13. CASE TaskStart(o) \/ CreateRewrite(o) \/ CreateLastCheck(o) \/ CreateOnError(o)
  <2>1. /\ o = h /\ UNCHANGED <<pages, latest, seq>> /\ Numbered(h)
        /\ pc[h] \in {"start", "rewrite", "written", "onError"}
    BY <1>0, <1>1, <1>4, <1>13
       DEF TaskStart, CreateRewrite, CreateLastCheck, CreateOnError, KindInv, Numbered, taskVars
  <2>2. ~Stale(o)
    BY <1>1, <1>3, <1>h, <2>1 DEF Stale, AloneTask
  <2>3. /\ pc'[h] \in {"rewrite", "written", "finalize", "onError", "markFailed"}
        /\ pc'[h] = "onError" => faults' = faults + 1
        /\ pc'[h] = "markFailed" => pc[h] = "onError"
    BY <1>0, <1>1, <1>13, <2>1, <2>2
       DEF TaskStart, CreateRewrite, CreateLastCheck, CreateOnError, TypeOK
  <2>4. files'[h] # "none"
    BY <1>0, <1>3, <1>h, <1>13, <2>1
       DEF TaskStart, CreateRewrite, CreateLastCheck, CreateOnError, TypeOK, AloneTask
  <2>5. AloneTask(p)'
    <3>0. /\ pages'[p].html = h /\ pages'[p].state # "failed"
          /\ seq'[h] = latest'[p] /\ pc'[h] # "dropStale"
          /\ pc'[h] \in {"onError", "markFailed"} => h = p /\ faults' # 0
      <4>1. pages[p].state # "failed"
        BY <1>h, <1>3, <2>1 DEF AloneTask
      <4>2. seq[h] = latest[p]
        BY <1>h, <1>3, <2>1 DEF AloneTask
      <4>3. h # p => faults # 0
        BY <1>h, <1>3 DEF AloneTask
      <4>4. pc[h] = "onError" => h = p /\ faults # 0
        BY <1>h, <1>3 DEF AloneTask
      <4> QED BY <1>h, <1>f, <2>1, <2>3, <4>1, <4>2, <4>3, <4>4
    <3>1. CASE h = p
      BY <2>4, <3>0, <3>1 DEF AloneTask
    <3>2. CASE h # p
      <4>1. /\ pc'[p] = pc[p] /\ seq'[p] = seq[p] /\ faults' # 0 /\ pc[p] \in {"finish", "done"}
            /\ pc[p] = "finish" => seq[p] < seq[h]
        BY <1>h, <1>2, <1>f, <1>3, <2>1, <3>2 DEF AloneTask
      <4>2. pc'[h] \notin {"dropOld", "enqueue"} /\ seq'[h] = seq[h]
        BY <2>1, <2>3
      <4> QED BY <2>4, <3>0, <3>2, <4>1, <4>2 DEF AloneTask
    <3> QED BY <3>1, <3>2
  <2>6. AloneRetries(p)'
    BY <1>6, <1>h, <2>1, <2>3
  <2> QED BY <2>5, <2>6 DEF Alone
<1>14. CASE CreateFinalize(o) \/ CreateMarkFailed(o)
  <2>1. /\ o = h /\ pc[h] \in {"finalize", "markFailed"} /\ UNCHANGED <<files, latest, seq>>
        /\ \A q \in Op : req[q].page = p => pc[q] # "reset"
    <3>1. o = h /\ pc[h] \in {"finalize", "markFailed"} /\ UNCHANGED <<files, latest, seq>>
      BY <1>0, <1>4, <1>14 DEF CreateFinalize, CreateMarkFailed, KindInv
    <3>2. pages[p].state # "failed"
      BY <1>3, <1>h, <3>1 DEF AloneTask
    <3> QED BY <1>3, <3>1, <3>2 DEF AloneRetries
  <2>2. CASE CreateFinalize(o)
    <3>1. \/ UNCHANGED pages /\ pc'[h] = "onError" /\ faults' = faults + 1
          \/ Writes(p, h, "ready", pages[p].hash) /\ pc'[h] = "finish"
      <4>1. \/ UNCHANGED pages
            \/ Writes(p, h, "ready", pages[p].hash) /\ pc'[h] = "finish"
        BY <1>0, <1>h, <2>1, <2>2, RowWrites
      <4>2. \/ pc'[h] = "onError" /\ faults' = faults + 1 /\ UNCHANGED pages
            \/ pc'[h] = "finish" /\ pages'[p].state = "ready"
        BY <1>0, <2>1, <2>2 DEF CreateFinalize, LinkFails, TypeOK, Row
      <4>3. pages'[p].state = "ready" /\ pc'[h] = "finish" /\ UNCHANGED pages =>
              Writes(p, h, "ready", pages[p].hash)
        BY <1>h DEF Writes
      <4> QED BY <4>1, <4>2, <4>3
    <3>2. pages'[p].html = h /\ pages'[p].url = pages[p].url /\ pages'[p].hash = pages[p].hash
      BY <1>h, <3>1 DEF Writes
    <3>3. AloneTask(p)'
      <4>1. pc[h] = "finalize" /\ pages'[p].state # "failed"
        BY <1>0, <1>3, <1>h, <2>1, <2>2, <3>1 DEF CreateFinalize, AloneTask, Writes
      <4>2. seq'[h] = latest'[p] /\ files'[h] # "none" /\ (h # p => faults # 0)
        BY <1>3, <1>h, <2>1, <4>1 DEF AloneTask, Numbered
      <4>3. pc'[h] = "finish" \/ (pc'[h] = "onError" /\ h = p /\ faults' # 0)
        BY <1>f, <3>1, <4>2
      <4>4. CASE h = p
        BY <3>2, <4>1, <4>2, <4>3, <4>4 DEF AloneTask
      <4>5. CASE h # p
        <5>1. /\ pc'[p] = pc[p] /\ seq'[p] = seq[p] /\ faults' # 0
              /\ pc[p] \in {"finish", "done"}
              /\ pc[p] = "finish" => seq[p] < seq[h]
          BY <1>h, <1>2, <1>f, <1>3, <2>1, <4>1, <4>5 DEF AloneTask
        <5> QED BY <2>1, <3>2, <4>1, <4>2, <4>3, <4>5, <5>1 DEF AloneTask
      <4> QED BY <4>4, <4>5
    <3>4. AloneRetries(p)'
      BY <1>6, <2>1, <3>1, <3>2
    <3> QED BY <3>3, <3>4 DEF Alone
  <2>3. CASE CreateMarkFailed(o)
    <3>1. /\ pc[h] = "markFailed" /\ pc'[h] = "finish"
          /\ UNCHANGED pages \/ Writes(p, h, "failed", pages[p].hash)
      BY <1>0, <1>h, <2>1, <2>3, RowWrites DEF CreateMarkFailed, TypeOK
    <3>2. AloneTask(p)'
      BY <1>h, <1>t, <1>1, <1>2, <1>3, <2>1, <3>1 DEF AloneTask, Numbered, Writes
    <3>3. AloneRetries(p)'
      BY <1>6, <1>h, <2>1, <3>1 DEF Writes
    <3> QED BY <3>2, <3>3 DEF Alone
  <2> QED BY <1>14, <2>2, <2>3
<1>15. CASE RetryReset(o)
  <2>1. /\ pc[o] = "reset" /\ h = p /\ o # p /\ UNCHANGED <<latest, seq>>
        /\ pages[p].state = "failed" /\ faults # 0 /\ pc[p] \in {"finish", "done"}
        /\ pc[p] = "finish" => seq[p] = latest[p]
    <3>1. pc[o] = "reset" /\ h = p /\ o # p /\ UNCHANGED <<latest, seq>>
      BY <1>0, <1>4, <1>15 DEF RetryReset, KindInv
    <3>2. pages[p].state = "failed"
      BY <1>3, <3>1 DEF AloneRetries
    <3> QED BY <1>1, <1>3, <1>h, <3>1, <3>2 DEF AloneTask, Numbered
  <2>2. /\ Writes(p, o, "pending", pages[p].hash) /\ pc'[o] = "dropOld" /\ faults' = faults
        /\ files'[o] # "none"
    <3>1. pc'[o] # "done" /\ faults' = faults /\ UNCHANGED files
      BY <1>0, <1>2, <1>t, <1>15, <2>1 DEF RetryReset, TypeOK
    <3> QED BY <1>0, <1>15, <2>1, <3>1, RowWrites DEF OwnInv
  <2>3. \A q \in Op \ {o} : req[q].page = p => pc[q] # "reset"
    BY <1>3, <2>1 DEF AloneRetries, LockInv, HoldsPageLock
  <2>4. AloneTask(p)'
    BY <1>h, <1>t, <1>1, <1>2, <1>3, <2>1, <2>2 DEF AloneTask, Numbered, Writes
  <2>5. AloneRetries(p)'
    BY <1>h, <1>2, <1>3, <2>1, <2>2, <2>3 DEF AloneRetries, Writes
  <2> QED BY <2>4, <2>5 DEF Alone
<1>16. CASE TaskFinish(o)
  <2>1. /\ pc[o] = "finish" /\ pc'[o] = "done" /\ UNCHANGED <<pages, files, seq>>
        /\ latest'[p] = IF latest[p] = seq[o] THEN 0 ELSE latest[p]
        /\ req[o].kind = "create" /\ faults' = faults /\ o \in {h, p}
    BY <1>0, <1>1, <1>4, <1>16 DEF TaskFinish, ForgetTask, OwnInv, TypeOK
  <2>2. AloneTask(p)'
    <3>1. CASE o = h
      BY <1>h, <1>t, <1>1, <1>2, <1>3, <2>1, <3>1 DEF AloneTask, Numbered
    <3>2. CASE o = p /\ o # h
      <4>1. pc'[h] = pc[h] /\ pc[p] = "finish" /\ pc'[p] = "done"
        BY <1>2, <2>1, <3>2
      <4>2. Numbered(h) => latest'[p] = latest[p]
        <5>1. Numbered(h) => seq[p] < seq[h] /\ seq[h] = latest[p]
          BY <1>3, <1>h, <3>2, <4>1 DEF AloneTask, Numbered
        <5> QED BY <1>t, <2>1, <3>2, <5>1
      <4>3. Numbered(h)' => seq'[h] = latest'[p]
        BY <1>3, <1>h, <2>1, <3>2, <4>1, <4>2, <1>1, <1>2 DEF AloneTask, Numbered
      <4> QED BY <1>h, <1>3, <1>f, <2>1, <3>2, <4>1, <4>3 DEF AloneTask
    <3> QED BY <2>1, <3>1, <3>2
  <2>3. AloneRetries(p)'
    BY <1>6, <1>h, <2>1
  <2> QED BY <2>2, <2>3 DEF Alone
<1> QED
  BY <1>7, <1>9, <1>10, <1>11, <1>12, <1>13, <1>14, <1>15, <1>16 DEF Advance

-----------------------------------------------------------------------------
(* A page that is updated while nothing fails.                             *)

\* Only a failure makes a page one to be retried.
LEMMA AdvanceNoRetries ==
  ASSUME IInv, FilesInv, OwnInv, NEW o \in Op, Advance(o), NoRetries, faults' = 0
  PROVE  NoRetries'
<1>0. TypeOK /\ RequestInv /\ KindInv /\ UnusedInv /\ NoneFailed
  BY DEF IInv, FilesInv, NoRetries
<1>1. /\ pc[o] \notin {"idle", "done", "reset", "dropOld"} /\ UNCHANGED req
      /\ \A q \in Op \ {o} : pc'[q] = pc[q]
  BY <1>0, AdvanceFrame DEF NoneFailed
<1>2. \A q \in Op : (InFlight(q) /\ req[q].kind = "create")' => req[q].page = q
  BY <1>1 DEF NoRetries, InFlight
<1>r. PICK r \in Op : r = req[o].page
  BY <1>0, <1>1 DEF RequestInv
<1>3. \A p \in Op \ {r} : pages'[p] = pages[p]
  BY <1>0, <1>r, AdvanceLocal
<1>4. faults' # faults + 1
  BY <1>0 DEF TypeOK
<1>5. pc'[o] \notin {"reset", "dropOld"}
  BY <1>0 DEF Advance, NoneFailed, CreateInsert, RetryReset, RetryDropOld, Enqueue, TaskStart,
        CreateRewrite, CreateLastCheck, CreateFinalize, CreateOnError, CreateMarkFailed,
        CreateDropStale, UpdateRead, UpdateRewrite, UpdateCommit, DeleteRow, QueueOld,
        ShareReadLinks, ShareInsert, TaskFinish, Goto, TypeOK
<1>6. pc'[o] \in {"onError", "markFailed"} =>
        UNCHANGED pages /\ ~HasRow(r)
  <2>1. CASE CreateRewrite(o) \/ CreateOnError(o) \/ CreateFinalize(o)
    BY <1>0, <1>4, <1>r, <2>1 DEF CreateRewrite, CreateOnError, CreateFinalize, LinkFails, Fails,
          NoneFailed, Goto, TypeOK, diskVars
  <2>2. CASE ~(CreateRewrite(o) \/ CreateOnError(o) \/ CreateFinalize(o))
    BY <1>0, <2>2 DEF Advance, CreateInsert, RetryReset, RetryDropOld, Enqueue, TaskStart,
          CreateLastCheck, CreateMarkFailed,
          CreateDropStale, UpdateRead, UpdateRewrite, UpdateCommit, DeleteRow, QueueOld,
          ShareReadLinks, ShareInsert, TaskFinish, Goto, TypeOK
  <2> QED BY <2>1, <2>2
\* What the row of the op's page becomes.
<1>7. HasRow(r)' =>
        \/ pages'[r] = pages[r] /\ HasRow(r)
        \/ /\ pages'[r].state # "failed" /\ (HasRow(r) \/ CreateInsert(o))
           /\ \/ pages'[r].html = o /\ (req[o].kind = "update" \/ r = o)
              \/ pages'[r].html = pages[r].html /\ HasRow(r)
  <2>1. CASE CreateInsert(o)
    BY <1>0, <1>4, <1>r, <2>1 DEF CreateInsert, Fails, RequestInv, TypeOK
  <2>2. CASE CreateFinalize(o)
    BY <1>0, <1>r, <2>2, RowWrites DEF Writes, HasRow
  <2>3. CASE UpdateCommit(o)
    <3>1. req[o].kind = "update"
      BY <1>0, <2>3 DEF UpdateCommit, KindInv
    <3> QED BY <1>0, <1>r, <2>3, <3>1, RowWrites DEF Writes, HasRow
  <2>4. CASE CreateMarkFailed(o)
    BY <1>0, <1>r, <2>4 DEF CreateMarkFailed, NoneFailed, HasRow
  <2>5. CASE DeleteRow(o)
    BY <1>0, <1>4, <1>r, <2>5 DEF DeleteRow, Fails, TypeOK, NoRow, HasRow
  <2>6. CASE UNCHANGED pages
    BY <2>6 DEF HasRow
  <2>7. UNCHANGED pages \/ CreateInsert(o) \/ CreateFinalize(o) \/ UpdateCommit(o)
        \/ CreateMarkFailed(o) \/ DeleteRow(o)
    BY <1>1 DEF Advance, RetryReset, RetryDropOld, Enqueue, TaskStart, CreateRewrite,
          CreateLastCheck, CreateOnError, CreateDropStale, UpdateRead, UpdateRewrite,
          QueueOld, ShareReadLinks, ShareInsert, TaskFinish, diskVars
  <2> QED BY <2>1, <2>2, <2>3, <2>4, <2>5, <2>6, <2>7
<1>8. ASSUME NEW p \in Op, HasRow(p)'
      PROVE  /\ pages'[p].state # "failed"
             /\ pages'[p].html = p \/ req'[pages'[p].html].kind = "update"
  <2>0. HasRow(p) => /\ pages[p].state # "failed"
                     /\ pages[p].html = p \/ req[pages[p].html].kind = "update"
    BY <1>0 DEF NoneFailed, NoRetries
  <2>1. CASE pages'[p] = pages[p]
    BY <1>1, <1>8, <2>0, <2>1 DEF HasRow
  <2>2. CASE p = r /\ pages'[p] # pages[p]
    BY <1>1, <1>7, <1>8, <2>0, <2>2
  <2> QED BY <1>3, <2>1, <2>2
<1>9. ASSUME NEW q \in Op, pc'[q] \in {"onError", "markFailed"}
      PROVE  ~HasRow(req[q].page)'
  <2>1. CASE q = o
    BY <1>1, <1>6, <1>9, <1>r, <2>1 DEF HasRow
  <2>2. CASE q # o
    <3>1. PICK p \in Op : p = req[q].page
      BY <1>0, <1>1, <1>9, <2>2 DEF RequestInv
    <3>2. ~HasRow(p) /\ pc[q] \notin {"idle", "insert"}
      BY <1>0, <1>1, <1>9, <2>2, <3>1 DEF NoneFailed
    <3>3. CreateInsert(o) => p # r
      BY <1>0, <1>r, <2>2, <3>1, <3>2 DEF CreateInsert, UnusedInv, RequestInv
    <3>4. ~HasRow(p)'
      BY <1>3, <1>7, <3>2, <3>3 DEF HasRow
    <3> QED BY <1>1, <3>1, <3>4 DEF HasRow
  <2> QED BY <2>1, <2>2
<1> QED BY <1>1, <1>2, <1>5, <1>8, <1>9 DEF NoRetries, NoneFailed

\* The steps of ops that work on another page.
LEMMA LedElsewhere ==
  ASSUME IInv, FilesInv, OwnInv, NoRetries, NEW o \in Op, Advance(o),
         NEW p \in Op, p # req[o].page, HasRow(p)', pages'[p].html = p, AtRisk(p)',
         HasRow(p) /\ pages[p].html = p /\ AtRisk(p) => Led(p)
  PROVE  Led(p)'
<1>0. TypeOK /\ RequestInv
  BY DEF IInv
<1>1. /\ pages'[p] = pages[p] /\ latest'[p] = latest[p] /\ UNCHANGED req
      /\ \A q \in Op \ {o} : pc'[q] = pc[q] /\ seq'[q] = seq[q]
      /\ \A f \in Op \ {o} : files'[f] = files[f] \/ (pc[o] = "dropOld" /\ f = old[o])
  BY <1>0, AdvanceLocal, AdvanceFrame
<1>2. HasRow(p) /\ req[p].page = p
  BY <1>1 DEF HasRow, OwnInv
<1>3. files'[p] = files[p] /\ pc'[p] = pc[p]
  BY <1>1, <1>2 DEF NoRetries, NoneFailed
<1>4. Led(p)
  BY <1>1, <1>2, <1>3 DEF AtRisk
<1>5. \A q \in Op : req[q].page = p => pc'[q] = pc[q] /\ seq'[q] = seq[q]
  BY <1>1
<1>6. /\ \A q \in Op : Numbered(q)' /\ req'[q].page = p <=> Numbered(q) /\ req[q].page = p
      /\ \A q \in Op : Leads(q, p) => Leads(q, p)'
  BY <1>1, <1>3, <1>5 DEF Numbered, Leads
<1> QED BY <1>1, <1>3, <1>4, <1>5, <1>6 DEF Led

\* A page at risk still shows the file of its own create and was at risk before: a create
\* that has checked for the last time that it is the latest has its file.
LEMMA RiskBefore ==
  ASSUME IInv, FilesInv, OwnInv, NoRetries, NEW o \in Op, Advance(o), faults' = 0,
         NEW p \in Op, p = req[o].page, HasRow(p)', pages'[p].html = p, AtRisk(p)',
         ~CreateInsert(o)
  PROVE  /\ HasRow(p) /\ pages[p].html = p /\ pages'[p].hash = pages[p].hash
         /\ AtRisk(p) /\ (pc[o] = "written" => Stale(o))
         /\ pc[o] \in {"enqueue", "start", "read", "rewrite", "written", "dropStale", "queueOld",
                       "readLinks", "insertShare", "finish"}
<1>0. TypeOK /\ RequestInv /\ KindInv /\ NoneFailed
  BY DEF IInv, FilesInv, NoRetries
<1>1. /\ pc[o] \notin {"idle", "done", "reset", "dropOld"} /\ UNCHANGED req
      /\ \A q \in Op \ {o} : pc'[q] = pc[q]
      /\ \A f \in Op \ {o} : files'[f] = files[f]
  BY <1>0, AdvanceFrame, AdvanceLocal DEF NoneFailed
<1>2. req[o].kind = "create" => o = p
  BY <1>1 DEF NoRetries, InFlight
<1>3. faults' # faults + 1
  BY <1>0 DEF TypeOK
<1>4. HasRow(p)
  <2>1. OwnInv' => req[p].kind = "create"
    BY <1>1 DEF OwnInv, HasRow
  <2>2. \A h, s, c : Writes(p, h, s, c) => HasRow(p)
    BY DEF Writes
  <2>3. CASE RetryReset(o) \/ CreateFinalize(o) \/ CreateMarkFailed(o) \/ UpdateCommit(o)
    BY <1>0, <1>1, <2>2, <2>3, RowWrites DEF HasRow
  <2>4. CASE DeleteRow(o)
    BY <1>0, <1>3, <2>4 DEF DeleteRow, Fails, TypeOK, NoRow, HasRow
  <2>5. CASE UNCHANGED pages
    BY <1>1, <2>5 DEF HasRow
  <2> QED BY <2>3, <2>4, <2>5 DEF Advance, RetryDropOld, Enqueue, TaskStart, CreateRewrite,
          CreateLastCheck, CreateOnError, CreateDropStale, UpdateRead, UpdateRewrite,
          QueueOld, ShareReadLinks, ShareInsert, TaskFinish, diskVars
<1>5. req[p].kind = "create" /\ req[p].page = p
  BY <1>4 DEF OwnInv
<1>6. ~DeleteRow(o)
  BY <1>0, <1>1, <1>3 DEF DeleteRow, Fails, TypeOK, NoRow, HasRow
<1>7. ~UpdateCommit(o)
  <2> SUFFICES ASSUME UpdateCommit(o) PROVE FALSE
    OBVIOUS
  <2>1. o # p
    BY <1>0, <1>5 DEF UpdateCommit, KindInv
  <2>2. ~LinkFails(o) /\ faults' # faults + 1
    BY <1>3, <1>4 DEF LinkFails
  <2>3. pages' = [pages EXCEPT ![p] = [@ EXCEPT !.html = o, !.hash = req[o].content,
                                          !.state = "ready", !.links = req[o].content]]
    BY <1>4, <2>2 DEF UpdateCommit, Fails
  <2> DEFINE row == [pages[p] EXCEPT !.html = o, !.hash = req[o].content,
                                     !.state = "ready", !.links = req[o].content]
  <2>4. row.html = o
    BY <1>0 DEF TypeOK, Row
  <2>5. pages'[p] = row
    BY <1>0, <2>3 DEF TypeOK
  <2> QED BY <2>1, <2>4, <2>5
<1>8. ~CreateOnError(o) /\ ~CreateMarkFailed(o) /\ ~RetryReset(o) /\ ~RetryDropOld(o)
  BY <1>0, <1>4 DEF CreateOnError, CreateMarkFailed, RetryReset, RetryDropOld, NoneFailed
<1>9. pages[p].html = p /\ pages'[p].hash = pages[p].hash
  <2>1. CASE CreateFinalize(o)
    BY <1>0, <2>1, RowWrites DEF Writes
  <2>2. CASE UNCHANGED pages
    BY <2>2
  <2> QED BY <1>6, <1>7, <1>8, <2>1, <2>2 DEF Advance, Enqueue, TaskStart, CreateRewrite,
          CreateLastCheck, CreateDropStale, UpdateRead, UpdateRewrite,
          QueueOld, ShareReadLinks, ShareInsert, TaskFinish, diskVars
<1>10. pc[p] \in {"written", "finalize"} => files[p] = "rewritten"
  BY <1>4, <1>9 DEF FilesInv, WholeInv, WholeRow
<1>11. ~CreateFinalize(o)
  <2> SUFFICES ASSUME CreateFinalize(o) PROVE FALSE
    OBVIOUS
  <2>1. o = p /\ pc[p] = "finalize" /\ UNCHANGED files
    BY <1>0, <1>2 DEF CreateFinalize, KindInv
  <2>2. pc'[p] = "finish"
    BY <1>0, <1>3, <1>4, <2>1 DEF CreateFinalize, LinkFails, Fails, Goto, TypeOK
  <2> QED BY <1>10, <2>1, <2>2 DEF AtRisk
<1>12. pc[o] = "written" => Stale(o)
  <2> SUFFICES ASSUME pc[o] = "written", ~Stale(o) PROVE FALSE
    OBVIOUS
  <2>1. o = p /\ CreateLastCheck(o)
    BY <1>0, <1>2 DEF KindInv, Advance, CreateInsert, RetryReset, RetryDropOld, Enqueue,
          TaskStart, CreateRewrite, CreateFinalize, CreateOnError, CreateMarkFailed,
          CreateDropStale, UpdateRead, UpdateRewrite, UpdateCommit, DeleteRow, QueueOld,
          ShareReadLinks, ShareInsert, TaskFinish
  <2>2. pc'[p] = "finalize" /\ UNCHANGED files
    BY <1>0, <2>1 DEF CreateLastCheck, Goto, TypeOK, diskVars
  <2> QED BY <1>10, <2>1, <2>2 DEF AtRisk
<1>13. pc[o] \in {"enqueue", "start", "read", "rewrite", "written", "dropStale", "queueOld",
                  "readLinks", "insertShare", "finish"}
  BY <1>6, <1>7, <1>8, <1>11 DEF Advance, Enqueue, TaskStart, CreateRewrite,
     CreateLastCheck, CreateDropStale, UpdateRead, UpdateRewrite, QueueOld, ShareReadLinks,
     ShareInsert, TaskFinish
<1>14. AtRisk(p)
  <2>1. CASE o # p
    BY <1>1, <2>1 DEF AtRisk
  <2>2. CASE o = p
    <3>1. pc[p] \in {"enqueue", "start", "rewrite", "written", "dropStale", "finish"}
      BY <1>0, <1>5, <1>13, <2>2 DEF KindInv
    <3>2. CASE pc[p] = "finish"
      <4>1. TaskFinish(o)
        BY <2>2, <3>2 DEF Advance, CreateInsert, RetryReset, RetryDropOld, Enqueue,
          TaskStart, CreateRewrite, CreateLastCheck, CreateFinalize, CreateOnError,
          CreateMarkFailed, CreateDropStale, UpdateRead, UpdateRewrite, UpdateCommit,
          DeleteRow, QueueOld, ShareReadLinks, ShareInsert
      <4> QED BY <1>0, <2>2, <4>1 DEF TaskFinish, AtRisk, Goto, TypeOK, diskVars
    <3> QED BY <3>1, <3>2 DEF AtRisk
  <2> QED BY <2>1, <2>2
<1> QED BY <1>4, <1>9, <1>12, <1>13, <1>14

\* The create of a page and its updates are numbered one after the other; the latest
\* goes on, and only a task that is not the latest ends.
LEMMA LedHere ==
  ASSUME IInv, IInv', FilesInv, OwnInv, NoRetries, NEW o \in Op, Advance(o), faults' = 0,
         NEW p \in Op, p = req[o].page, HasRow(p)', pages'[p].html = p, AtRisk(p)',
         HasRow(p) /\ pages[p].html = p /\ AtRisk(p) => Led(p)
  PROVE  Led(p)'
<1>0. TypeOK /\ RequestInv /\ KindInv /\ UnusedInv /\ NoneFailed /\ TypeOK'
  BY DEF IInv, FilesInv, NoRetries
<1>1. /\ pc[o] \notin {"idle", "done"} /\ pc'[o] # "idle" /\ UNCHANGED req
      /\ \A q \in Op \ {o} : pc'[q] = pc[q] /\ seq'[q] = seq[q]
  BY <1>0, AdvanceFrame, AdvanceLocal
<1>2. req[o].kind = "create" => o = p
  BY <1>1 DEF NoRetries, InFlight
<1>3. faults' # faults + 1
  BY <1>0 DEF TypeOK
<1>t. /\ \A q \in Op : seq[q] \in Nat /\ seq'[q] \in Nat
      /\ latest[p] \in Nat
  BY <1>0 DEF TypeOK
<1>4. CASE CreateInsert(o)
  <2>1. /\ o = p /\ pc[p] = "insert" /\ pc'[p] = "enqueue" /\ latest'[p] = 0
    BY <1>0, <1>3, <1>4 DEF CreateInsert, Fails, RequestInv, OwnInv, Goto, TypeOK
  <2>2. \A q \in Op \ {p} : pc[q] # "idle" => req[q].page # p
    BY <1>0, <2>1 DEF UnusedInv
  <2>3. \A q \in Op : ~(Numbered(q)' /\ req'[q].page = p)
    BY <1>1, <2>1, <2>2 DEF Numbered
  <2>4. \A q \in Op : pc'[q] = "enqueue" /\ req'[q].page = p => req'[q].kind = "create"
    BY <1>0, <1>1, <2>1, <2>2 DEF KindInv
  <2> QED BY <2>1, <2>3, <2>4 DEF Led
<1>5. CASE ~CreateInsert(o)
  <2>1. /\ HasRow(p) /\ pages[p].html = p /\ pages'[p].hash = pages[p].hash /\ AtRisk(p)
        /\ pc[o] = "written" => Stale(o)
        /\ pc[o] \in {"enqueue", "start", "read", "rewrite", "written", "dropStale", "queueOld",
                      "readLinks", "insertShare", "finish"}
    BY <1>5, RiskBefore
  <2>2. Led(p)
    BY <2>1
  <2>3. req[p].kind = "create" /\ req[p].page = p
    BY <2>1 DEF OwnInv
  \* A step within a task, or of another request: nobody gets a number.
  <2>4. ASSUME /\ UNCHANGED <<seq, latest>>
               /\ pc'[o] # "enqueue" /\ (Numbered(o)' => Numbered(o))
               /\ Leads(o, p) => Leads(o, p)'
               /\ pc[o] # "enqueue"
        PROVE  Led(p)'
    <3>1. \A q \in Op : Numbered(q)' => Numbered(q)
      BY <1>1, <2>4 DEF Numbered
    <3>2. \A q \in Op : pc'[q] = "enqueue" => pc[q] = "enqueue"
      BY <1>1, <2>4
    <3>3. ASSUME NEW q \in Op, Leads(q, p) PROVE Leads(q, p)'
      BY <1>1, <2>1, <2>4, <3>3 DEF Leads, Numbered
    <3>4. pc[p] = "enqueue" /\ latest[p] = 0 => pc'[p] = "enqueue" /\ latest'[p] = 0
      BY <1>1, <2>4
    <3>5. /\ \A q \in Op : Numbered(q)' /\ req'[q].page = p =>
                            1 <= seq'[q] /\ seq'[q] <= latest'[p]
          /\ \A q, r \in Op : /\ Numbered(q)' /\ req'[q].page = p
                              /\ Numbered(r)' /\ req'[r].page = p /\ seq'[q] = seq'[r]
                              => q = r
      BY <1>1, <2>2, <2>4, <3>1 DEF Led
    <3>6. \A q \in Op : pc'[q] = "enqueue" /\ req'[q].page = p /\ req'[q].kind = "update" =>
                          req'[q].content # pages'[p].hash
      BY <1>1, <2>1, <2>2, <3>2 DEF Led
    <3>7. (pc'[p] = "enqueue" /\ latest'[p] = 0) \/ \E q \in Op : Leads(q, p)'
      BY <2>2, <3>3, <3>4 DEF Led
    <3> QED BY <3>5, <3>6, <3>7 DEF Led
  <2>5. CASE Enqueue(o)
    <3>1. /\ pc[o] = "enqueue" /\ pc'[o] = "start" /\ req[o].kind \in {"create", "update"}
          /\ latest'[p] = latest[p] + 1 /\ seq'[o] = latest[p] + 1
      BY <1>0, <2>5 DEF Enqueue, KindInv, Goto, TypeOK
    <3>2. Leads(o, p)'
      <4>1. req[o].kind = "update" => req[o].content # pages[p].hash
        BY <2>2, <3>1 DEF Led
      <4> QED BY <1>1, <1>2, <2>1, <3>1, <4>1 DEF Leads, Numbered
    <3>3. \A q \in Op : Numbered(q)' => Numbered(q) \/ q = o
      BY <1>1 DEF Numbered
    <3>4. \A q \in Op \ {o} : Numbered(q)' /\ req'[q].page = p =>
                                1 <= seq'[q] /\ seq'[q] <= latest[p]
      BY <1>1, <2>2, <3>3 DEF Led
    <3>5. \A q \in Op : Numbered(q)' /\ req'[q].page = p =>
                                1 <= seq'[q] /\ seq'[q] <= latest'[p]
      BY <1>t, <3>1, <3>4
    <3>6. ASSUME NEW q \in Op, NEW r \in Op, Numbered(q)', req'[q].page = p,
                 Numbered(r)', req'[r].page = p, seq'[q] = seq'[r]
          PROVE  q = r
      <4>1. CASE q # o /\ r # o
        BY <1>1, <2>2, <3>3, <3>6, <4>1 DEF Led
      <4>2. \A s \in Op \ {o} : Numbered(s)' /\ req'[s].page = p => seq'[s] # seq'[o]
        BY <1>t, <3>1, <3>4
      <4> QED BY <3>6, <4>1, <4>2
    <3>7. \A q \in Op : pc'[q] = "enqueue" /\ req'[q].page = p /\ req'[q].kind = "update" =>
                          req'[q].content # pages'[p].hash
      BY <1>1, <2>1, <2>2, <3>1 DEF Led
    <3> QED BY <3>2, <3>5, <3>6, <3>7 DEF Led
  <2>6. CASE TaskFinish(o)
    <3>1. /\ pc[o] = "finish" /\ pc'[o] = "done" /\ UNCHANGED seq
          /\ latest' = IF latest[p] = seq[o] THEN [latest EXCEPT ![p] = 0] ELSE latest
      BY <1>0, <2>6 DEF TaskFinish, ForgetTask, Goto, TypeOK
    <3>2. Numbered(o) /\ 1 <= seq[o]
      <4>1. Numbered(o)
        BY <3>1 DEF Numbered
      <4> QED BY <2>2, <4>1 DEF Led
    <3>3. latest[p] # seq[o]
      <4>1. CASE latest[p] = 0
        BY <1>t, <3>2, <4>1
      <4>2. ASSUME NEW q \in Op, Leads(q, p) PROVE latest[p] # seq[o]
        <5>1. q # o
          BY <3>1, <4>2 DEF Leads
        <5> QED BY <2>2, <3>2, <4>2, <5>1 DEF Led, Leads
      <4> QED BY <2>2, <4>1, <4>2 DEF Led
    <3>4. /\ UNCHANGED latest /\ ~Numbered(o)' /\ ~Leads(o, p)
      BY <3>1, <3>3 DEF Numbered, Leads
    <3> QED BY <2>4, <3>1, <3>4
  <2>7. CASE \/ TaskStart(o) \/ CreateRewrite(o) \/ CreateLastCheck(o) \/ CreateDropStale(o)
             \/ UpdateRead(o) \/ UpdateRewrite(o)
    <3>1. UNCHANGED <<seq, latest>> /\ Numbered(o) /\ pc[o] # "enqueue"
      BY <2>7 DEF TaskStart, CreateRewrite, CreateLastCheck, CreateDropStale, UpdateRead,
                  UpdateRewrite, Numbered, taskVars
    <3>2. pc'[o] # "enqueue"
      BY <1>0, <2>7 DEF TaskStart, CreateRewrite, CreateLastCheck, CreateDropStale, UpdateRead,
                  UpdateRewrite, Goto, TypeOK
    <3>3. ASSUME Leads(o, p) PROVE Leads(o, p)'
      <4>1. /\ ~Stale(o) /\ req[o].page = p /\ seq[o] = latest[p]
            /\ \/ o = p /\ pc[p] \in {"start", "rewrite", "written"}
               \/ /\ req[o].kind = "update" /\ pc[o] \in {"start", "read", "rewrite", "commit"}
                  /\ req[o].content # pages[p].hash
        BY <3>3 DEF Leads, Stale
      <4>2. CASE o = p
        <5>1. pc'[p] \in {"rewrite", "written"}
          BY <1>0, <1>3, <2>1, <2>3, <2>7, <4>1, <4>2
             DEF TaskStart, CreateRewrite, CreateLastCheck, CreateDropStale, UpdateRead,
                 UpdateRewrite, KindInv, Goto, Fails, TypeOK
        <5> QED BY <1>1, <3>1, <4>1, <4>2, <5>1 DEF Leads, Numbered
      <4>3. CASE o # p
        <5>1. pc'[o] \in {"read", "rewrite", "commit"}
          BY <1>0, <1>3, <2>1, <2>7, <4>1, <4>3
             DEF TaskStart, CreateRewrite, CreateLastCheck, CreateDropStale, UpdateRead,
                 UpdateRewrite, KindInv, Goto, Fails, TypeOK
        <5> QED BY <1>1, <2>1, <3>1, <4>1, <4>3, <5>1 DEF Leads, Numbered
      <4> QED BY <4>2, <4>3
    <3> QED BY <2>4, <3>1, <3>2, <3>3
  <2>8. CASE QueueOld(o) \/ ShareReadLinks(o) \/ ShareInsert(o)
    <3>1. /\ UNCHANGED <<seq, latest>> /\ pc[o] # "enqueue" /\ pc'[o] # "enqueue"
          /\ Numbered(o)' => Numbered(o)
      BY <1>0, <1>1, <2>8 DEF QueueOld, ShareReadLinks, ShareInsert, Numbered, Goto, TypeOK
    <3>2. ~Leads(o, p)
      BY <1>0, <2>3, <2>8 DEF QueueOld, ShareReadLinks, ShareInsert, Leads, KindInv
    <3> QED BY <2>4, <3>1, <3>2
  <2> QED BY <2>1, <2>5, <2>6, <2>7, <2>8 DEF Advance, CreateInsert, RetryReset, RetryDropOld,
        CreateFinalize, CreateOnError, CreateMarkFailed, UpdateCommit, DeleteRow
<1> QED BY <1>4, <1>5

-----------------------------------------------------------------------------
(* Requests that arrive, and the environment.                              *)

\* A request finds the row failed before it retries it, and its hash different before
\* it updates it.
LEMMA ArriveLoss ==
  ASSUME IInv, FilesInv, LossInv, NEW o \in Op, Arrive(o)
  PROVE  LossInv'
<1>0. TypeOK /\ RequestInv /\ KindInv /\ UnusedInv
  BY DEF IInv, FilesInv
<1>1. /\ pc[o] = "idle" /\ req[o].kind = Null
      /\ UNCHANGED <<pages, seq, latest, faults, crashes>>
      /\ \A q \in Op \ {o} : pc'[q] = pc[q] /\ req'[q] = req[q] /\ files'[q] = files[q]
  <2>1. pc[o] = "idle"
    BY DEF Arrive, CreateLookup, UpdateRequest, DeleteRead, ShareRead
  <2> QED BY <1>0, <2>1 DEF Arrive, CreateLookup, AnswerHit, SaveNew, UpdateRequest, DeleteRead,
                       ShareRead, Goto, Accept, TypeOK, KindInv, diskVars
<1> DEFINE Asked ==
      /\ pc'[o] \in {"insert", "reset", "done", "enqueue", "deleteRow", "readLinks"}
      /\ pc'[o] \in {"insert", "reset"} => files'[o] # "none" /\ req'[o].kind = "create"
      /\ pc'[o] = "insert" => req'[o].page = o
      /\ pc'[o] = "reset" => \E p \in Op :
           /\ p = req'[o].page /\ HasRow(p) /\ pages[p].state = "failed"
           /\ pages[p].url = req'[o].url /\ pages[p].hash = req'[o].content
      /\ pc'[o] = "enqueue" => req'[o].kind = "update"
                               /\ pages[req'[o].page].hash # req'[o].content
      /\ req'[o].kind = "create" => pc'[o] \in {"insert", "reset", "done"}
<1>2. Asked
  <2> USE DEF Goto, Accept, TypeOK
  <2>1. ASSUME NEW u \in Url, NEW c \in Content, CreateLookup(o, u, c) PROVE Asked
    <3>1. CASE AnswerHit(o, u, c)
      BY <1>0, <2>1, <3>1 DEF CreateLookup, AnswerHit
    <3>2. CASE SaveNew(o, u, c)
      <4>1. CASE pc'[o] = "insert"
        BY <1>0, <2>1, <3>2, <4>1 DEF CreateLookup, SaveNew
      <4>2. CASE pc'[o] # "insert"
        <5>1. PICK p \in HitsIn(u, c, "failed") : Accept(o, "create", u, c, p) /\ Goto(o, "reset")
          BY <1>0, <2>1, <3>2, <4>2 DEF CreateLookup, SaveNew
        <5>2. /\ p \in Op /\ HasRow(p) /\ pages[p].state = "failed"
              /\ pages[p].url = u /\ pages[p].hash = c
          BY <5>1 DEF HitsIn, Hits
        <5>3. /\ pc'[o] = "reset" /\ req'[o].page = p /\ req'[o].url = u /\ req'[o].content = c
              /\ req'[o].kind = "create"
          BY <1>0, <5>1
        <5>4. files'[o] # "none"
          BY <1>0, <3>2 DEF SaveNew
        <5> QED BY <5>2, <5>3, <5>4
      <4> QED BY <4>1, <4>2
    <3> QED BY <2>1, <3>1, <3>2 DEF CreateLookup
  <2>2. ASSUME NEW p \in Op, NEW c \in Content, UpdateRequest(o, p, c) PROVE Asked
    BY <1>0, <2>2 DEF UpdateRequest
  <2>3. ASSUME NEW p \in Op, DeleteRead(o, p) PROVE Asked
    BY <1>0, <2>3 DEF DeleteRead
  <2>4. ASSUME NEW p \in Op, ShareRead(o, p) PROVE Asked
    BY <1>0, <2>4 DEF ShareRead
  <2> QED BY <2>1, <2>2, <2>3, <2>4 DEF Arrive
<1> HIDE DEF Asked
<1>3. \A p \in Op : HasRow(p) => /\ p # o /\ pages[p].html \in Op /\ pages[p].html # o
                                 /\ req[p].kind = "create" /\ req[p].page = p
  BY <1>0, <1>1 DEF UnusedInv, IInv, RowInv, Fresh, LossInv, OwnInv
<1>4. OwnInv'
  BY <1>1, <1>2, <1>3 DEF Asked, LossInv, OwnInv, HasRow
<1>5. \A q \in Op : Numbered(q)' <=> Numbered(q)
  BY <1>1, <1>2 DEF Asked, Numbered
<1>6. ASSUME faults' <= 1, NEW p \in Op, HasRow(p)', NeverUpdated(p)'
      PROVE  Alone(p)'
  <2>1. HasRow(p) /\ NeverUpdated(p)
    BY <1>1, <1>6 DEF HasRow, NeverUpdated, LossInv, OwnInv
  <2>2. AloneTask(p) /\ AloneRetries(p)
    BY <1>1, <1>6, <2>1 DEF LossInv, AloneInv, Alone
  <2>3. AloneTask(p)'
    BY <1>1, <1>3, <1>5, <2>1, <2>2 DEF AloneTask
  <2>4. AloneRetries(p)'
    BY <1>1, <1>2, <1>3, <2>1, <2>2 DEF AloneRetries, Asked
  <2> QED BY <2>3, <2>4 DEF Alone
<1>7. ASSUME faults' = 0 PROVE NoRetries'
  <2>1. NoRetries
    BY <1>1, <1>7 DEF LossInv, LedInv
  <2>2. pc'[o] # "reset"
    BY <1>2, <2>1 DEF Asked, NoRetries, NoneFailed
  <2>3. NoneFailed'
    BY <1>1, <1>2, <2>1, <2>2 DEF Asked, NoRetries, NoneFailed, HasRow
  <2>4. \A q \in Op : (InFlight(q) /\ req[q].kind = "create")' => req'[q].page = q
    BY <1>1, <1>2, <2>1, <2>2 DEF Asked, NoRetries, InFlight
  <2>5. \A p \in Op : HasRow(p)' => pages'[p].html = p \/ req'[pages'[p].html].kind = "update"
    BY <1>1, <1>3, <2>1 DEF NoRetries, HasRow
  <2> QED BY <2>3, <2>4, <2>5 DEF NoRetries
<1>8. ASSUME faults' = 0, crashes' = 0, NEW p \in Op, HasRow(p)', pages'[p].html = p, AtRisk(p)'
      PROVE  Led(p)'
  <2>1. HasRow(p) /\ p # o
    BY <1>1, <1>3, <1>8 DEF HasRow
  <2>2. Led(p)
    BY <1>1, <1>8, <2>1 DEF LossInv, LedInv, AtRisk
  <2>3. ~Numbered(o)
    BY <1>1 DEF Numbered
  <2>4. \A q \in Op : Leads(q, p) => Leads(q, p)'
    BY <1>1, <1>5, <2>1, <2>3 DEF Leads
  <2>5. \A q \in Op : pc'[q] = "enqueue" /\ req'[q].page = p /\ req'[q].kind = "update" =>
                        req'[q].content # pages'[p].hash
    BY <1>1, <1>2, <2>2 DEF Asked, Led
  <2>6. /\ \A q \in Op : Numbered(q)' /\ req'[q].page = p => 1 <= seq'[q] /\ seq'[q] <= latest'[p]
        /\ \A q, r \in Op : /\ Numbered(q)' /\ req'[q].page = p
                            /\ Numbered(r)' /\ req'[r].page = p /\ seq'[q] = seq'[r]
                            => q = r
    BY <1>1, <1>5, <2>2, <2>3 DEF Led
  <2>7. (pc'[p] = "enqueue" /\ latest'[p] = 0) \/ \E q \in Op : Leads(q, p)'
    BY <1>1, <2>1, <2>2, <2>4 DEF Led
  <2> QED BY <2>5, <2>6, <2>7 DEF Led
<1> QED BY <1>4, <1>6, <1>7, <1>8 DEF LossInv, AloneInv, LedInv

\* The steps of a running op, on its own page and on the others.
LEMMA AdvanceLoss ==
  ASSUME IInv, IInv', FilesInv, LockInv, LossInv, NEW o \in Op, Advance(o)
  PROVE  LossInv'
<1>0. TypeOK /\ RequestInv /\ KindInv /\ UnusedInv /\ OwnInv
  BY DEF IInv, FilesInv, LossInv
<1>1. /\ pc[o] \notin {"idle", "done"} /\ pc'[o] # "idle" /\ UNCHANGED <<req, crashes>>
      /\ \A q \in Op \ {o} : pc'[q] = pc[q]
      /\ \A p \in Op : p # req[o].page => pages'[p] = pages[p]
  BY <1>0, AdvanceFrame, AdvanceLocal
<1>2. (faults' <= 1 => faults <= 1) /\ (faults' = 0 => faults = 0)
  <2>1. faults' = faults \/ faults' = faults + 1
    BY <1>0, AdvanceLocal
  <2> QED BY <1>0, <2>1 DEF TypeOK
<1>3. OwnInv'
  BY <1>0, AdvanceOwn
<1>4. ASSUME faults' <= 1, NEW p \in Op, HasRow(p)', NeverUpdated(p)'
      PROVE  Alone(p)'
  <2>1. NeverUpdated(p)
    BY <1>1, <1>4 DEF NeverUpdated
  <2>2. HasRow(p) => Alone(p)
    BY <1>2, <1>4, <2>1 DEF LossInv, AloneInv
  <2>3. CASE HasRow(p) /\ p = req[o].page
    BY <1>0, <1>4, <2>1, <2>2, <2>3, AloneHere
  <2>4. CASE p # req[o].page
    BY <1>0, <1>1, <1>4, <2>2, <2>4, AloneElsewhere DEF HasRow
  <2>5. CASE ~HasRow(p) /\ p = req[o].page
    <3>1. CreateInsert(o)
      <4>1. \A h, s, c : ~Writes(p, h, s, c)
        BY <2>5 DEF Writes
      <4>2. ~UNCHANGED pages
        BY <1>4, <2>5 DEF HasRow
      <4>3. ~RetryReset(o) /\ ~UpdateCommit(o) /\ ~CreateFinalize(o) /\ ~CreateMarkFailed(o)
        BY <1>0, <2>5, <4>1, <4>2, RowWrites
      <4>4. ~DeleteRow(o)
        BY <1>0, <1>4, <2>5, <4>2 DEF DeleteRow, TypeOK, NoRow, HasRow
      <4> QED BY <4>2, <4>3, <4>4 DEF Advance, RetryDropOld, Enqueue, TaskStart,
            CreateRewrite, CreateLastCheck, CreateOnError, CreateDropStale, UpdateRead,
            UpdateRewrite, QueueOld, ShareReadLinks, ShareInsert, TaskFinish, diskVars
    <3>2. /\ o = p /\ pc[p] = "insert" /\ pc'[p] = "enqueue" /\ UNCHANGED files
          /\ pages'[p].html = p /\ pages'[p].state = "pending"
      <4>1. o = p /\ pc[p] = "insert"
        BY <1>0, <2>5, <3>1 DEF CreateInsert, RequestInv
      <4> QED BY <1>0, <1>4, <2>5, <3>1, <4>1 DEF CreateInsert, TypeOK, Goto, HasRow
    <3>3. \A q \in Op \ {p} : req[q].page = p => pc'[q] = "idle"
      BY <1>0, <1>1, <3>2 DEF UnusedInv
    <3>4. AloneTask(p)'
      BY <1>0, <3>2 DEF OwnInv, AloneTask, Numbered
    <3>5. AloneRetries(p)'
      BY <1>1, <3>2, <3>3 DEF AloneRetries
    <3> QED BY <3>4, <3>5 DEF Alone
  <2> QED BY <2>3, <2>4, <2>5
<1>5. ASSUME faults' = 0 PROVE NoRetries'
  BY <1>0, <1>2, <1>5, AdvanceNoRetries DEF LossInv, LedInv
<1>6. ASSUME faults' = 0, crashes' = 0, NEW p \in Op, HasRow(p)', pages'[p].html = p, AtRisk(p)'
      PROVE  Led(p)'
  <2>1. NoRetries /\ (HasRow(p) /\ pages[p].html = p /\ AtRisk(p) => Led(p))
    BY <1>1, <1>2, <1>6 DEF LossInv, LedInv
  <2> QED BY <1>0, <1>6, <2>1, LedHere, LedElsewhere
<1> QED BY <1>3, <1>4, <1>5, <1>6 DEF LossInv, AloneInv, LedInv

\* At the start every row is ready and shows its own file, and no task is under way.
LEMMA InitLoss == Init => LossInv
<1> SUFFICES ASSUME Init PROVE LossInv
  OBVIOUS
<1>1. PICK u \in [Seeded -> Url], c \in [Seeded -> Content] :
        /\ pages = [p \in Op |->
                      IF p \in Seeded
                      THEN [state |-> "ready", url |-> u[p], hash |-> c[p],
                            html |-> p, links |-> c[p]]
                      ELSE NoRow]
        /\ req = [o \in Op |->
                    IF o \in Seeded
                    THEN [kind |-> "create", url |-> u[o], content |-> c[o],
                          page |-> o, begun |-> 0]
                    ELSE NoRequest]
  BY DEF Init
<1>2. /\ \A o \in Op : IF o \in Seeded THEN pc[o] = "done" /\ files[o] = "rewritten"
                                       ELSE pc[o] = "idle"
      /\ \A o \in Op : latest[o] = 0
  BY DEF Init
<1>3. \A p \in Op : IF p \in Seeded
                    THEN pages[p].state = "ready" /\ pages[p].html = p
                         /\ req[p].kind = "create" /\ req[p].page = p
                    ELSE ~HasRow(p) /\ req[p].page \notin Op
  <2>1. ASSUME NEW p \in Op, p \in Seeded
        PROVE  /\ pages[p].state = "ready" /\ pages[p].html = p
               /\ req[p].kind = "create" /\ req[p].page = p
    BY <1>1, <2>1
  <2>2. ASSUME NEW p \in Op, p \notin Seeded PROVE ~HasRow(p) /\ req[p].page \notin Op
    BY <1>1, <2>2, NullAssumption DEF NoRow, NoRequest, HasRow
  <2> QED BY <2>1, <2>2
<1>4. \A o \in Op : ~Numbered(o)
  BY <1>2 DEF Numbered
<1>5. OwnInv
  BY <1>2, <1>3 DEF OwnInv
<1>6. \A p \in Op : HasRow(p) => Alone(p)
  BY <1>2, <1>3, <1>4 DEF Alone, AloneTask, AloneRetries
<1>7. NoRetries
  BY <1>2, <1>3 DEF NoRetries, NoneFailed, InFlight, HasRow
<1>8. \A p \in Op : HasRow(p) => ~AtRisk(p)
  BY <1>2, <1>3 DEF AtRisk
<1> QED BY <1>5, <1>6, <1>7, <1>8 DEF LossInv, AloneInv, LedInv

\* The cleanup takes no file a row shows; a crash ends all tasks with their numbers.
LEMMA NextLoss ==
  IInv /\ IInv' /\ FilesInv /\ LockInv /\ LossInv /\ [Next]_vars => LossInv'
<1> SUFFICES ASSUME IInv, IInv', FilesInv, LockInv, LossInv, [Next]_vars PROVE LossInv'
  OBVIOUS
<1>1. ASSUME NEW o \in Op, Arrive(o)
      PROVE  LossInv'
  BY <1>1, ArriveLoss
<1>2. ASSUME NEW o \in Op, Advance(o)
      PROVE  LossInv'
  BY <1>2, AdvanceLoss
\* The steps that leave tasks and rows alone keep it as long as the files of rows stay.
<1>3. ASSUME UNCHANGED <<pc, req, seq, latest, pages, faults, crashes>>,
             \A f \in Op : files'[f] = files[f] \/ (~Fresh(f) /\ \A p \in Op : ~Shows(p, f))
      PROVE  LossInv'
  <2>1. \A p \in Op : HasRow(p) => /\ pages[p].html \in Op
                                   /\ files'[pages[p].html] = files[pages[p].html]
    BY <1>3 DEF IInv, RowInv, Shows
  <2>2. OwnInv'
    BY <1>3 DEF LossInv, OwnInv, HasRow, Fresh
  <2>3. AloneInv'
    <3>1. ASSUME NEW p \in Op, HasRow(p), Alone(p) PROVE Alone(p)'
      BY <1>3, <2>1, <3>1 DEF Alone, AloneTask, AloneRetries, Numbered
    <3>2. \A p \in Op : (HasRow(p)' <=> HasRow(p)) /\ (NeverUpdated(p)' <=> NeverUpdated(p))
      BY <1>3 DEF HasRow, NeverUpdated
    <3> QED BY <1>3, <3>1, <3>2 DEF LossInv, AloneInv
  <2>4. LedInv'
    <3>1. NoRetries => NoRetries'
      BY <1>3 DEF NoRetries, NoneFailed, InFlight, HasRow
    <3>2. ASSUME NEW p \in Op, Led(p) PROVE Led(p)'
      BY <1>3, <3>2 DEF Led, Leads, Numbered
    <3>3. ASSUME NEW p \in Op, HasRow(p)', pages'[p].html = p, AtRisk(p)'
          PROVE  HasRow(p) /\ pages[p].html = p /\ AtRisk(p)
      BY <1>3, <2>1, <3>3 DEF AtRisk, HasRow
    <3> QED BY <1>3, <3>1, <3>2, <3>3 DEF LossInv, LedInv
  <2> QED BY <2>2, <2>3, <2>4 DEF LossInv
<1>4. ASSUME NEW s \in Op, ShareEnd(s)
      PROVE  LossInv'
  BY <1>3, <1>4 DEF ShareEnd, taskVars
<1>5. ASSUME NEW rec \in queue, Cleanup(rec)
      PROVE  LossInv'
  <2>1. UNCHANGED <<pc, req, seq, latest, pages, faults, crashes>>
    BY <1>5 DEF Cleanup, taskVars
  <2>2. rec.path \in Op /\ ~Fresh(rec.path) /\ \A p \in Op : ~Shows(p, rec.path)
    BY <1>5 DEF IInv, QueueInv, TypeOK, Record
  <2>3. \A f \in Op : f # rec.path => files'[f] = files[f]
    BY <1>5, <2>2 DEF Cleanup, IInv, TypeOK
  <2>4. \A f \in Op : files'[f] = files[f] \/ (~Fresh(f) /\ \A p \in Op : ~Shows(p, f))
    BY <2>2, <2>3
  <2> QED BY <1>3, <2>1, <2>4
<1>6. CASE Tick \/ UNCHANGED vars
  BY <1>3, <1>6 DEF Tick, vars, taskVars, diskVars
<1>7. CASE Crash
  <2>1. /\ UNCHANGED <<req, seq, pages, files, faults>> /\ crashes' # 0
        /\ \A o \in Op : pc'[o] = IF pc[o] = "idle" THEN "idle" ELSE "done"
        /\ \A p \in Op : latest'[p] = 0
    BY <1>7 DEF Crash, IInv, TypeOK, InFlight, diskVars
  <2>2. \A o \in Op : ~Numbered(o)'
    BY <2>1 DEF Numbered
  <2>3. OwnInv'
    BY <2>1 DEF LossInv, OwnInv, HasRow
  <2>4. ASSUME faults' <= 1, NEW p \in Op, HasRow(p)', NeverUpdated(p)' PROVE Alone(p)'
    <3>1. HasRow(p) /\ NeverUpdated(p) /\ pages[p].html \in Op
      BY <2>1, <2>4 DEF HasRow, NeverUpdated, IInv, RowInv
    <3>2. pc'[p] = "done" /\ pc'[pages[p].html] = "done"
      BY <2>1, <3>1 DEF FilesInv, UnusedInv, IInv, RowInv, Fresh
    <3>3. AloneTask(p) /\ AloneRetries(p)
      BY <2>1, <2>4, <3>1 DEF LossInv, AloneInv, Alone
    <3>4. AloneTask(p)'
      BY <2>1, <2>2, <3>1, <3>2, <3>3 DEF AloneTask
    <3>5. AloneRetries(p)'
      BY <2>1 DEF AloneRetries
    <3> QED BY <3>4, <3>5 DEF Alone
  <2>5. ASSUME faults' = 0 PROVE NoRetries'
    BY <2>1, <2>5 DEF LossInv, LedInv, NoRetries, NoneFailed, InFlight, HasRow
  <2> QED BY <2>1, <2>3, <2>4, <2>5 DEF LossInv, AloneInv, LedInv
<1> QED BY <1>1, <1>2, <1>4, <1>5, <1>6, <1>7 DEF Next

\* No step of a running op takes pageCreateMu; an arriving request finds it free.
LEMMA NextLock == IInv /\ LockInv /\ [Next]_vars => LockInv'
<1> SUFFICES ASSUME TypeOK, LockInv, [Next]_vars PROVE LockInv'
  BY DEF IInv
<1>1. ASSUME NEW o \in Op, Arrive(o)
      PROVE  LockInv'
  <2> USE DEF TypeOK, Goto, Accept
  <2>1. ASSUME NEW u \in Url, NEW c \in Content, CreateLookup(o, u, c)
        PROVE  LockInv'
    <3>1. /\ PageLockFree(u, c) /\ req'[o].url = u /\ req'[o].content = c
          /\ \A q \in Op \ {o} : pc'[q] = pc[q] /\ req'[q] = req[q]
      BY <2>1 DEF CreateLookup, AnswerHit, SaveNew
    <3> QED BY <3>1 DEF LockInv, PageLockFree, HoldsPageLock
  <2>2. CASE \/ \E p \in Op, c \in Content : UpdateRequest(o, p, c)
             \/ \E p \in Op : DeleteRead(o, p)
             \/ \E p \in Op : ShareRead(o, p)
    <3>1. /\ ~HoldsPageLock(o)'
          /\ \A q \in Op \ {o} : pc'[q] = pc[q] /\ req'[q] = req[q]
      BY <2>2 DEF UpdateRequest, DeleteRead, ShareRead, HoldsPageLock
    <3> QED BY <3>1 DEF LockInv, HoldsPageLock
  <2> QED BY <1>1, <2>1, <2>2 DEF Arrive
<1>2. ASSUME NEW o \in Op, Advance(o)
      PROVE  LockInv'
  <2>1. UNCHANGED req /\ \A q \in Op \ {o} : pc'[q] = pc[q]
    BY <1>2, AdvanceFrame
  <2>2. HoldsPageLock(o)' => HoldsPageLock(o)
    BY <1>2 DEF Advance, CreateInsert, RetryReset, RetryDropOld, Enqueue, TaskStart,
       CreateRewrite, CreateLastCheck, CreateFinalize, CreateOnError, CreateMarkFailed,
       CreateDropStale, UpdateRead, UpdateRewrite, UpdateCommit, DeleteRow, QueueOld,
       ShareReadLinks, ShareInsert, TaskFinish, HoldsPageLock, Goto, TypeOK
  <2> QED BY <2>1, <2>2 DEF LockInv, HoldsPageLock
<1>3. CASE Crash
  BY <1>3 DEF Crash, LockInv, HoldsPageLock, InFlight
<1>4. CASE \/ \E s \in Op : ShareEnd(s)
           \/ \E rec \in queue : Cleanup(rec)
           \/ Tick \/ UNCHANGED vars
  <2>1. UNCHANGED <<pc, req>>
    BY <1>4 DEF ShareEnd, Cleanup, Tick, vars, taskVars
  <2> QED BY <2>1 DEF LockInv, HoldsPageLock
<1> QED BY <1>1, <1>2, <1>3, <1>4 DEF Next

\* As long as at most one call fails, no page loses its HTML: at rest its row names a file
\* on disk, whatever captures, retries, deletions, crashes and the cleanup interleave, and,
\* while nothing fails, whichever updates supersede its create task.
THEOREM PageNotLost == Spec => [](faults <= 1 => PageKeepsFile)
<1>1. IInv /\ FilesInv /\ LossInv => (faults <= 1 => PageKeepsFile)
  <2> SUFFICES ASSUME IInv, FilesInv, LossInv, faults <= 1, \A o \in Op : ~InFlight(o),
                      NEW p \in Op, HasRow(p), ~UpdateMayFail(p)
               PROVE  files[pages[p].html] # "none"
    BY DEF PageKeepsFile
  <2>1. CASE NeverUpdated(p)
    BY <2>1 DEF LossInv, AloneInv, Alone, AloneTask
  <2>2. CASE ~NeverUpdated(p)
    <3>1. faults = 0 /\ crashes = 0
      BY <2>2 DEF UpdateMayFail, NeverUpdated, IInv, TypeOK
    <3>2. pages[p].html = p \/ req[pages[p].html].kind = "update"
      BY <3>1 DEF LossInv, LedInv, NoRetries
    <3>3. CASE pages[p].html = p /\ files[p] = "none"
      <4>1. Led(p)
        BY <3>1, <3>3 DEF LossInv, LedInv, AtRisk
      <4>2. ASSUME NEW o \in Op PROVE pc[o] # "enqueue" /\ ~Leads(o, p)
        BY DEF InFlight, Leads
      <4> QED BY <4>1, <4>2 DEF Led
    <3>4. CASE req[pages[p].html].kind = "update"
      BY <3>4 DEF FilesInv, WholeInv, WholeRow
    <3> QED BY <3>2, <3>3, <3>4
  <2> QED BY <2>1, <2>2
<1>2. Init => LockInv
  BY DEF Init, LockInv, HoldsPageLock
<1> QED BY <1>1, <1>2, InitLoss, NextLoss, NextLock, Invariance, FilesInvariance, PTL DEF Spec
=============================================================================
