---------------------------- MODULE PageArchive ----------------------------
(***************************************************************************)
(* The life of an archived page on the server: the rows of the pages table,*)
(* the HTML files they point to, the background tasks that finalize or     *)
(* replace a snapshot, the queue of superseded files and the public shares *)
(* that pin one (storage/deduplicator.go, storage/concurrency_manager.go,  *)
(* storage/deletion_queue.go, api/pages_handler.go, api/share_handler.go,  *)
(* database/sqlite.go).                                                    *)
(*                                                                         *)
(* An element of Op is one HTTP request together with the background task  *)
(* it may start.  A request saves at most one HTML file and inserts at most*)
(* one row, so the op also names that file (SaveHTML hashes the URL with a *)
(* nanosecond timestamp) and that row (ids are AUTOINCREMENT, so never     *)
(* reused).  One action is one access to state that others can see.        *)
(***************************************************************************)
EXTENDS Naturals, FiniteSets

CONSTANTS
  Op,          \* requests, hence HTML paths, page ids and share ids
  Url,         \* page URLs
  Content,     \* captured documents up to hashCaptureContent
  Linked,      \* the contents that reference at least one resource
  Null,        \* no row, no path, no content
  Kinds,       \* the request kinds of this instance
  Seeded,      \* pages archived and ready before the behaviour starts
  Retention,   \* retention of a superseded file, in ticks
  MaxClock, MaxFaults, MaxCrashes   \* bounds on time, failures, restarts

Kind == {"create", "update", "delete", "share"}

ASSUME NullAssumption == Null \notin Op \union Url \union Content
ASSUME SetsAssumption == /\ Linked \subseteq Content
                         /\ Seeded \subseteq Op
                         /\ Kinds \subseteq Kind
ASSUME BoundsAssumption ==
  /\ MaxClock \in Nat /\ MaxFaults \in Nat /\ MaxCrashes \in Nat
  \* a request or task spans at most one tick: see Tick
  /\ Retention \in Nat /\ Retention >= 2

VARIABLES
  pc,       \* where each op is; between two labels lies one shared access
  req,      \* what the op was asked and the page it works on
  old,      \* the html_path it read, to queue or to share later
  rlinks,   \* the resource links a share request read
  seq,      \* the sequence number NextPageTask gave its task
  latest,   \* ConcurrencyManager.pageTaskSeq; 0 is "no entry"
  pages,    \* the pages table with its page_resources links
  files,    \* the HTML files on disk
  queue,    \* deletion_queue.jsonl
  shares,   \* the page_shares table with its page_share_resources
  clock, faults, crashes

taskVars == <<pc, req, old, rlinks, seq, latest>>
diskVars == <<pages, files, queue, shares>>
vars == <<pc, req, old, rlinks, seq, latest, pages, files, queue, shares,
          clock, faults, crashes>>

Label == {"idle", "insert", "reset", "dropOld", "enqueue", "start", "read",
          "rewrite", "written", "finalize", "onError", "markFailed",
          "dropStale", "commit", "deleteRow", "queueOld", "readLinks",
          "insertShare", "finish", "done"}

Request == [kind: Kind \union {Null}, url: Url \union {Null},
            content: Content \union {Null}, page: Op \union {Null}, begun: Nat]
Row == [state: {"absent", "pending", "ready", "failed"}, url: Url \union {Null},
        hash: Content \union {Null}, html: Op \union {Null},
        links: Content \union {Null}]
Share == [page: Op \union {Null}, html: Op \union {Null},
          links: Content \union {Null}, active: BOOLEAN]
Record == [path: Op, at: Nat]

NoRequest == [kind |-> Null, url |-> Null, content |-> Null, page |-> Null,
              begun |-> 0]
NoRow == [state |-> "absent", url |-> Null, hash |-> Null, html |-> Null,
          links |-> Null]
NoShare == [page |-> Null, html |-> Null, links |-> Null, active |-> FALSE]

TypeOK ==
  /\ pc \in [Op -> Label]
  /\ req \in [Op -> Request]
  /\ old \in [Op -> Op \union {Null}]
  /\ rlinks \in [Op -> Content \union {Null}]
  /\ seq \in [Op -> Nat]
  /\ latest \in [Op -> Nat]
  /\ pages \in [Op -> Row]
  /\ files \in [Op -> {"none", "raw", "rewritten"}]
  /\ queue \subseteq Record
  /\ shares \in [Op -> Share]
  /\ clock \in Nat /\ faults \in Nat /\ crashes \in Nat

-----------------------------------------------------------------------------
(* State predicates and small steps shared by the handlers.                *)

HasRow(p) == pages[p].state # "absent"
InFlight(o) == pc[o] \notin {"idle", "done"}
Goto(o, label) == pc' = [pc EXCEPT ![o] = label]

\* A disk or database call may fail (SQLITE_BUSY, disk full), MaxFaults times.
Succeeds == UNCHANGED faults
Fails == faults < MaxFaults /\ faults' = faults + 1

\* preparePageCreate runs under pageCreateMu, keyed by URL and content hash.
HoldsPageLock(o) == pc[o] \in {"insert", "reset", "dropOld"}
\* Mutant: pageCreateMu is not taken.
PageLockFreeNoLock(u, c) == TRUE

PageLockFree(u, c) ==
  \A o \in Op : HoldsPageLock(o) => <<req[o].url, req[o].content>> # <<u, c>>

\* staleCheck: the task is not the last one enqueued for its page.
Stale(o) == latest[req[o].page] # seq[o]

\* Mutant: the cleanup protects no path.
ProtectedNever(path) == FALSE

\* HasActiveShareForHTMLPath
Protected(path) == \E s \in Op : shares[s].active /\ shares[s].html = path

Accept(o, kind, u, c, p) ==
  req' = [req EXCEPT ![o] = [kind |-> kind, url |-> u, content |-> c,
                             page |-> p, begun |-> clock]]

-----------------------------------------------------------------------------
(* POST /api/archive: processCaptureAsync up to its response.              *)

\* GetPageByURLAndHash, which also finds pending and failed pages.
Hits(u, c) == {p \in Op : HasRow(p) /\ pages[p].url = u /\ pages[p].hash = c}
HitsIn(u, c, state) == {p \in Hits(u, c) : pages[p].state = state}

\* A ready or pending hit only moves last_visited and is answered at once.
AnswerHit(o, u, c) ==
  /\ \E p \in Op :
       /\ \/ p \in HitsIn(u, c, "ready")
          \/ HitsIn(u, c, "ready") = {} /\ p \in HitsIn(u, c, "pending")
       /\ Accept(o, "create", u, c, p)
  /\ Goto(o, "done")
  /\ UNCHANGED files

\* Otherwise SaveHTML writes the captured HTML, for a new row or for a retry
\* of a failed one.
SaveNew(o, u, c) ==
  /\ HitsIn(u, c, "ready") = {} /\ HitsIn(u, c, "pending") = {}
  /\ \/ Hits(u, c) = {} /\ Accept(o, "create", u, c, o) /\ Goto(o, "insert")
     \/ \E p \in HitsIn(u, c, "failed") :
          Accept(o, "create", u, c, p) /\ Goto(o, "reset")
  /\ files' = [files EXCEPT ![o] = "raw"]

\* pageCreateMu is taken, GetPageByURLAndHash looks for the page.
CreateLookup(o, u, c) ==
  /\ "create" \in Kinds /\ pc[o] = "idle"
  /\ PageLockFree(u, c)
  /\ AnswerHit(o, u, c) \/ SaveNew(o, u, c)
  /\ UNCHANGED <<rlinks, old, seq, latest, pages, queue, shares, clock, faults, crashes>>

\* CreatePage, or its failure, which deletes the saved HTML.
CreateInsert(o) ==
  /\ pc[o] = "insert"
  /\ \/ /\ Succeeds
        /\ pages' = [pages EXCEPT ![o] =
                       [state |-> "pending", url |-> req[o].url,
                        hash |-> req[o].content, html |-> o, links |-> Null]]
        /\ Goto(o, "enqueue")
        /\ UNCHANGED files
     \/ /\ Fails
        /\ files' = [files EXCEPT ![o] = "none"]
        /\ Goto(o, "done")
        /\ UNCHANGED pages
  /\ UNCHANGED <<req, old, rlinks, seq, latest, queue, shares, clock, crashes>>

\* ResetPageForCreateRetry points the row at the new file and returns the path
\* it replaces, content_hash untouched; it fails if the row has gone.
RetryReset(o) ==
  LET p == req[o].page IN
  /\ pc[o] = "reset"
  /\ \/ /\ Succeeds /\ HasRow(p)
        /\ old' = [old EXCEPT ![o] = pages[p].html]
        /\ pages' = [pages EXCEPT ![p].html = o, ![p].state = "pending"]
        /\ Goto(o, "dropOld")
        /\ UNCHANGED files
     \/ /\ (HasRow(p) /\ Fails) \/ (~HasRow(p) /\ Succeeds)
        /\ files' = [files EXCEPT ![o] = "none"]
        /\ Goto(o, "done")
        /\ UNCHANGED <<old, pages>>
  /\ UNCHANGED <<req, rlinks, seq, latest, queue, shares, clock, crashes>>

\* The retried page's former HTML is removed at once, bypassing the queue.
RetryDropOld(o) ==
  /\ pc[o] = "dropOld"
  /\ files' = [files EXCEPT ![old[o]] = "none"]
  /\ Goto(o, "enqueue")
  /\ UNCHANGED <<req, old, rlinks, seq, latest, pages, queue, shares, clock, faults, crashes>>

-----------------------------------------------------------------------------
(* Background tasks.  Enqueue, TaskStart and TaskFinish are common to the  *)
(* create and the update task.                                             *)

\* Mutant: the task gets the number before the increment.
EnqueueOffByOne(o) ==
  LET p == req[o].page IN
  /\ pc[o] = "enqueue"
  /\ latest' = [latest EXCEPT ![p] = @ + 1]
  /\ seq' = [seq EXCEPT ![o] = latest[p]]
  /\ Goto(o, "start")
  /\ UNCHANGED <<rlinks, req, old, diskVars, clock, faults, crashes>>

\* NextPageTask, after which RunPageTask starts the goroutine.
Enqueue(o) ==
  LET p == req[o].page IN
  /\ pc[o] = "enqueue"
  /\ latest' = [latest EXCEPT ![p] = @ + 1]
  /\ seq' = [seq EXCEPT ![o] = latest[p] + 1]
  /\ Goto(o, "start")
  /\ UNCHANGED <<rlinks, req, old, diskVars, clock, faults, crashes>>

\* The staleCheck both tasks open with.
TaskStart(o) ==
  /\ pc[o] = "start"
  /\ Goto(o, CASE req[o].kind = "create" -> IF Stale(o) THEN "dropStale" ELSE "rewrite"
               [] OTHER                  -> IF Stale(o) THEN "finish" ELSE "read")
  /\ UNCHANGED <<req, old, rlinks, seq, latest, diskVars, clock, faults, crashes>>

\* finalizeCreateCapture: the resources are processed, then a second staleCheck.
\* UpdateHTML then writes the file, whether or not it still exists.
CreateRewrite(o) ==
  /\ pc[o] = "rewrite" /\ req[o].kind = "create"
  /\ \/ Stale(o) /\ Succeeds /\ Goto(o, "dropStale") /\ UNCHANGED files
     \/ /\ ~Stale(o) /\ Succeeds
        /\ files' = [files EXCEPT ![o] = "rewritten"]
        /\ Goto(o, "written")
     \/ ~Stale(o) /\ Fails /\ Goto(o, "onError") /\ UNCHANGED files
  /\ UNCHANGED <<req, old, rlinks, seq, latest, pages, queue, shares, clock, crashes>>

\* The third staleCheck.
CreateLastCheck(o) ==
  /\ pc[o] = "written"
  /\ Goto(o, IF Stale(o) THEN "dropStale" ELSE "finalize")
  /\ UNCHANGED <<req, old, rlinks, seq, latest, diskVars, clock, faults, crashes>>

\* A link to a row that has gone violates the foreign key of page_resources.
LinkFails(o) == ~HasRow(req[o].page) /\ req[o].content \in Linked

\* FinalizePageCreate: the state and the links, and neither html_path nor hash.
CreateFinalize(o) ==
  LET p == req[o].page IN
  /\ pc[o] = "finalize"
  /\ \/ /\ ~LinkFails(o) /\ Succeeds
        /\ pages' = IF HasRow(p)
                    THEN [pages EXCEPT ![p].state = "ready", ![p].links = req[o].content]
                    ELSE pages
        /\ Goto(o, "finish")
     \/ /\ (LinkFails(o) /\ Succeeds) \/ Fails
        /\ Goto(o, "onError")
        /\ UNCHANGED pages
  /\ UNCHANGED <<req, old, rlinks, seq, latest, files, queue, shares, clock, crashes>>

\* onError asks isLatestPageTask first and marks the page in a later call.
CreateOnError(o) ==
  /\ pc[o] = "onError"
  /\ Goto(o, IF Stale(o) THEN "finish" ELSE "markFailed")
  /\ UNCHANGED <<req, old, rlinks, seq, latest, diskVars, clock, faults, crashes>>

\* Mutant: a failed task cleans up like a stale one.
CreateMarkFailedDrops(o) ==
  LET p == req[o].page IN
  /\ pc[o] = "markFailed"
  /\ \/ /\ Succeeds
        /\ pages' = IF HasRow(p) THEN [pages EXCEPT ![p].state = "failed"] ELSE pages
     \/ Fails /\ UNCHANGED pages
  /\ files' = [files EXCEPT ![o] = "none"]
  /\ Goto(o, "finish")
  /\ UNCHANGED <<req, old, rlinks, seq, latest, queue, shares, clock, crashes>>

CreateMarkFailed(o) ==
  LET p == req[o].page IN
  /\ pc[o] = "markFailed"
  /\ \/ /\ Succeeds
        /\ pages' = IF HasRow(p) THEN [pages EXCEPT ![p].state = "failed"] ELSE pages
     \/ Fails /\ UNCHANGED pages
  /\ Goto(o, "finish")
  /\ UNCHANGED <<req, old, rlinks, seq, latest, files, queue, shares, clock, crashes>>

\* A stale create task deletes its HTML.
CreateDropStale(o) ==
  /\ pc[o] = "dropStale"
  /\ files' = [files EXCEPT ![o] = "none"]
  /\ Goto(o, "finish")
  /\ UNCHANGED <<req, old, rlinks, seq, latest, pages, queue, shares, clock, faults, crashes>>

\* The deferred finishPageTask forgets the page once its last task is over.
ForgetTask(o) ==
  LET p == req[o].page IN
  latest' = IF latest[p] = seq[o] THEN [latest EXCEPT ![p] = 0] ELSE latest

TaskFinish(o) ==
  /\ pc[o] = "finish"
  /\ ForgetTask(o)
  /\ Goto(o, "done")
  /\ UNCHANGED <<req, old, rlinks, seq, diskVars, clock, faults, crashes>>

-----------------------------------------------------------------------------
(* PUT /api/archive/:id: updateCaptureAsync and its task, updateCapture.   *)

\* getPageForUpdate wants the page and its URL; the same hash is "unchanged".
UpdateRequest(o, p, c) ==
  /\ "update" \in Kinds /\ pc[o] = "idle"
  /\ HasRow(p)
  /\ Accept(o, "update", pages[p].url, c, p)
  /\ Goto(o, IF pages[p].hash = c THEN "done" ELSE "enqueue")
  /\ UNCHANGED <<rlinks, old, seq, latest, diskVars, clock, faults, crashes>>

\* The task reads the page again; the path it reads is the one it will queue.
\* SaveHTML then writes a file nothing refers to yet.
UpdateRead(o) ==
  LET p == req[o].page IN
  /\ pc[o] = "read"
  /\ \/ /\ HasRow(p) /\ pages[p].hash # req[o].content /\ Succeeds
        /\ old' = [old EXCEPT ![o] = pages[p].html]
        /\ files' = [files EXCEPT ![o] = "raw"]
        /\ Goto(o, "rewrite")
     \/ /\ ((~HasRow(p) \/ pages[p].hash = req[o].content) /\ Succeeds) \/ Fails
        /\ Goto(o, "finish")
        /\ UNCHANGED <<old, files>>
  /\ UNCHANGED <<req, rlinks, seq, latest, pages, queue, shares, clock, crashes>>

\* Mutant: an early return deletes the HTML the page still shows.
UpdateRewriteDropsOld(o) ==
  /\ pc[o] = "rewrite" /\ req[o].kind = "update"
  /\ \/ /\ ~Stale(o) /\ Succeeds
        /\ files' = [files EXCEPT ![o] = "rewritten"]
        /\ Goto(o, "commit")
     \/ /\ (Stale(o) /\ Succeeds) \/ (~Stale(o) /\ Fails)
        /\ files' = [files EXCEPT ![old[o]] = "none"]
        /\ Goto(o, "finish")
  /\ UNCHANGED <<req, old, rlinks, seq, latest, pages, queue, shares, clock, crashes>>

\* Resources, the second and last staleCheck, then UpdateHTML; every early
\* return deletes the temporary HTML.
UpdateRewrite(o) ==
  /\ pc[o] = "rewrite" /\ req[o].kind = "update"
  /\ \/ /\ ~Stale(o) /\ Succeeds
        /\ files' = [files EXCEPT ![o] = "rewritten"]
        /\ Goto(o, "commit")
     \/ /\ (Stale(o) /\ Succeeds) \/ (~Stale(o) /\ Fails)
        /\ files' = [files EXCEPT ![o] = "none"]
        /\ Goto(o, "finish")
  /\ UNCHANGED <<req, old, rlinks, seq, latest, pages, queue, shares, clock, crashes>>

\* Mutant: the transaction swaps the page row and leaves its links alone.
UpdateCommitKeepsLinks(o) ==
  LET p == req[o].page IN
  /\ pc[o] = "commit"
  /\ \/ /\ ~LinkFails(o) /\ Succeeds
        /\ pages' = IF HasRow(p)
                    THEN [pages EXCEPT ![p] = [@ EXCEPT !.html = o, !.hash = req[o].content,
                                                        !.state = "ready"]]
                    ELSE pages
        /\ Goto(o, "queueOld")
        /\ UNCHANGED files
     \/ /\ (LinkFails(o) /\ Succeeds) \/ Fails
        /\ files' = [files EXCEPT ![o] = "none"]
        /\ Goto(o, "finish")
  /\ UNCHANGED <<req, old, rlinks, seq, latest, queue, shares, clock, crashes>>

\* Mutant: the old HTML is queued whether or not the transaction went through.
UpdateCommitQueuesAlways(o) ==
  LET p == req[o].page IN
  /\ pc[o] = "commit"
  /\ \/ /\ ~LinkFails(o) /\ Succeeds
        /\ pages' = IF HasRow(p)
                    THEN [pages EXCEPT ![p] = [@ EXCEPT !.html = o, !.hash = req[o].content,
                                                !.state = "ready", !.links = req[o].content]]
                    ELSE pages
        /\ UNCHANGED files
     \/ /\ (LinkFails(o) /\ Succeeds) \/ Fails
        /\ files' = [files EXCEPT ![o] = "none"]
        /\ UNCHANGED pages
  /\ Goto(o, "queueOld")
  /\ UNCHANGED <<req, old, rlinks, seq, latest, queue, shares, clock, crashes>>

\* ReplacePageSnapshot: an UPDATE of no row is no error.
UpdateCommit(o) ==
  LET p == req[o].page IN
  /\ pc[o] = "commit"
  /\ \/ /\ ~LinkFails(o) /\ Succeeds
        /\ pages' = IF HasRow(p)
                    THEN [pages EXCEPT ![p] = [@ EXCEPT !.html = o, !.hash = req[o].content,
                                                !.state = "ready", !.links = req[o].content]]
                    ELSE pages
        /\ Goto(o, "queueOld")
        /\ UNCHANGED files
     \/ /\ (LinkFails(o) /\ Succeeds) \/ Fails
        /\ files' = [files EXCEPT ![o] = "none"]
        /\ Goto(o, "finish")
        /\ UNCHANGED pages
  /\ UNCHANGED <<req, old, rlinks, seq, latest, queue, shares, clock, crashes>>

-----------------------------------------------------------------------------
(* DELETE /api/pages/:id.                                                  *)

DeleteRead(o, p) ==
  /\ "delete" \in Kinds /\ pc[o] = "idle"
  /\ HasRow(p)
  /\ Accept(o, "delete", pages[p].url, Null, p)
  /\ old' = [old EXCEPT ![o] = pages[p].html]
  /\ Goto(o, "deleteRow")
  /\ UNCHANGED <<rlinks, seq, latest, diskVars, clock, faults, crashes>>

\* DeletePage; the foreign keys cascade to the page's shares.
DeleteRow(o) ==
  LET p == req[o].page IN
  /\ pc[o] = "deleteRow"
  /\ \/ /\ Succeeds
        /\ pages' = [pages EXCEPT ![p] = NoRow]
        /\ shares' = [s \in Op |-> IF shares[s].page = p THEN NoShare ELSE shares[s]]
        /\ Goto(o, "queueOld")
     \/ Fails /\ Goto(o, "done") /\ UNCHANGED <<pages, shares>>
  /\ UNCHANGED <<req, old, rlinks, seq, latest, files, queue, clock, crashes>>

\* Mutant: the path to queue is looked up again, after the commit.
QueueOldReread(o) ==
  LET p == req[o].page
      path == IF HasRow(p) THEN pages[p].html ELSE old[o] IN
  /\ pc[o] = "queueOld"
  /\ \/ Succeeds /\ queue' = queue \union {[path |-> path, at |-> clock]}
     \/ Fails /\ UNCHANGED queue
  /\ Goto(o, IF req[o].kind = "update" THEN "finish" ELSE "done")
  /\ UNCHANGED <<req, old, rlinks, seq, latest, pages, files, shares, clock, crashes>>

\* Mutant: only updates queue the HTML they supersede.
QueueOldUpdateOnly(o) ==
  /\ pc[o] = "queueOld"
  /\ \/ /\ req[o].kind = "update" /\ Succeeds
        /\ queue' = queue \union {[path |-> old[o], at |-> clock]}
     \/ /\ (req[o].kind = "delete" /\ Succeeds) \/ Fails
        /\ UNCHANGED queue
  /\ Goto(o, IF req[o].kind = "update" THEN "finish" ELSE "done")
  /\ UNCHANGED <<req, old, rlinks, seq, latest, pages, files, shares, clock, crashes>>

\* DeletionQueue.Add of the path read earlier, at the end of an update task or
\* of a delete request; an error is only logged.
QueueOld(o) ==
  /\ pc[o] = "queueOld"
  /\ \/ Succeeds /\ queue' = queue \union {[path |-> old[o], at |-> clock]}
     \/ Fails /\ UNCHANGED queue
  /\ Goto(o, IF req[o].kind = "update" THEN "finish" ELSE "done")
  /\ UNCHANGED <<req, old, rlinks, seq, latest, pages, files, shares, clock, crashes>>

-----------------------------------------------------------------------------
(* POST /api/pages/:id/shares, DELETE /api/shares/:id.                     *)

\* GetPageByID; the share will carry this html_path.
ShareRead(o, p) ==
  /\ "share" \in Kinds /\ pc[o] = "idle"
  /\ pages[p].state = "ready"
  /\ Accept(o, "share", pages[p].url, Null, p)
  /\ old' = [old EXCEPT ![o] = pages[p].html]
  /\ Goto(o, "readLinks")
  /\ UNCHANGED <<rlinks, seq, latest, diskVars, clock, faults, crashes>>

\* GetResourcesByPageID, a read of its own.
ShareReadLinks(o) ==
  /\ pc[o] = "readLinks"
  /\ rlinks' = [rlinks EXCEPT ![o] = pages[req[o].page].links]
  /\ Goto(o, "insertShare")
  /\ UNCHANGED <<req, old, seq, latest, diskVars, clock, faults, crashes>>

\* CreatePageShare; the page_id foreign key wants the row.
ShareInsert(o) ==
  LET p == req[o].page IN
  /\ pc[o] = "insertShare"
  /\ \/ /\ HasRow(p) /\ Succeeds
        /\ shares' = [shares EXCEPT ![o] = [page |-> p, html |-> old[o],
                                            links |-> rlinks[o], active |-> TRUE]]
     \/ ((~HasRow(p) /\ Succeeds) \/ Fails) /\ UNCHANGED shares
  /\ Goto(o, "done")
  /\ UNCHANGED <<req, old, rlinks, seq, latest, pages, files, queue, clock, crashes>>

\* RevokePageShare, or expires_at passes.
ShareEnd(s) ==
  /\ shares[s].active
  /\ shares' = [shares EXCEPT ![s].active = FALSE]
  /\ UNCHANGED <<taskVars, pages, files, queue, clock, faults, crashes>>

-----------------------------------------------------------------------------
(* CleanupOldHTML, time and restarts.                                      *)

\* One expired record of the queue that no active share protects.
Cleanup(rec) ==
  /\ rec.at + Retention <= clock
  /\ ~Protected(rec.path)
  /\ files' = [files EXCEPT ![rec.path] = "none"]
  /\ queue' = queue \ {rec}
  /\ UNCHANGED <<taskVars, pages, shares, clock, faults, crashes>>

\* A tick is half the retention (7 days), and no request or task outlives one:
\* its downloads have timeouts and bounded retries.
Tick ==
  /\ clock < MaxClock
  /\ \A o \in Op : InFlight(o) => req[o].begun = clock
  /\ clock' = clock + 1
  /\ UNCHANGED <<taskVars, diskVars, faults, crashes>>

\* The process dies, or the 30 s of a graceful shutdown run out, and restarts:
\* requests, tasks and the sequence map are lost, nothing resumes them.
Crash ==
  /\ crashes < MaxCrashes
  /\ crashes' = crashes + 1
  /\ pc' = [o \in Op |-> IF InFlight(o) THEN "done" ELSE pc[o]]
  /\ latest' = [p \in Op |-> 0]
  /\ UNCHANGED <<req, old, rlinks, seq, diskVars, clock, faults>>

-----------------------------------------------------------------------------
Init ==
  /\ \E u \in [Seeded -> Url], c \in [Seeded -> Content] :
       /\ pages = [p \in Op |->
                     IF p \in Seeded
                     THEN [state |-> "ready", url |-> u[p], hash |-> c[p],
                           html |-> p, links |-> c[p]]
                     ELSE NoRow]
       /\ req = [o \in Op |->
                   IF o \in Seeded
                   THEN [kind |-> "create", url |-> u[o], content |-> c[o],
                         page |-> o, begun |-> 0]
                   ELSE NoRequest]
  /\ pc = [o \in Op |-> IF o \in Seeded THEN "done" ELSE "idle"]
  /\ old = [o \in Op |-> Null]
  /\ rlinks = [o \in Op |-> Null]
  /\ seq = [o \in Op |-> 0]
  /\ latest = [p \in Op |-> 0]
  /\ files = [o \in Op |-> IF o \in Seeded THEN "rewritten" ELSE "none"]
  /\ queue = {}
  /\ shares = [s \in Op |-> NoShare]
  /\ clock = 0 /\ faults = 0 /\ crashes = 0

\* What clients send.  A request whose first calls fail is answered with an
\* error and has changed nothing: it is an op that stays idle.
Arrive(o) ==
  \/ \E u \in Url, c \in Content : CreateLookup(o, u, c)
  \/ \E p \in Op, c \in Content : UpdateRequest(o, p, c)
  \/ \E p \in Op : DeleteRead(o, p)
  \/ \E p \in Op : ShareRead(o, p)

\* What the server then does on its own.
Advance(o) ==
  \/ CreateInsert(o)    \/ RetryReset(o)     \/ RetryDropOld(o)
  \/ Enqueue(o)         \/ TaskStart(o)      \/ CreateRewrite(o)
  \/ CreateLastCheck(o) \/ CreateFinalize(o) \/ CreateOnError(o)
  \/ CreateMarkFailed(o) \/ CreateDropStale(o)
  \/ UpdateRead(o)      \/ UpdateRewrite(o)  \/ UpdateCommit(o)
  \/ DeleteRow(o)       \/ QueueOld(o)
  \/ ShareReadLinks(o)  \/ ShareInsert(o)
  \/ TaskFinish(o)

Next ==
  \/ \E o \in Op : Arrive(o) \/ Advance(o)
  \/ \E s \in Op : ShareEnd(s)
  \/ \E rec \in queue : Cleanup(rec)
  \/ Tick
  \/ Crash

Spec == Init /\ [][Next]_vars

\* The scheduler runs every goroutine; clients, faults and crashes are free.
Fairness == \A o \in Op : WF_vars(Advance(o))
FairSpec == Spec /\ Fairness

-----------------------------------------------------------------------------
(* Safety.                                                                 *)

\* The cleanup of the deletion queue never takes the HTML a page still shows:
\* no queued path is the html_path of a row, whatever the updates, retries and
\* deletions that raced to queue it.
NoLiveQueued ==
  \A rec \in queue, p \in Op : HasRow(p) => pages[p].html # rec.path

\* A page reported ready can be viewed: its HTML exists and has been rewritten,
\* although stale tasks, retries and the cleanup delete files by path.
ReadyHasFile ==
  \A p \in Op : pages[p].state = "ready" => files[pages[p].html] = "rewritten"

\* An update of p was requested, and a call failed or the process died.
UpdateMayFail(p) ==
  /\ \E o \in Op : req[o].kind = "update" /\ req[o].page = p
  /\ faults > 0 \/ crashes > 0

\* A page does not lose its HTML: whatever becomes of the tasks that worked on
\* it, at rest the file its row names is on disk, ready or not.  (A create that
\* an update superseded deletes its HTML; if the update fails, nothing is left.)
PageKeepsFile ==
  (\A o \in Op : ~InFlight(o)) =>
    \A p \in Op : HasRow(p) /\ ~UpdateMayFail(p) => files[pages[p].html] # "none"

\* The file an active share pins outlives updates of its page and the cleanup.
SharedFileKept ==
  \A s \in Op : shares[s].active => files[shares[s].html] # "none"

\* A ready page is one capture: its hash, its HTML and its resource links all
\* come from the same document (ReplacePageSnapshot swaps them atomically).
SnapshotConsistent ==
  \A p \in Op : pages[p].state = "ready" =>
     /\ pages[p].hash = req[pages[p].html].content
     /\ pages[p].links = req[pages[p].html].content

\* Captures never give the same URL and content two rows (preparePageCreate
\* checks and inserts under pageCreateMu; there is no UNIQUE constraint).  An
\* update may give a page the content of another.
UniqueSnapshot ==
  \A p, q \in Op : /\ HasRow(p) /\ HasRow(q)
                   /\ pages[p].url = pages[q].url /\ pages[p].hash = pages[q].hash
                   /\ \A o \in Op : req[o].kind # "update"
                   => p = q

\* At rest every HTML file is shown by a row or waits in the deletion queue: as
\* long as no call failed and no update raced another or a deletion, no superseded
\* snapshot is left on disk for good.
NoOrphanAtRest ==
  /\ faults = 0 /\ crashes = 0 /\ \A o \in Op : ~InFlight(o)
  /\ \A o, r \in Op : req[o].kind = "update" /\ req[r].kind \in {"update", "delete"} => o = r
  => \A f \in Op : files[f] # "none" =>
       \/ \E p \in Op : HasRow(p) /\ pages[p].html = f
       \/ \E rec \in queue : rec.path = f

(* Liveness.                                                               *)

\* A page does not stay pending, unless the process dies or the update that
\* superseded its task fails: it is finalized, marked failed or deleted.
PendingResolved ==
  \A p \in Op :
    pages[p].state = "pending" ~>
      (pages[p].state # "pending" \/ crashes > 0 \/ UpdateMayFail(p))
=============================================================================
