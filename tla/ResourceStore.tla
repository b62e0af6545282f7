---------------------------- MODULE ResourceStore ----------------------------
(***************************************************************************)
(* The resources of archived pages: downloads serialized by URL, the cache *)
(* of validators, the content-addressed files shared by URLs, the rows of  *)
(* the resources table, and the offline scan that quarantines corrupted    *)
(* files (storage/resource_deduplicator.go, resource_downloader.go,        *)
(* filesystem.go, resource_integrity.go, deduplicator.go).                 *)
(*                                                                         *)
(* An element of Op is one call of processResource or of                   *)
(* processInlineResource.  It inserts at most one row, so the op also names*)
(* that row.  A content stands for its SHA-256, hence for its file; all    *)
(* resources have one type, so that the extension of the file is the same. *)
(***************************************************************************)
EXTENDS Naturals, FiniteSets, SequencesExt

CONSTANTS
  Op,        \* calls, hence resource ids
  Url,       \* resource URLs
  FrameUrl,  \* the ones of captured frames, whose HTML the client sends
  Content,   \* bodies
  Large,     \* the bodies above the stream threshold
  Null,      \* no row, no body, no validator
  Seeded,    \* resources archived before the behaviour starts
  Workers,   \* downloads at a time
  Retries,   \* of a download that failed in a way worth retrying
  MaxFaults, MaxCrashes, MaxChanges, MaxLate, MaxScans   \* bounds

ASSUME NullAssumption == Null \notin Op \union Url \union Content
ASSUME SetsAssumption ==
  /\ FrameUrl \subseteq Url /\ Large \subseteq Content
  /\ Seeded \subseteq Op /\ IsFiniteSet(Seeded)
\* A file is named here by its state or by the op that truncated it.
ASSUME FileAssumption == Op \intersect {"none", "full", "polluted"} = {}
ASSUME BoundsAssumption ==
  /\ Workers \in Nat \ {0} /\ Retries \in Nat
  /\ {MaxFaults, MaxCrashes, MaxChanges, MaxLate, MaxScans} \subseteq Nat

VARIABLES
  pc,       \* where each op is
  url,      \* what it was asked for
  body,     \* the content it downloaded or was given
  local,    \* its variables: the cache entry it loaded, the download attempts
            \* before this one, the validator and freshness of the response
  result,   \* the row it returned, Null for an error
  rows,     \* the resources table
  order,    \* the row ids by last_seen, the newest last
  files,    \* data/resources: an op stands for a file it was last to truncate
  tmp,      \* the ops whose download is in data/tmp
  cache,    \* ResourceCache
  origin,   \* what the origin serves
  scan,     \* QuarantineCorruptedResources
  cuts,     \* the contents a failed or interrupted write left cut short
  faults, crashes, changes, late, scans

opVars == <<pc, url, body, local, result>>
diskVars == <<rows, order, files, tmp>>
boundVars == <<faults, crashes, changes, late, scans>>
vars == <<opVars, diskVars, cache, origin, scan, cuts, boundVars>>

Label == {"idle", "acquire", "fetch", "revalidated", "fallback", "match",
          "byHash", "stat", "rename", "write", "writing", "insert", "done"}
Meta == [tag: Content \union {Null}, fresh: BOOLEAN]
Entry == [row: Op \union {Null}, tag: Content \union {Null}, fresh: BOOLEAN]
Local == [cached: Entry, attempt: 0..Retries, meta: Meta]
Row == [url: Url \union {Null}, hash: Content \union {Null},
        state: {"absent", "usable", "quarantined"}]

NoMeta == [tag |-> Null, fresh |-> FALSE]
NoEntry == [row |-> Null, tag |-> Null, fresh |-> FALSE]
NoLocal == [cached |-> NoEntry, attempt |-> 0, meta |-> NoMeta]
NoRow == [url |-> Null, hash |-> Null, state |-> "absent"]
NoScan == [at |-> "off", left |-> {}, file |-> Null]

\* A call holds a temporary file only on its way from the response to the row.
TypeOK ==
  /\ pc \in [Op -> Label]
  /\ url \in [Op -> Url \union {Null}]
  /\ body \in [Op -> Content \union {Null}]
  /\ local \in [Op -> Local]
  /\ cache \in [Url -> Entry]
  /\ result \in [Op -> Op \union {Null}]
  /\ rows \in [Op -> Row]
  /\ \A c \in Content : files[c] \in {"none", "full", "polluted"} \union Op
  /\ tmp \subseteq {o \in Op : pc[o] \notin {"idle", "acquire", "fetch", "done"}}
  /\ origin \in [Url -> Content]
  /\ scan.at \in {"off", "check", "remove"} /\ scan.left \subseteq Content
  /\ cuts \subseteq Content

-----------------------------------------------------------------------------
InFlight(o) == pc[o] \notin {"idle", "done"}
Quiet == \A o \in Op : ~InFlight(o)
Goto(o, label) == pc' = [pc EXCEPT ![o] = label]

\* A database or disk call may fail, MaxFaults times.
Succeeds == UNCHANGED faults
Fails == faults < MaxFaults /\ faults' = faults + 1

\* Mutant: no lock on the URL.
UrlFreeNoLock(u) == TRUE

\* LockResource: keyedMutex, see KeyedLock.
UrlFree(u) == \A o \in Op : InFlight(o) => url[o] # u

\* ensureReusableResource, and is_quarantined = 0 in the queries.
Usable(r) == r # Null /\ rows[r].state = "usable"

\* GetResourceByURL: the usable row of the URL seen last.
Newest(u) ==
  LET i == SelectLastInSeq(order, LAMBDA r : Usable(r) /\ rows[r].url = u)
  IN  IF i = 0 THEN Null ELSE order[i]

\* UpdateResourceLastSeen
Touch(r) == order' = Append(RemoveFirst(order, r), r)

Remember(u, row, m) ==
  cache' = [cache EXCEPT ![u] = [row |-> row, tag |-> m.tag, fresh |-> m.fresh]]

\* The deferred os.Remove of the temporary file.
DropTmp(o, row) == tmp' = tmp \ {o}

\* The call returns a row, or Null for an error; its locks are given back.
Return(o, row) ==
  /\ result' = [result EXCEPT ![o] = row]
  /\ local' = [local EXCEPT ![o] = NoLocal]
  /\ Goto(o, "done")
  /\ DropTmp(o, row)

-----------------------------------------------------------------------------
(* processResource: cache, download, fallback.                             *)

Load(o, e) ==
  /\ local' = [local EXCEPT ![o].cached = e]
  /\ Goto(o, "acquire")

\* LockResource and the lookup in the cache; a fresh entry whose row is usable
\* is the answer.  When the row cannot be read the entry is forgotten, but its
\* validators are still sent.
Begin(o, u) ==
  LET e == cache[u] IN
  /\ pc[o] = "idle" /\ scan.at = "off"
  /\ u \notin FrameUrl /\ UrlFree(u)
  /\ url' = [url EXCEPT ![o] = u]
  /\ \/ /\ e.fresh /\ Usable(e.row) /\ Succeeds
        /\ Return(o, e.row) /\ UNCHANGED cache
     \/ /\ e.fresh /\ Fails
        /\ cache' = [cache EXCEPT ![u] = NoEntry]
        /\ Load(o, e) /\ UNCHANGED <<result, tmp>>
     \/ /\ ~e.fresh /\ Succeeds
        /\ Load(o, e) /\ UNCHANGED <<cache, result, tmp>>
  /\ UNCHANGED <<body, rows, order, files, origin, scan, cuts,
                 crashes, changes, late, scans>>

\* Mutant: the permit is given back by a defer within the loop of attempts.
PermitsDeferred ==
  {p \in Op : pc[p] = "fetch" \/ (pc[p] = "acquire" /\ local[p].attempt > 0)}

\* The permits of downloadSem that are out.
Permits == {p \in Op : pc[p] = "fetch"}

\* AcquireDownload
Acquire(o) ==
  /\ pc[o] = "acquire"
  /\ Cardinality(Permits) < Workers
  /\ Goto(o, "fetch")
  /\ UNCHANGED <<url, body, local, result, diskVars, cache, origin,
                 scan, cuts, boundVars>>

\* A 200 carries a body and, as the origin likes, a validator and a freshness.
\* A large body goes to data/tmp.
Respond200(o) ==
  LET c == origin[url[o]] IN
  /\ body' = [body EXCEPT ![o] = c]
  /\ \E t \in {c, Null}, f \in BOOLEAN :
       local' = [local EXCEPT ![o].meta = [tag |-> t, fresh |-> f]]
  /\ tmp' = IF c \in Large THEN tmp \union {o} ELSE tmp
  /\ Goto(o, "match")

\* A 304 says that the validator is that of the current body.
Respond304(o) ==
  LET c == origin[url[o]] IN
  /\ local[o].cached.tag = c
  /\ body' = [body EXCEPT ![o] = c]
  /\ \E f \in BOOLEAN : local' = [local EXCEPT ![o].meta = [tag |-> c, fresh |-> f]]
  /\ Goto(o, "revalidated") /\ UNCHANGED tmp

\* A timeout, a 429 or a 5xx is tried again, the permit given back in between;
\* other errors are final.
RespondError(o) ==
  /\ \/ /\ local[o].attempt < Retries
        /\ local' = [local EXCEPT ![o].attempt = @ + 1]
        /\ Goto(o, "acquire")
     \/ Goto(o, "fallback") /\ UNCHANGED local
  /\ UNCHANGED <<body, tmp>>

\* Download, one attempt of it.
Fetch(o) ==
  /\ pc[o] = "fetch"
  /\ Respond200(o) \/ Respond304(o) \/ RespondError(o)
  /\ UNCHANGED <<url, result, rows, order, files, cache, origin, scan, cuts,
                 boundVars>>

\* After a 304 the cached row is the answer, and the entry is renewed.  The scan
\* runs with the server stopped, so no cached row is quarantined and the second,
\* unconditional download of the code never runs.
Revalidate(o) ==
  /\ pc[o] = "revalidated"
  /\ \/ Usable(local[o].cached.row) /\ Succeeds
        /\ Remember(url[o], local[o].cached.row, local[o].meta) /\ Return(o, local[o].cached.row)
     \/ Fails /\ Return(o, Null) /\ UNCHANGED cache
  /\ UNCHANGED <<url, body, rows, order, files, origin, scan,
                 cuts, crashes, changes, late, scans>>

\* processResourceFallback: the newest row of the very URL, if its file is there.
Previous(u) == {r \in {Newest(u)} : Usable(r) /\ files[rows[r].hash] # "none"}

Fallback(o) ==
  /\ pc[o] = "fallback"
  /\ \/ /\ Succeeds
        /\ \E r \in Previous(url[o]) :
             Touch(r) /\ Remember(url[o], r, NoMeta) /\ Return(o, r)
     \/ /\ (Previous(url[o]) = {} /\ Succeeds) \/ Fails
        /\ Return(o, Null) /\ UNCHANGED <<order, cache>>
  /\ UNCHANGED <<url, body, rows, files, origin, scan, cuts,
                 crashes, changes, late, scans>>

-----------------------------------------------------------------------------
(* processResource and processInlineResource: rows and files.              *)

\* Mutant: the newest row of the URL is reused whatever its content.
SameAnyContent(o) == {r \in {local[o].cached.row, Newest(url[o])} : Usable(r)}

\* The cached row, then the newest of the URL, if it has the content downloaded.
Same(o) == {r \in {local[o].cached.row, Newest(url[o])} :
              Usable(r) /\ rows[r].hash = body[o]}

Match(o) ==
  LET r == IF local[o].cached.row \in Same(o) THEN local[o].cached.row ELSE Newest(url[o]) IN
  /\ pc[o] = "match"
  /\ \/ /\ Same(o) # {} /\ Succeeds
        /\ Touch(r) /\ Remember(url[o], r, local[o].meta) /\ Return(o, r)
     \/ /\ Same(o) = {} /\ Succeeds
        /\ Goto(o, "byHash") /\ UNCHANGED <<local, result, tmp, order, cache>>
     \/ Fails /\ Return(o, Null) /\ UNCHANGED <<order, cache>>
  /\ UNCHANGED <<url, body, rows, files, origin, scan, cuts,
                 crashes, changes, late, scans>>

\* The HTML of a captured frame is stored without a look at its URL's rows.
BeginInline(o, u, c) ==
  /\ pc[o] = "idle" /\ scan.at = "off"
  /\ u \in FrameUrl /\ UrlFree(u)
  /\ url' = [url EXCEPT ![o] = u]
  /\ body' = [body EXCEPT ![o] = c]
  /\ Goto(o, "byHash")
  /\ UNCHANGED <<local, result, diskVars, cache, origin, scan, cuts,
                 boundVars>>

\* GetResourceByHash: another URL may have brought the file.
ByHash(o) ==
  /\ pc[o] = "byHash"
  /\ \/ /\ Succeeds /\ UNCHANGED <<local, result, tmp>>
        /\ Goto(o, IF \E r \in Op : Usable(r) /\ rows[r].hash = body[o]
                   THEN "insert" ELSE "stat")
     \/ Fails /\ Return(o, Null)
  /\ UNCHANGED <<url, body, rows, order, files, cache, origin,
                 scan, cuts, crashes, changes, late, scans>>

\* SaveResource and SaveResourceFromFile take any file of that name.
Stat(o) ==
  /\ pc[o] = "stat"
  /\ IF files[body[o]] # "none"
     THEN Goto(o, "insert") /\ tmp' = tmp \ {o}
     ELSE Goto(o, IF o \in tmp THEN "rename" ELSE "write") /\ UNCHANGED tmp
  /\ UNCHANGED <<url, body, local, result, rows, order, files, cache,
                 origin, scan, cuts, boundVars>>

\* Mutant: an error of os.Rename is taken for success.
RenameErrorIgnored(o) ==
  /\ pc[o] = "rename"
  /\ \/ Succeeds /\ files' = [files EXCEPT ![body[o]] = "full"]
     \/ Fails /\ UNCHANGED files
  /\ tmp' = tmp \ {o} /\ Goto(o, "insert")
  /\ UNCHANGED <<url, body, local, result, rows, order, cache, origin,
                 scan, cuts, crashes, changes, late, scans>>

\* os.Rename is atomic; when it fails the file is copied.
Rename(o) ==
  /\ pc[o] = "rename"
  /\ \/ /\ Succeeds
        /\ files' = [files EXCEPT ![body[o]] = "full"]
        /\ tmp' = tmp \ {o} /\ Goto(o, "insert")
     \/ Fails /\ Goto(o, "write") /\ UNCHANGED <<files, tmp>>
  /\ UNCHANGED <<url, body, local, result, rows, order, cache, origin,
                 scan, cuts, crashes, changes, late, scans>>

\* os.WriteFile and copyFile open the file itself and truncate it.
Truncate(o) ==
  /\ pc[o] = "write"
  /\ files' = [files EXCEPT ![body[o]] = o]
  /\ Goto(o, "writing")
  /\ UNCHANGED <<url, body, local, result, rows, order, tmp, cache,
                 origin, scan, cuts, boundVars>>

\* The file is whole when the last writer that truncated it is through.
FinishWrite(o) ==
  LET c == body[o] IN
  /\ pc[o] = "writing"
  /\ \/ /\ Succeeds
        /\ files' = IF files[c] = o THEN [files EXCEPT ![c] = "full"] ELSE files
        /\ tmp' = tmp \ {o} /\ Goto(o, "insert") /\ UNCHANGED <<local, result, cuts>>
     \/ Fails /\ cuts' = cuts \union {c} /\ Return(o, Null) /\ UNCHANGED files
  /\ UNCHANGED <<url, body, rows, order, cache, origin, scan,
                 crashes, changes, late, scans>>

\* CreateResource, and the new version enters the cache.
Insert(o) ==
  /\ pc[o] = "insert"
  /\ \/ /\ Succeeds
        /\ rows' = [rows EXCEPT ![o] = [url |-> url[o], hash |-> body[o], state |-> "usable"]]
        /\ order' = Append(order, o)
        /\ Remember(url[o], o, local[o].meta) /\ Return(o, o)
     \/ Fails /\ Return(o, Null) /\ UNCHANGED <<rows, order, cache>>
  /\ UNCHANGED <<url, body, files, origin, scan, cuts, crashes,
                 changes, late, scans>>

-----------------------------------------------------------------------------
(* --quarantine-corrupted-css, run with the server stopped.                *)

HashesInUse == {rows[r].hash : r \in {r \in Op : Usable(r)}}

ScanStart ==
  /\ Quiet /\ scan.at = "off" /\ scans < MaxScans
  /\ scans' = scans + 1
  /\ scan' = [at |-> "check", left |-> HashesInUse, file |-> Null]
  /\ cache' = [u \in Url |-> NoEntry]
  /\ UNCHANGED <<opVars, diskVars, origin, cuts, faults, crashes, changes, late>>

\* Mutant: only the row that was being checked is quarantined.
QuarantinedFirst(c) ==
  LET r == CHOOSE r \in Op : Usable(r) /\ rows[r].hash = c
  IN  [rows EXCEPT ![r].state = "quarantined"]

\* QuarantineResourcesByFilePath: every row of the file.
Quarantined(c) ==
  [r \in Op |-> IF Usable(r) /\ rows[r].hash = c
                THEN [rows[r] EXCEPT !.state = "quarantined"] ELSE rows[r]]

\* One file: left alone if its hash is right, otherwise copied aside and its
\* rows marked; an error ends the scan.
ScanFile(c) ==
  /\ scan.at = "check" /\ c \in scan.left
  /\ \/ /\ files[c] = "full" /\ Succeeds
        /\ scan' = [scan EXCEPT !.left = @ \ {c}] /\ UNCHANGED rows
     \/ /\ files[c] # "full" /\ Succeeds
        /\ rows' = Quarantined(c)
        /\ scan' = IF files[c] = "none"
                   THEN [scan EXCEPT !.left = @ \ {c}]
                   ELSE [at |-> "remove", left |-> scan.left \ {c}, file |-> c]
     \/ files[c] # "full" /\ Fails /\ scan' = NoScan /\ UNCHANGED rows
  /\ UNCHANGED <<opVars, order, files, tmp, cache, origin, cuts, crashes, changes, late, scans>>

ScanRemove ==
  /\ scan.at = "remove"
  /\ \/ /\ Succeeds
        /\ files' = [files EXCEPT ![scan.file] = "none"]
        /\ scan' = [scan EXCEPT !.at = "check", !.file = Null]
     \/ Fails /\ scan' = NoScan /\ UNCHANGED files
  /\ UNCHANGED <<opVars, rows, order, tmp, cache, origin, cuts, crashes, changes, late, scans>>

ScanEnd ==
  /\ scan.at = "check" /\ scan.left = {}
  /\ scan' = NoScan
  /\ UNCHANGED <<opVars, diskVars, cache, origin, cuts, boundVars>>

-----------------------------------------------------------------------------
(* The rest of the world.                                                  *)

\* The cached freshness runs out; the entry expires or is evicted.
CacheStale(u) ==
  /\ cache[u].fresh
  /\ cache' = [cache EXCEPT ![u].fresh = FALSE]
  /\ UNCHANGED <<opVars, diskVars, origin, scan, cuts, boundVars>>

CacheEvict(u) ==
  /\ cache[u].row # Null
  /\ cache' = [cache EXCEPT ![u] = NoEntry]
  /\ UNCHANGED <<opVars, diskVars, origin, scan, cuts, boundVars>>

OriginChange(u, c) ==
  /\ changes < MaxChanges /\ u \notin FrameUrl /\ c # origin[u]
  /\ changes' = changes + 1
  /\ origin' = [origin EXCEPT ![u] = c]
  /\ UNCHANGED <<opVars, diskVars, cache, scan, cuts, faults, crashes, late, scans>>

\* FinalizePageCreate and ReplacePageSnapshot touch the rows the page got, long
\* after the URL's lock was given back.
LateTouch(o) ==
  /\ pc[o] = "done" /\ result[o] # Null /\ late < MaxLate
  /\ late' = late + 1
  /\ Touch(result[o])
  /\ UNCHANGED <<opVars, rows, files, tmp, cache, origin, scan, cuts, faults, crashes,
                 changes, scans>>

\* The process dies and restarts: CleanupTmp empties data/tmp.
Crash ==
  /\ crashes < MaxCrashes
  /\ crashes' = crashes + 1
  /\ pc' = [o \in Op |-> IF InFlight(o) THEN "done" ELSE pc[o]]
  /\ cuts' = cuts \union {body[o] : o \in {o \in Op : pc[o] = "writing"}}
  /\ local' = [o \in Op |-> NoLocal] /\ tmp' = {}
  /\ cache' = [u \in Url |-> NoEntry]
  /\ scan' = NoScan
  /\ UNCHANGED <<url, body, result, rows, order, files, origin,
                 faults, changes, late, scans>>

-----------------------------------------------------------------------------
Init ==
  /\ pc = [o \in Op |-> IF o \in Seeded THEN "done" ELSE "idle"]
  /\ url = [o \in Op |-> Null] /\ body = [o \in Op |-> Null]
  /\ local = [o \in Op |-> NoLocal] /\ result = [o \in Op |-> Null]
  /\ \E u \in [Seeded -> Url], c \in [Seeded -> Content] :
       \* earlier versions left some files corrupted or lost
       \E f \in [Range(c) -> {"full", "polluted", "none"}] :
         /\ rows = [r \in Op |-> IF r \in Seeded
                                 THEN [url |-> u[r], hash |-> c[r], state |-> "usable"]
                                 ELSE NoRow]
         /\ files = [x \in Content |-> IF x \in Range(c) THEN f[x] ELSE "none"]
  /\ order \in SetToSeqs(Seeded)
  /\ tmp = {} /\ cache = [u \in Url |-> NoEntry]
  /\ origin \in [Url -> Content]
  /\ scan = NoScan /\ cuts = {}
  /\ faults = 0 /\ crashes = 0 /\ changes = 0 /\ late = 0 /\ scans = 0

Advance(o) ==
  \/ Acquire(o) \/ Fetch(o) \/ Revalidate(o) \/ Fallback(o)
  \/ Match(o) \/ ByHash(o) \/ Stat(o) \/ Rename(o) \/ Truncate(o)
  \/ FinishWrite(o) \/ Insert(o)

Next ==
  \/ \E o \in Op : \/ \E u \in Url : Begin(o, u)
                   \/ \E u \in Url, c \in Content : BeginInline(o, u, c)
                   \/ Advance(o) \/ LateTouch(o)
  \/ \E u \in Url : CacheStale(u) \/ CacheEvict(u)
  \/ \E u \in Url, c \in Content : OriginChange(u, c)
  \/ \E c \in Content : ScanFile(c)
  \/ ScanStart \/ ScanRemove \/ ScanEnd \/ Crash

Spec == Init /\ [][Next]_vars

-----------------------------------------------------------------------------
\* A call returns a row of its own URL with the body the origin was serving: a
\* validator in the cache never stands for another version.
AnswerFaithful ==
  \A o \in Op : result[o] # Null =>
    /\ rows[result[o]].url = url[o]
    /\ body[o] # Null => rows[result[o]].hash = body[o]

\* The file of a row that new captures may reuse is whole, although URLs with one
\* content race to write it: only a file cut short by a failed or interrupted
\* write, or corrupted before, is not, or one a racing call is writing again.
SharedFileWhole ==
  \A r \in Op : Usable(r) =>
    LET c == rows[r].hash IN
    \/ files[c] = "full" \/ c \in cuts
    \/ \E o \in Op : pc[o] = "writing" /\ body[o] = c
    \/ \E s \in Seeded : rows[s].hash = c /\ (Usable(s) \/ files[c] = "polluted")

\* What racing calls keep of the data directory: the types, among them that a temporary
\* file outlives no call, and whole shared files.
Inv == TypeOK /\ SharedFileWhole

\* A scan that went through leaves no row that is reused with a wrong file.
ScanHeals ==
  scan.at = "check" /\ scan.left = {} =>
    \A r \in Op : Usable(r) => files[rows[r].hash] = "full"

\* Captures of one URL do not insert the same version twice, unless a finalize
\* touched an older version meanwhile or the origin returned to it.
OneVersion ==
  late = 0 /\ changes <= 1 =>
    \A q, r \in Op \ Seeded :
      /\ Usable(q) /\ Usable(r) /\ rows[q].url \notin FrameUrl
      /\ rows[q].url = rows[r].url /\ rows[q].hash = rows[r].hash
      => q = r

\* Calls do not wait for each other in a circle: a download holds its URL's lock
\* while it waits for a permit, and gives the permit back before it waits again.
NobodyStuck == Quiet \/ \E o \in Op : ENABLED Advance(o)
=============================================================================
