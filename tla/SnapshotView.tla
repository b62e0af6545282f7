---------------------------- MODULE SnapshotView ----------------------------
(***************************************************************************)
(* Viewing an archived snapshot: how the server finds, for a URL that a    *)
(* browser asks for inside a page (/archive/<page>/<time>mp_/<url>) or     *)
(* inside a public share (/share/<token>/archive/<time>mp_/<url>), the     *)
(* resource to answer with (api/view_handler.go, api/share_handler.go, the *)
(* lookups of database/sqlite.go and database/postgres.go).  The lookup is *)
(* a cascade of up to five queries; the page may be archived again, or     *)
(* deleted, and the share revoked, between any two of them, and any query  *)
(* and any reading of a file may fail.                                     *)
(*                                                                         *)
(* A URL is taken apart into what the queries tell apart: its path, whether*)
(* a space of it is written raw, its query and its fragment.               *)
(***************************************************************************)
EXTENDS Naturals, FiniteSets

CONSTANTS
  Page, Token, Reader,   \* pages, share tokens, concurrent HTTP requests
  Snap,                  \* captured snapshots
  Res,                   \* resource rows, by id
  Null,
  UrlOf,                 \* the URL column of each row
  FileOf,                \* its file_path: rows of equal content have one file
  SubUrl,                \* the URL a style sheet refers to; Null: not a style sheet
  LinksOf,               \* the rows a snapshot links
  Asked,                 \* the URLs browsers ask for
  Like23,                \* <<u, v>>: v matches the prefix patterns, and is not u and a fragment
  LikeCase,              \* <<u, v>>: v matches the path pattern, and is not u and a query
  Shared,                \* the shares that exist at the start: Token -> [page, snap]
  MaxSeen                \* bound: captures finalized during the behaviour

Url == [path: {u.path : u \in Asked} \union {UrlOf[r].path : r \in Res},
        raw: BOOLEAN,
        query: {u.query : u \in Asked} \union {UrlOf[r].query : r \in Res} \union {Null},
        frag: {u.frag : u \in Asked} \union {UrlOf[r].frag : r \in Res} \union {Null}]

ASSUME ResAssumption == Res \subseteq Nat /\ Null \notin Res /\ IsFiniteSet(Res)
ASSUME SetsAssumption == /\ Null \notin Snap \union Page \union Token
                         /\ LinksOf \in [Snap -> SUBSET Res]
                         /\ Shared \in [Token -> [page: Page, snap: Snap]]
ASSUME UrlAssumption == /\ Asked \subseteq Url
                        /\ UrlOf \in [Res -> Url]
                        /\ SubUrl \in [Res -> Asked \union {Null}]
                        /\ Null \notin Asked
ASSUME FileAssumption == \A r \in Res : FileOf[r] # Null   \* every row has a file_path
ASSUME BoundAssumption == MaxSeen \in Nat

VARIABLES
  snap,       \* page -> the snapshot its row and page_resources hold, Null when deleted
  shares,     \* token -> "active" | "revoked" | "expired" | "gone" (deleted with its page)
  seen,       \* row -> last_seen, as a count of finalized captures
  captures,   \* captures finalized so far
  rd,         \* reader -> the request it serves
  \* history, read by the properties only
  kept,       \* reader -> the rows its scope linked during the whole request
  ever,       \* reader -> the rows its scope linked at some time of the request
  ended,      \* reader -> the share had ended when the request arrived
  handed      \* <<token, file>>: local paths put into shared style sheets

vars == <<snap, shares, seen, captures, rd, kept, ever, ended, handed>>
history == <<kept, ever, ended, handed>>

Try == {"exact", "parsed", "spaces", "prefix", "path"}
ASSUME TryAssumption == Null \notin Try
\* How a request ends: "done" with the resource or 404; "denied"; "failed", 500 for a
\* query; "unread", the row's file could not be read; "unresolved", a style sheet with
\* its reference as it was, because the query for it failed.
Ends == {"done", "denied", "failed", "unread", "unresolved"}
Request == [pc: {"idle", "token", "lookup", "file"} \union Ends,
            page: Page \union {Null}, token: Token \union {Null},
            url: Asked \union {Null}, file: {FileOf[r] : r \in Res} \union {Null},
            try: Try \union {Null}, css: Res \union {Null},
            main: Res \union {Null}, sub: Res \union {Null}]
NoRequest == [pc |-> "idle", page |-> Null, token |-> Null, url |-> Null,
              file |-> Null, try |-> Null, css |-> Null, main |-> Null, sub |-> Null]

\* The URL being looked up: the one asked for, then the style sheet's reference.
Looked(q) == IF rd[q].css = Null THEN rd[q].url ELSE SubUrl[rd[q].css]

TypeOK ==
  /\ snap \in [Page -> Snap \union {Null}]
  /\ shares \in [Token -> {"active", "revoked", "expired", "gone"}]
  /\ captures \in 0 .. MaxSeen
  /\ seen \in [Res -> 0 .. captures]
  /\ rd \in [Reader -> Request]
  /\ kept \in [Reader -> SUBSET Res] /\ ever \in [Reader -> SUBSET Res]
  /\ ended \in [Reader -> BOOLEAN]
  /\ \A q \in Reader : rd[q].pc = "lookup" => rd[q].try \in Try /\ Looked(q) \in Asked

-----------------------------------------------------------------------------
\* URLs, as the queries compare them.

\* url.Parse(u).String(): a raw space of the path comes back as %20.
ParsedString(u) == [u EXCEPT !.raw = FALSE]
\* strings.ReplaceAll(u, " ", "%20")
SpacesEscaped(u) == [u EXCEPT !.raw = FALSE]
\* everything before the first '?'
CutQuery(u) == IF u.query = Null THEN u ELSE [u EXCEPT !.query = Null, !.frag = Null]

SamePath(u, v) == u.path = v.path /\ u.raw = v.raw

\* v LIKE u || '#%' OR v LIKE u || '%23%'.  Only u is escaped: the percent sign of %23
\* is a wildcard, and the second pattern matches whatever begins with u and has "23"
\* after it.  SQLite's LIKE also ignores case.  Like23 says which URLs match so.
LikePrefix(u, v) == \/ u.frag = Null /\ SamePath(u, v) /\ v.query = u.query /\ v.frag # Null
                    \/ <<u, v>> \in Like23

\* v = u OR v LIKE u || '?%', for a u without query; LikeCase by SQLite, or in a fragment
LikePath(u, v) == \/ v = u
                  \/ u.frag = Null /\ SamePath(u, v) /\ v.query # Null
                  \/ <<u, v>> \in LikeCase

-----------------------------------------------------------------------------
\* The five queries of findResourceForPageOnly and findResourceForShare.

PageRows(p) == IF snap[p] = Null THEN {} ELSE LinksOf[snap[p]]

\* page_share_resources, fixed by CreatePageShare
ShareRows(t) == IF shares[t] = "gone" THEN {} ELSE LinksOf[Shared[t].snap]

\* Mutant: the global fallback of GetResourceByURLAndPageID.
ScopeOrAny(q) == Res

\* The join with page_resources or page_share_resources.
Scope(q) == IF rd[q].token # Null THEN ShareRows(rd[q].token) ELSE PageRows(rd[q].page)

\* ORDER BY last_seen DESC, id DESC LIMIT 1
Newest(rows) ==
  {r \in rows : \A s \in rows : seen[r] > seen[s] \/ (seen[r] = seen[s] /\ r >= s)}

\* GetLinkedResourceByURLAndPageID and GetShareResourceByURL: LIMIT 1, no order
ByUrl(rows, u) == {r \in rows : UrlOf[r] = u}
ByUrlPrefix(rows, u) == Newest({r \in rows : LikePrefix(u, UrlOf[r])})

\* the path itself before any query of it
ByUrlPath(rows, u) == IF ByUrl(rows, u) # {} THEN Newest(ByUrl(rows, u))
                      ELSE Newest({r \in rows : LikePath(u, UrlOf[r])})

\* What a query may return; {} stands for sql.ErrNoRows.
Found(q) ==
  LET u == Looked(q)
      rows == Scope(q)
  IN CASE rd[q].try = "exact"  -> ByUrl(rows, u)
       [] rd[q].try = "parsed" -> ByUrl(rows, ParsedString(u))
       [] rd[q].try = "spaces" -> ByUrl(rows, SpacesEscaped(u))
       [] rd[q].try = "prefix" -> ByUrlPrefix(rows, u)
       [] rd[q].try = "path"   -> ByUrlPath(rows, CutQuery(u))

\* The next query to try: an encoded form is asked for only when it differs.
NextTry(try, u) ==
  CASE try = "exact"  -> IF ParsedString(u) # u THEN "parsed" ELSE "prefix"
    [] try = "parsed" -> IF SpacesEscaped(u) # u THEN "spaces" ELSE "prefix"
    [] try = "spaces" -> "prefix"
    [] try = "prefix" -> "path"
    [] try = "path"   -> Null

-----------------------------------------------------------------------------
\* Requests.

\* ProxyResource: the page itself is not looked up, only its links are.
AskPage(q, p, u) ==
  /\ rd[q].pc = "idle"
  /\ rd' = [rd EXCEPT ![q] = [NoRequest EXCEPT !.pc = "lookup", !.page = p, !.url = u,
                                               !.try = "exact"]]
  /\ kept' = [kept EXCEPT ![q] = PageRows(p)]
  /\ ever' = [ever EXCEPT ![q] = PageRows(p)]
  /\ ended' = [ended EXCEPT ![q] = FALSE]
  /\ UNCHANGED <<snap, shares, seen, captures, handed>>

\* ProxySharedResource, or ServeSharedLocalResource for a path under resources/.
AskShare(q, t, u, f) ==
  /\ rd[q].pc = "idle"
  /\ rd' = [rd EXCEPT ![q] = [NoRequest EXCEPT !.pc = "token", !.token = t, !.url = u,
                                               !.file = f]]
  /\ kept' = [kept EXCEPT ![q] = ShareRows(t)]
  /\ ever' = [ever EXCEPT ![q] = LinksOf[Shared[t].snap]]
  /\ ended' = [ended EXCEPT ![q] = shares[t] # "active"]
  /\ UNCHANGED <<snap, shares, seen, captures, handed>>

\* GetActivePageShareByTokenHash: not revoked, not expired, row present.
ActiveShare(t) == shares[t] = "active"

\* getActiveShare: a share that has ended answers 404.
CheckToken(q) ==
  /\ rd[q].pc = "token"
  /\ rd' = [rd EXCEPT ![q] =
       IF ~ActiveShare(rd[q].token) THEN [@ EXCEPT !.pc = "denied"]
       ELSE IF rd[q].file # Null THEN [@ EXCEPT !.pc = "file"]
       ELSE [@ EXCEPT !.pc = "lookup", !.try = "exact"]]
  /\ UNCHANGED <<snap, shares, seen, captures, history>>

\* A query of the cascade returns nothing: the next one, or 404, or, for the
\* reference of a style sheet, a URL left as it was.
Miss(q) ==
  /\ rd[q].pc = "lookup" /\ Found(q) = {}
  /\ LET next == NextTry(rd[q].try, Looked(q))
     IN rd' = [rd EXCEPT ![q].try = next,
                         ![q].pc = IF next = Null THEN "done" ELSE "lookup"]
  /\ UNCHANGED <<snap, shares, seen, captures, history>>

\* Mutant: only a query without error ends the cascade, so a failed one goes on.
QueryFailsGoesOn(q) ==
  /\ rd[q].pc = "lookup" /\ rd[q].css = Null
  /\ LET next == NextTry(rd[q].try, Looked(q))
     IN rd' = [rd EXCEPT ![q].try = next,
                         ![q].pc = IF next = Null THEN "done" ELSE "lookup"]
  /\ UNCHANGED <<snap, shares, seen, captures, history>>

\* The query for the share, for the URL asked for or for a local path fails: 500, the
\* rest of the cascade is not tried.
QueryFails(q) ==
  /\ rd[q].pc \in {"token", "lookup", "file"} /\ rd[q].css = Null
  /\ rd' = [rd EXCEPT ![q].pc = "failed"]
  /\ UNCHANGED <<snap, shares, seen, captures, history>>

\* A query for the reference of a style sheet fails: it is logged, and the style sheet
\* sent with the reference as it was.
ReferenceFails(q) ==
  /\ rd[q].pc = "lookup" /\ rd[q].css # Null
  /\ rd' = [rd EXCEPT ![q].pc = "unresolved"]
  /\ UNCHANGED <<snap, shares, seen, captures, history>>

\* A query returns a row whose file cannot be read: 500.
ReadFails(q) ==
  /\ rd[q].pc = "lookup" /\ rd[q].css = Null /\ Found(q) # {}
  /\ rd' = [rd EXCEPT ![q].pc = "unread"]
  /\ UNCHANGED <<snap, shares, seen, captures, history>>

\* A query returns a style sheet: it is read, and its reference looked up.
HitCss(q) ==
  /\ rd[q].pc = "lookup" /\ rd[q].css = Null
  /\ \E r \in Found(q) :
       /\ SubUrl[r] # Null
       /\ rd' = [rd EXCEPT ![q].css = r, ![q].main = r, ![q].try = "exact"]
  /\ UNCHANGED <<snap, shares, seen, captures, history>>

\* A query returns the resource to serve.
HitResource(q) ==
  /\ rd[q].pc = "lookup" /\ rd[q].css = Null
  /\ \E r \in Found(q) :
       /\ SubUrl[r] = Null
       /\ rd' = [rd EXCEPT ![q].main = r, ![q].pc = "done"]
  /\ UNCHANGED <<snap, shares, seen, captures, history>>

\* The style sheet's reference is rewritten to the local path of the row found.
HitReference(q) ==
  /\ rd[q].pc = "lookup" /\ rd[q].css # Null
  /\ \E r \in Found(q) :
       /\ rd' = [rd EXCEPT ![q].sub = r, ![q].pc = "done"]
       /\ handed' = IF rd[q].token = Null THEN handed
                    ELSE handed \union {<<rd[q].token, FileOf[r]>>}
  /\ UNCHANGED <<snap, shares, seen, captures, kept, ever, ended>>

\* GetShareResourceByFilePath: a local path is served if the share links a row with it.
ByFilePath(rows, f) == {r \in rows : FileOf[r] = f}

\* serveSharedLocalResource
ServeLocal(q) ==
  /\ rd[q].pc = "file"
  /\ LET rows == ByFilePath(ShareRows(rd[q].token), rd[q].file)
     IN \/ rows = {} /\ rd' = [rd EXCEPT ![q].pc = "done"]
        \/ \E r \in rows : rd' = [rd EXCEPT ![q].pc = "done", ![q].main = r]
  /\ UNCHANGED <<snap, shares, seen, captures, history>>

\* serveFileStreamingWithCacheControl: the file cannot be opened, and the answer is 404.
LocalReadFails(q) ==
  /\ rd[q].pc = "file" /\ ByFilePath(ShareRows(rd[q].token), rd[q].file) # {}
  /\ rd' = [rd EXCEPT ![q].pc = "unread"]
  /\ UNCHANGED <<snap, shares, seen, captures, history>>

\* The answer is sent; the reader is free for the next request.
Close(q) ==
  /\ rd[q].pc \in Ends
  /\ rd' = [rd EXCEPT ![q] = NoRequest]
  /\ kept' = [kept EXCEPT ![q] = {}]
  /\ ever' = [ever EXCEPT ![q] = {}]
  /\ ended' = [ended EXCEPT ![q] = FALSE]
  /\ UNCHANGED <<snap, shares, seen, captures, handed>>

-----------------------------------------------------------------------------
\* What happens to the pages and shares meanwhile.

\* The request is about page p or about a share of it.
Concerns(q, p) == rd[q].page = p \/ (rd[q].token # Null /\ Shared[rd[q].token].page = p)

\* FinalizePageCreate and ReplacePageSnapshot: the links are replaced and the linked
\* rows touched in one transaction.
Capture(p, s) ==
  /\ captures < MaxSeen /\ snap[p] # Null
  /\ snap' = [snap EXCEPT ![p] = s]
  /\ captures' = captures + 1
  /\ seen' = [r \in Res |-> IF r \in LinksOf[s] THEN captures + 1 ELSE seen[r]]
  /\ kept' = [q \in Reader |-> IF rd[q].page = p THEN kept[q] \intersect LinksOf[s] ELSE kept[q]]
  /\ ever' = [q \in Reader |-> IF rd[q].page = p THEN ever[q] \union LinksOf[s] ELSE ever[q]]
  /\ UNCHANGED <<shares, rd, ended, handed>>

\* DeletePage: links go with the row, shares and their links by ON DELETE CASCADE.
DeletePage(p) ==
  /\ snap[p] # Null
  /\ snap' = [snap EXCEPT ![p] = Null]
  /\ shares' = [t \in Token |-> IF Shared[t].page = p THEN "gone" ELSE shares[t]]
  /\ kept' = [q \in Reader |-> IF Concerns(q, p) THEN {} ELSE kept[q]]
  /\ UNCHANGED <<seen, captures, rd, ever, ended, handed>>

\* RevokePageShare sets revoked_at whatever the share's state.
Revoke(t) ==
  /\ shares[t] # "gone"
  /\ shares' = [shares EXCEPT ![t] = "revoked"]
  /\ UNCHANGED <<snap, seen, captures, rd, history>>

\* expires_at passes.
Expire(t) ==
  /\ shares[t] = "active"
  /\ shares' = [shares EXCEPT ![t] = "expired"]
  /\ UNCHANGED <<snap, seen, captures, rd, history>>

-----------------------------------------------------------------------------
Init ==
  /\ snap \in [Page -> Snap]
  /\ \A t \in Token : snap[Shared[t].page] = Shared[t].snap
  /\ shares = [t \in Token |-> "active"]
  /\ seen = [r \in Res |-> 0]
  /\ captures = 0
  /\ rd = [q \in Reader |-> NoRequest]
  /\ kept = [q \in Reader |-> {}] /\ ever = [q \in Reader |-> {}]
  /\ ended = [q \in Reader |-> FALSE]
  /\ handed = {}

Read(q) == \/ \E p \in Page, u \in Asked : AskPage(q, p, u)
           \/ \E t \in Token, u \in Asked : AskShare(q, t, u, Null)
           \/ \E t \in Token, r \in Res : AskShare(q, t, Null, FileOf[r])
           \/ CheckToken(q) \/ Miss(q) \/ HitCss(q) \/ HitResource(q)
           \/ HitReference(q) \/ ServeLocal(q) \/ Close(q)
           \/ QueryFails(q) \/ ReferenceFails(q) \/ ReadFails(q) \/ LocalReadFails(q)

Change == \/ \E p \in Page, s \in Snap : Capture(p, s)
          \/ \E p \in Page : DeletePage(p)
          \/ \E t \in Token : Revoke(t) \/ Expire(t)

Next == Change \/ \E q \in Reader : Read(q)

Spec == Init /\ [][Next]_vars

-----------------------------------------------------------------------------
\* How well a stored URL v answers a request for u; 5 is another resource.
\* Written from what the comments of the queries say each of them is for.
Rank(u, v) ==
  CASE v = u -> 0
    [] v # u /\ v = ParsedString(u) -> 1
    [] v # u /\ SamePath(u, v) /\ u.frag = Null /\ v.query = u.query -> 2
    [] v # u /\ v = CutQuery(u) -> 3
    [] /\ v # u /\ SamePath(u, v) /\ CutQuery(u).frag = Null /\ v.query # Null
       /\ v.query = u.query => u.frag # Null -> 4
    [] OTHER -> 5

\* The row r answers u at least as well as every one of rows.  A URL that only a LIKE
\* pattern takes for u answers too, but never in the place of a row that an earlier
\* query asks for: u or its encoded form, and for the path pattern also u with a
\* fragment and the path alone.
Best(u, r, rows) ==
  LET v == UrlOf[r]
  IN /\ r # Null => \/ Rank(u, v) < 5
                    \/ <<u, v>> \in Like23 \/ <<CutQuery(u), v>> \in LikeCase
     /\ \A s \in rows : Rank(u, UrlOf[s]) < 5 =>
          /\ r # Null
          /\ \/ Rank(u, v) <= Rank(u, UrlOf[s])
             \/ <<u, v>> \in Like23 /\ Rank(u, UrlOf[s]) >= 2
             \/ <<CutQuery(u), v>> \in LikeCase /\ Rank(u, UrlOf[s]) = 4

\* A request whose queries did not fail is answered with a row at least as close to the
\* URL it asked for as every row that stayed linked during the whole request, but for
\* the URLs that the LIKE patterns take for it; and with 404 only if no row that stayed
\* linked answers it.  The same for the reference inside a style sheet.  The page may be
\* archived again between any two queries, and a failing query never becomes a 404 or a
\* worse row: it ends the request, or leaves the reference alone.
BestLinked ==
  \A q \in Reader :
    /\ rd[q].pc \in {"done", "unresolved"} /\ rd[q].url # Null =>
         Best(rd[q].url, rd[q].main, kept[q])
    /\ rd[q].pc = "done" /\ rd[q].css # Null =>
         Best(SubUrl[rd[q].css], rd[q].sub, kept[q])

\* A page answers with rows it linked at some time of the request, a share only
\* with the rows fixed when it was created, whatever became of its page since.
Scoped ==
  \A q \in Reader : {rd[q].main, rd[q].sub} \subseteq ever[q] \union {Null}

\* A request that reaches the server after its share was revoked, expired or went
\* with its page looks nothing up: 404, or 500 if the query for the share fails.
EndedShareClosed ==
  \A q \in Reader : ended[q] => rd[q].pc \in {"token", "denied", "failed"}

\* A local path that a share's style sheet was rewritten to is served by that share
\* as long as its page exists and its file can be read: the two lookups, by URL and by
\* path, agree.
HandedOutServed ==
  \A q \in Reader :
    rd[q].pc = "done" /\ rd[q].file # Null /\ <<rd[q].token, rd[q].file>> \in handed
      /\ kept[q] # {} => rd[q].main # Null

\* What holds of every request besides: the types, the scope of its answer, an ended
\* share's 404 and the local paths a share has handed out.
Inv == TypeOK /\ Scoped /\ EndedShareClosed /\ HandedOutServed
=============================================================================
