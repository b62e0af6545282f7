------------------------------ MODULE PageList ------------------------------
(***************************************************************************)
(* The lists of archived pages: the handlers that list, search and count   *)
(* pages and favorites (api/pages_handler.go, api/favorites_handler.go over*)
(* database/sqlite.go and database/postgres.go), and the two web pages that*)
(* show them (web/index.html, web/favorites.html) with their debounced     *)
(* inputs, superseded requests and page-by-page navigation.                *)
(*                                                                         *)
(* One browser tab is modelled step by step, in `view` "archive" or        *)
(* "favorites"; what other tabs, the userscript and the background tasks do*)
(* to the rows is a set of free changes.  A request reads the slice, the   *)
(* favorite states and the total in three queries.                         *)
(***************************************************************************)
EXTENDS Naturals, FiniteSets

CONSTANTS
  PageId,        \* page ids; an id is never used again after a deletion
  HasKeyword,    \* pages whose URL, title or text holds the keyword
  InRange,       \* pages the domain and date filters let through
  InitRows,      \* the rows at the start
  PageSize,      \* rows per page of a list
  MaxChanges, MaxInputs, MaxFaults   \* bounds on changes, user actions, failures

ASSUME PageAssumption == /\ PageId \subseteq Nat \ {0} /\ IsFiniteSet(PageId)
                         /\ HasKeyword \subseteq PageId /\ InRange \subseteq PageId
ASSUME ListBoundsAssumption == /\ PageSize \in Nat \ {0}
                           /\ MaxChanges \in Nat /\ MaxInputs \in Nat /\ MaxFaults \in Nat

VARIABLES
  rows,        \* page -> its row: state, last_visited, when it became a favorite (0: it is none)
  view,        \* which web page the tab shows
  input,       \* the inputs: a keyword or not, a domain or dates or not
  timers,      \* debounce timers that are running
  cur,         \* currentPage
  req,         \* the list request that is neither answered nor aborted
  shown,       \* what the tab shows
  totalPages,  \* the last page "Next" goes to
  act,         \* the deletion or favorite request in flight
  \* bounds and history
  changes, inputs, faults,
  prev,        \* the list shown before this one
  gone         \* pages that the tab took off the list it shows

client == <<view, input, timers, cur, totalPages>>
listVars == <<rows, client, req, shown, act, changes, inputs, faults, prev, gone>>

Filter == [kw: BOOLEAN, rest: BOOLEAN]
Row == [state: {"new", "there", "deleted"}, visited: Nat, favAt: Nat]
\* favorites.page_id refers to a row of pages.
ASSUME RowsAssumption == /\ InitRows \in [PageId -> Row]
                         /\ \A p \in PageId : InitRows[p].favAt # 0 =>
                                             InitRows[p].state = "there"
List == [stage: {"none", "sent", "listed", "marked", "answered", "failed"},
         filter: Filter, page: Nat, items: SUBSET PageId, stars: SUBSET PageId, total: Nat,
         \* history: no row has changed since the slice was read
         fresh: BOOLEAN]
NoList == [stage |-> "none", filter |-> [kw |-> FALSE, rest |-> FALSE], page |-> 1,
           items |-> {}, stars |-> {}, total |-> 0, fresh |-> FALSE]
Act == [what: {"none", "delete", "add", "remove", "deleteOk", "addOk", "removeOk", "fails"},
        page: PageId \union {0}]
NoAct == [what |-> "none", page |-> 0]

ListTypeOK ==
  /\ rows \in [PageId -> Row]
  /\ view \in {"archive", "favorites"} /\ input \in Filter
  /\ timers \subseteq {"search", "domain"}
  /\ cur \in Nat \ {0} /\ totalPages \in Nat
  /\ req \in List /\ prev \in List /\ shown \in List
  /\ act \in Act
  /\ changes \in 0 .. (MaxChanges + MaxInputs)
  /\ inputs \in 0 .. MaxInputs /\ faults \in 0 .. MaxFaults
  /\ gone \subseteq PageId
  \* the page number asked for is the one displayed; a total counts pages
  /\ req.stage # "none" => req.page = cur
  /\ req.stage = "answered" => req.total <= Cardinality(PageId)

There == {p \in PageId : rows[p].state = "there"}
Fails == faults < MaxFaults /\ faults' = faults + 1
Succeeds == UNCHANGED faults

-----------------------------------------------------------------------------
\* The queries.

\* The filters of ListPages: captured_at within the dates, domain or a subdomain of it.
ListRows(f) == {p \in There : f.rest => p \in InRange}
\* SearchPages adds: url, title or body_text LIKE %keyword%, ignoring case.
SearchRows(f) == {p \in ListRows(f) : p \in HasKeyword}
\* ListFavorites and SearchFavorites: pages joined with favorites.
FavoriteRows(f) == {p \in There : rows[p].favAt # 0 /\ (f.kw => p \in HasKeyword)}

Rows(f) == IF view = "favorites" THEN FavoriteRows(f)
           ELSE IF f.kw THEN SearchRows(f) ELSE ListRows(f)

Key(p) == IF view = "favorites" THEN rows[p].favAt ELSE rows[p].visited

\* Mutant: the order is by time only.
BeforeByTime(p, q) == Key(p) > Key(q)

\* ORDER BY last_visited (or favorites.created_at) DESC, id DESC
Before(p, q) == Key(p) > Key(q) \/ (Key(p) = Key(q) /\ p > q)

\* LIMIT pageSize OFFSET (page - 1) * pageSize
Slice(f, n) ==
  LET rank(p) == Cardinality({q \in Rows(f) : Before(q, p)})
  IN {p \in Rows(f) : rank(p) >= (n - 1) * PageSize /\ rank(p) < n * PageSize}

\* GetTotalPagesCount, GetSearchPagesCount, GetSearchFavoritesCount; without a keyword
\* GetFavoritesCount counts the favorites alone, not their join with pages.
Total(f) == IF view = "favorites" /\ ~f.kw
            THEN Cardinality({p \in PageId : rows[p].favAt # 0})
            ELSE Cardinality(Rows(f))

\* IsFavoriteBatch; a favorites list is marked without asking (markFavoritePages).
Stars(items) == IF view = "favorites" THEN items ELSE {p \in items : rows[p].favAt # 0}

-----------------------------------------------------------------------------
\* A list request on the server.

Query ==
  /\ req.stage = "sent"
  /\ \/ /\ Succeeds
        /\ req' = [req EXCEPT !.stage = "listed", !.items = Slice(req.filter, req.page),
                              !.fresh = TRUE]
     \/ Fails /\ req' = [req EXCEPT !.stage = "failed"]
  /\ UNCHANGED <<rows, client, shown, act, changes, inputs, prev, gone>>

\* attachFavoriteStates: an error fails the request.
Mark ==
  /\ req.stage = "listed"
  /\ \/ Succeeds /\ req' = [req EXCEPT !.stage = "marked", !.stars = Stars(req.items)]
     \/ view = "archive" /\ Fails /\ req' = [req EXCEPT !.stage = "failed"]
  /\ UNCHANGED <<rows, client, shown, act, changes, inputs, prev, gone>>

\* The total; when it cannot be read, the number of rows in the slice instead.
Count ==
  /\ req.stage = "marked"
  /\ \E total \in 0 .. Cardinality(PageId) :
       /\ \/ Succeeds /\ total = Total(req.filter)
          \/ Fails /\ total = Cardinality(req.items)
       /\ req' = [req EXCEPT !.stage = "answered", !.total = total]
  /\ UNCHANGED <<rows, client, shown, act, changes, inputs, prev, gone>>

-----------------------------------------------------------------------------
\* The tab.

LastPage(total) == (total + PageSize - 1) \div PageSize

\* loadPages, searchPages, loadFavorites, searchFavorites: the request in flight is
\* aborted and its sequence number superseded.
Load(f, n) ==
  /\ cur' = n
  /\ req' = [NoList EXCEPT !.stage = "sent", !.filter = f, !.page = n]

\* Mutant: typing leaves the request in flight alone.
InvalidateNothing == UNCHANGED req

\* invalidateActiveRequest
Invalidate == req' = NoList

\* Mutant: the last page itself counts as past the end.
ApplyAgain ==
  /\ req.stage = "answered"
  /\ IF req.total > 0 /\ cur >= LastPage(req.total)
     THEN Load(input, LastPage(req.total)) /\ UNCHANGED <<shown, totalPages, prev>>
     ELSE /\ prev' = shown /\ shown' = [req EXCEPT !.total = 0] /\ req' = NoList
          /\ totalPages' = LastPage(req.total)
          /\ UNCHANGED cur
  /\ UNCHANGED <<rows, view, input, timers, act, changes, inputs, faults, gone>>

\* applyPageResults: past the last page it loads that one instead, in the mode that
\* the inputs say now.
Apply ==
  /\ req.stage = "answered"
  /\ IF req.total > 0 /\ cur > LastPage(req.total)
     THEN Load(input, LastPage(req.total)) /\ UNCHANGED <<shown, totalPages, prev>>
     ELSE /\ prev' = shown /\ shown' = [req EXCEPT !.total = 0] /\ req' = NoList
          /\ totalPages' = LastPage(req.total)
          /\ UNCHANGED cur
  /\ UNCHANGED <<rows, view, input, timers, act, changes, inputs, faults, gone>>

\* showLoadError replaces the list; page numbers stay.
ShowError ==
  /\ req.stage = "failed"
  /\ prev' = shown /\ shown' = [req EXCEPT !.items = {}] /\ req' = NoList
  /\ UNCHANGED <<rows, client, act, changes, inputs, faults, gone>>

\* Bounds what the user does.
Does == inputs < MaxInputs /\ inputs' = inputs + 1

\* The input listener of the search box: an empty keyword loads at once.
TypeKeyword ==
  /\ Does
  /\ \E kw \in BOOLEAN :
       /\ input' = [input EXCEPT !.kw = kw]
       /\ IF kw THEN timers' = timers \union {"search"} /\ Invalidate /\ UNCHANGED cur
          ELSE timers' = timers \ {"search"} /\ Load(input', 1)
  /\ UNCHANGED <<rows, view, shown, totalPages, act, changes, faults, prev, gone>>

TypeDomain ==
  /\ view = "archive" /\ Does
  /\ \E rest \in BOOLEAN : input' = [input EXCEPT !.rest = rest]
  /\ timers' = timers \union {"domain"}
  /\ Invalidate
  /\ UNCHANGED <<rows, view, cur, shown, totalPages, act, changes, faults, prev, gone>>

\* A date input changes: loaded at once; running timers are left running.
PickDate ==
  /\ view = "archive" /\ Does
  /\ \E rest \in BOOLEAN : input' = [input EXCEPT !.rest = rest]
  /\ Load(input', 1)
  /\ UNCHANGED <<rows, view, timers, shown, totalPages, act, changes, faults, prev, gone>>

\* 300 ms have passed since the last key.
TimerFires ==
  /\ \E t \in timers : timers' = timers \ {t}
  /\ Load(input, 1)
  /\ UNCHANGED <<rows, view, input, shown, totalPages, act, changes, inputs, faults, prev, gone>>

Turn ==
  /\ Does
  /\ \/ cur > 1 /\ Load(input, cur - 1)
     \/ cur < totalPages /\ Load(input, cur + 1)
  /\ UNCHANGED <<rows, view, input, timers, shown, totalPages, act, changes, faults, prev, gone>>

\* deletePage, toggleFavorite, removeFavorite: the click sends the request.
Click ==
  /\ act = NoAct /\ Does
  /\ \E p \in shown.items :
       \/ act' = [what |-> "delete", page |-> p]
       \/ act' = [what |-> IF p \in shown.stars THEN "remove" ELSE "add", page |-> p]
  /\ UNCHANGED <<rows, client, req, shown, changes, faults, prev, gone>>

\* Mutant: the answer to a deletion does not reload the list.
ActAnsweredNoReload ==
  /\ act.what \in {"deleteOk", "addOk", "removeOk", "fails"}
  /\ act' = NoAct
  /\ UNCHANGED <<rows, client, req, shown, changes, inputs, faults, prev, gone>>

\* A deletion, or a removal from the favorites list, reloads the page shown; a toggle
\* changes the button; an error is only reported.
ActAnswered ==
  LET off == act.what = "deleteOk" \/ (act.what = "removeOk" /\ view = "favorites") IN
  /\ act.what \in {"deleteOk", "addOk", "removeOk", "fails"}
  /\ act' = NoAct
  /\ IF off
     THEN Load(input, cur) /\ UNCHANGED shown
     ELSE /\ shown' = [shown EXCEPT !.stars =
                CASE act.what = "addOk" -> @ \union ({act.page} \intersect shown.items)
                  [] act.what = "removeOk" -> @ \ {act.page}
                  [] OTHER -> @]
          /\ UNCHANGED <<req, cur>>
  /\ UNCHANGED <<rows, view, input, timers, totalPages, changes, inputs, faults, prev, gone>>

-----------------------------------------------------------------------------
\* The rows.

\* A row changes: history only.
Touch == /\ changes' = changes + 1
         /\ req' = [req EXCEPT !.fresh = FALSE]
         /\ shown' = [shown EXCEPT !.fresh = FALSE]
         /\ prev' = NoList

Top == LET t == {rows[p].visited : p \in PageId} \union {rows[p].favAt : p \in PageId}
       IN CHOOSE m \in t : \A n \in t : n <= m

\* DeletePage: favorites go by ON DELETE CASCADE.
WithoutPage(p) == [rows EXCEPT ![p].state = "deleted", ![p].favAt = 0]

\* AddFavorite: a second one is ignored, the first keeps its time.
WithFavorite(p) == IF rows[p].favAt # 0 THEN rows ELSE [rows EXCEPT ![p].favAt = Top + 1]
WithoutFavorite(p) == [rows EXCEPT ![p].favAt = 0]

\* DeletePage, AddFavorite and RemoveFavorite of the tab's own request; the page may
\* be gone (404 for the first two; removing a favorite that is not there succeeds).
Perform ==
  LET p == act.page IN
  /\ Touch
  /\ \/ /\ act.what \in {"delete", "add"} /\ p \notin There
        /\ act' = [act EXCEPT !.what = "fails"] /\ Succeeds /\ UNCHANGED rows
     \/ /\ act.what = "delete" /\ p \in There
        /\ act' = [act EXCEPT !.what = "deleteOk"] /\ rows' = WithoutPage(p) /\ Succeeds
     \/ /\ act.what = "add" /\ p \in There
        /\ act' = [act EXCEPT !.what = "addOk"] /\ rows' = WithFavorite(p) /\ Succeeds
     \/ /\ act.what = "remove"
        /\ act' = [act EXCEPT !.what = "removeOk"] /\ rows' = WithoutFavorite(p) /\ Succeeds
     \/ /\ act.what \in {"delete", "add", "remove"}
        /\ act' = [act EXCEPT !.what = "fails"] /\ Fails /\ UNCHANGED rows
  /\ gone' = IF act'.what = "deleteOk" \/ (act'.what = "removeOk" /\ view = "favorites")
             THEN gone \union {p} ELSE gone
  /\ UNCHANGED <<client, inputs>>

\* Another client: a page archived, visited again (maybe in the same instant as the
\* latest one), deleted, made or unmade a favorite.
Elsewhere ==
  /\ changes < MaxChanges /\ Touch
  /\ \E p \in PageId :
       \/ /\ rows[p].state = "new" /\ \A q \in PageId : q < p => rows[q].state # "new"
          /\ rows' = [rows EXCEPT ![p] = [state |-> "there", visited |-> Top + 1, favAt |-> 0]]
          /\ UNCHANGED gone
       \/ /\ p \in There
          /\ \E t \in {Top, Top + 1} : rows' = [rows EXCEPT ![p].visited = t]
          /\ UNCHANGED gone
       \/ p \in There /\ rows' = WithoutPage(p) /\ UNCHANGED gone
       \/ p \in There /\ rows' = WithFavorite(p) /\ gone' = gone \ {p}
       \/ p \in There /\ rows' = WithoutFavorite(p) /\ UNCHANGED gone
  /\ UNCHANGED <<client, act, inputs, faults>>

-----------------------------------------------------------------------------
ListInit ==
  /\ rows = InitRows
  /\ view \in {"archive", "favorites"}
  /\ input = [kw |-> FALSE, rest |-> FALSE]
  /\ timers = {} /\ cur = 1 /\ totalPages = 0
  /\ req = [NoList EXCEPT !.stage = "sent"]
  /\ shown = NoList /\ prev = NoList /\ act = NoAct
  /\ changes = 0 /\ inputs = 0 /\ faults = 0 /\ gone = {}

Serve == Query \/ Mark \/ Count
Render == Apply \/ ShowError
User == TypeKeyword \/ TypeDomain \/ PickDate \/ Turn \/ Click

ListNext == Serve \/ Render \/ TimerFires \/ User \/ Perform \/ ActAnswered \/ Elsewhere

ListSpec == ListInit /\ [][ListNext]_listVars

\* The server answers, timers fire, answers are rendered; users and other clients owe
\* nothing.
Fairness == /\ WF_listVars(Serve) /\ WF_listVars(Render) /\ WF_listVars(TimerFires)
            /\ WF_listVars(Perform) /\ WF_listVars(ActAnswered)
ListFairSpec == ListSpec /\ Fairness

-----------------------------------------------------------------------------
Quiet == req.stage = "none" /\ timers = {}

\* An answer to older inputs never lands after newer ones: what is still in flight asks
\* what the inputs say now, and with no request and no timer left the tab shows the
\* answer to exactly its inputs and its page number, or an error.
ShownMatches ==
  /\ req.stage # "none" => req.filter = input
  /\ Quiet => shown.filter = input /\ shown.page = cur

\* Two pages of one list, shown one after the other with no change of the rows between,
\* have no page in common and leave none out between them: every other page of the list
\* comes before both or after both, and the total agrees with the rows.
PagesTile ==
  LET both == prev.items \union shown.items IN
  /\ shown.stage = "answered" /\ prev.stage = "answered"
  /\ shown.filter = prev.filter /\ shown.page = prev.page + 1
  /\ shown.fresh /\ prev.fresh
  => /\ prev.items \intersect shown.items = {}
     /\ Cardinality(prev.items) = PageSize
     /\ \A q \in Rows(shown.filter) \ both : \/ \A p \in both : Key(q) >= Key(p)
                                             \/ \A p \in both : Key(q) <= Key(p)

\* A page that the tab deleted, or took off the favorites it shows, is not in the list
\* once nothing is in flight, unless another client put it back.
GoneNotShown ==
  Quiet /\ act = NoAct => shown.items \intersect gone = {}

\* An empty list is shown only if some change or failure emptied it: while rows match
\* and nothing changed or failed since they were counted, the tab does not stay past the end.
NoEmptyPage ==
  Quiet /\ shown.stage = "answered" /\ shown.fresh /\ faults = 0
    /\ Rows(shown.filter) # {} => shown.items # {}

\* Every favorite is a page that exists, so the favorites total, which is counted without
\* the join, is the number of rows the pages of the list hold.
FavoriteTotal ==
  \A p \in PageId : rows[p].favAt # 0 => p \in There

\* What holds of the tab and the rows at any moment.
ListInv == ListTypeOK /\ GoneNotShown /\ NoEmptyPage /\ FavoriteTotal

\* The tab gets to rest: redirects past the end do not go on forever.
Settles == []<>Quiet
=============================================================================
