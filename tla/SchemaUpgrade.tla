---------------------------- MODULE SchemaUpgrade ----------------------------
(* database/factory.go, and the part of database/sqlite.go and postgres.go   *)
(* that brings a database to the current schema when a process opens it.     *)
(* One action is one statement that commits on its own; a process may stop   *)
(* between any two of them and open the database again.  The schema is a set *)
(* of names: tables, columns (a column stands for itself in its table) and   *)
(* leftovers of earlier releases.  Indexes are left out, except where one    *)
(* makes a statement fail or a search depend on it.                          *)
EXTENDS Naturals, Sequences

CONSTANTS
  Proc,         \* processes that open the database: servers, cmd/backfill
  Page,         \* rows of pages
  Origins,      \* what an earlier release, or nobody, left behind
  Null,
  CutSchema,    \* may a first start be interrupted, or overlapped, half-way?
  MaxStops      \* bound on crashes, failing statements and row iterations cut short

ASSUME NullAssumption == Null \notin Proc
ASSUME BoundsAssumption == MaxStops \in Nat /\ CutSchema \in BOOLEAN

VARIABLES
  backend,    \* DatabaseConfig.Type
  objects,    \* what the database holds
  version,    \* PRAGMA user_version
  lock,       \* who holds pg_advisory_lock
  rows,       \* the pages stored; the next four are subsets of it
  unfilled,   \* domain is ''
  stateless,  \* snapshot_state is NULL
  pending,    \* snapshot_state is 'pending'
  mixed,      \* timestamps not in the fixed-width UTC format
  pc, seen,   \* of each process: the next statement, the version it has reached
  stmt,       \* statements of the initial script it has run
  todo,       \* rows its backfill still has to fill
  gap,        \* history: the backfills of SQLite that left rows out
  stops

dbVars == <<objects, version, rows, unfilled, stateless, pending, mixed>>
vars == <<backend, dbVars, lock, pc, seen, stmt, todo, gap, stops>>

Tables == {"pages", "resources", "page_resources", "page_shares",
           "page_share_resources", "favorites"}
Columns == {"domain", "snapshot_state", "is_quarantined", "quarantine_reason"}
Leftovers == {"hash_unique", "legacy_trgm", "fts_triggers", "pages_fts"}
Objects == Tables \union Columns \union Leftovers \union {"database", "pg_trgm", "search_trgm"}
Required == Tables \union Columns
Current == 8

TypeOK ==
  /\ backend \in {"sqlite", "postgres"}
  /\ objects \subseteq Objects
  /\ version \in 0..Current
  /\ lock \in Proc \union {Null}
  /\ rows \subseteq Page
  /\ unfilled \subseteq rows /\ stateless \subseteq rows
  /\ pending \subseteq rows /\ mixed \subseteq rows
  /\ pc \in [Proc -> {"down", "check", "script", "stamp", "version", "migrate",
                      "add_domain", "select_domain", "fill_domain", "add_state",
                      "add_reason", "share_links", "drop_fts", "set_version", "up",
                      "lookup", "create", "lock", "extension", "schema", "drop_unique",
                      "pg_domain", "pg_fill", "pg_state", "pg_ready", "pg_not_null",
                      "pg_quarantine", "pg_reason", "pg_shares", "pg_favorites",
                      "pg_search", "unlock"}]
  /\ seen \in [Proc -> 0..Current]
  /\ stmt \in [Proc -> 0..6]
  /\ todo \in [Proc -> SUBSET Page]
  /\ gap \in SUBSET {"domain", "timestamps"} /\ stops \in 0..MaxStops

-----------------------------------------------------------------------------
(* What a database may look like before this release opens it.               *)
Base == {"database", "pages", "resources", "page_resources"}
AtVersion(v) ==
  Base \union (IF v >= 1 THEN {"domain"} ELSE {})
       \union (IF v >= 2 THEN {"snapshot_state"} ELSE {})
       \union (IF v >= 5 THEN {"is_quarantined", "quarantine_reason"} ELSE {})
       \union (IF v >= 6 THEN {"page_shares", "page_share_resources"} ELSE {})
       \union (IF v >= 7 THEN {"favorites"} ELSE {})
       \union {"fts_triggers", "pages_fts"}

Old(b, o, v, old) == [backend |-> b, objects |-> o, version |-> v, old |-> old]

Origin(name) ==
  CASE name = "sqlite_new"      -> Old("sqlite", {"database"}, 0, FALSE)
    [] name = "sqlite_0"        -> Old("sqlite", AtVersion(0), 0, TRUE)
    [] name = "sqlite_0_domain" -> Old("sqlite", AtVersion(1), 0, TRUE)
    [] name = "sqlite_3"        -> Old("sqlite", AtVersion(3), 3, TRUE)
    [] name = "sqlite_6"        -> Old("sqlite", AtVersion(6), 6, FALSE)
    [] name = "postgres_none"   -> Old("postgres", {}, 0, FALSE)
    [] name = "postgres_0"      -> Old("postgres", Base \union {"hash_unique", "legacy_trgm"}, 0, FALSE)
    [] name = "postgres_domain" ->
         Old("postgres", Base \union {"domain", "hash_unique", "legacy_trgm"}, 0, FALSE)
    [] OTHER                    -> Old("postgres", {"database"}, 0, FALSE)

Init ==
  \E name \in Origins :
    LET o == Origin(name) IN
    /\ backend = o.backend /\ objects = o.objects /\ version = o.version
    /\ rows \in IF "pages" \in o.objects THEN SUBSET Page ELSE {{}}
    /\ unfilled \in IF o.backend = "postgres" /\ "domain" \in o.objects THEN SUBSET rows ELSE {{}}
    /\ mixed = IF o.old THEN rows ELSE {}
    /\ stateless = {} /\ pending = {}
    /\ lock = Null
    /\ pc = [p \in Proc |-> "down"]
    /\ seen = [p \in Proc |-> 0]
    /\ stmt = [p \in Proc |-> 0]
    /\ todo = [p \in Proc |-> {}]
    /\ gap = {} /\ stops = 0

Goto(p, label) == pc' = [pc EXCEPT ![p] = label]
At(p, label) == pc[p] = label
Keep == UNCHANGED <<backend, gap, stops>>
KeepRows == UNCHANGED <<rows, unfilled, stateless, pending, mixed>>
KeepLocal == UNCHANGED <<lock, seen, stmt, todo>>

\* A statement that only adds names to the schema.
Add(p, from, names, to) ==
  /\ At(p, from) /\ Goto(p, to)
  /\ objects' = objects \union names
  /\ Keep /\ KeepRows /\ KeepLocal /\ UNCHANGED version

\* Mutant: the deferred unlock is forgotten, and the session goes on.
GiveUpLocked(p) ==
  /\ Goto(p, "down")
  /\ seen' = [seen EXCEPT ![p] = 0]
  /\ stmt' = [stmt EXCEPT ![p] = 0]
  /\ todo' = [todo EXCEPT ![p] = {}]
  /\ UNCHANGED <<backend, lock, dbVars>>

\* An error is returned up to main, which exits; the connection goes with it.
GiveUp(p) ==
  /\ Goto(p, "down")
  /\ lock' = IF lock = p THEN Null ELSE lock
  /\ seen' = [seen EXCEPT ![p] = 0]
  /\ stmt' = [stmt EXCEPT ![p] = 0]
  /\ todo' = [todo EXCEPT ![p] = {}]
  /\ UNCHANGED <<backend, dbVars>>

Fails(p, from) == At(p, from) /\ GiveUp(p) /\ UNCHANGED <<gap, stops>>

-----------------------------------------------------------------------------
(* SQLite: NewSQLite, ensureSchema, ensureMigrations.                        *)

\* The statements of schema/init_sqlite.sql; each commits on its own.
Script == << {"pages", "domain", "snapshot_state"},
             {"resources", "is_quarantined", "quarantine_reason"}, {"page_resources"},
             {"page_shares"}, {"page_share_resources"}, {"favorites"} >>

OpenSqlite(p) ==
  /\ backend = "sqlite" /\ At(p, "down")
  /\ Goto(p, "check")
  /\ Keep /\ KeepLocal /\ UNCHANGED dbVars

CheckTables(p) ==
  /\ At(p, "check")
  /\ CutSchema \/ \A q \in Proc : pc[q] \notin {"script", "stamp"}
  /\ Goto(p, IF "pages" \in objects THEN "version" ELSE "script")
  /\ Keep /\ KeepLocal /\ UNCHANGED dbVars

RunScript(p) ==
  /\ At(p, "script")
  /\ objects' = objects \union Script[stmt[p] + 1]
  /\ stmt' = [stmt EXCEPT ![p] = @ + 1]
  /\ Goto(p, IF stmt[p] + 1 = Len(Script) THEN "stamp" ELSE "script")
  /\ Keep /\ KeepRows /\ UNCHANGED <<version, lock, seen, todo>>

\* setSQLiteUserVersion(sqliteMigrationVersionCurrent)
StampNew(p) ==
  /\ At(p, "stamp") /\ Goto(p, "version")
  /\ version' = Current
  /\ Keep /\ KeepRows /\ KeepLocal /\ UNCHANGED objects

ReadVersion(p) ==
  /\ At(p, "version") /\ Goto(p, "migrate")
  /\ seen' = [seen EXCEPT ![p] = version]
  /\ Keep /\ UNCHANGED <<lock, stmt, todo, dbVars>>

\* Mutant: the timestamp step records the version after the next one.
AfterTooFar(v) == IF v = 2 THEN 5 ELSE v + 1

\* The version a process records after the step that starts at v: the
\* timestamp step records 4 from 2 as well as from 3.
After(v) == IF v = 2 THEN 4 ELSE v + 1

SetVersion(p) ==
  /\ At(p, "set_version") /\ Goto(p, "migrate")
  /\ version' = After(seen[p])
  /\ seen' = [seen EXCEPT ![p] = After(@)]
  /\ Keep /\ KeepRows /\ UNCHANGED <<objects, lock, stmt, todo>>

Due(p, versions) == At(p, "migrate") /\ seen[p] \in versions

CheckColumn(p, v, column, missing) ==
  /\ Due(p, {v})
  /\ Goto(p, IF column \in objects THEN "set_version" ELSE missing)
  /\ Keep /\ KeepLocal /\ UNCHANGED dbVars

\* ALTER TABLE ADD COLUMN: an error when another process was faster.
AddDomain(p) ==
  \/ "domain" \in objects /\ Fails(p, "add_domain")
  \/ /\ "domain" \notin objects
     /\ At(p, "add_domain") /\ Goto(p, "select_domain")
     /\ objects' = objects \union {"domain"}
     /\ unfilled' = rows
     /\ Keep /\ KeepLocal /\ UNCHANGED <<version, rows, stateless, pending, mixed>>

SelectDomain(p) ==
  /\ At(p, "select_domain") /\ Goto(p, "fill_domain")
  /\ todo' = [todo EXCEPT ![p] = unfilled]
  /\ Keep /\ UNCHANGED <<lock, seen, stmt, dbVars>>

\* One UPDATE for each row the SELECT returned.
FillDomain(p) ==
  /\ At(p, "fill_domain")
  /\ IF todo[p] = {}
     THEN Goto(p, "set_version") /\ UNCHANGED <<todo, unfilled>>
     ELSE \E g \in todo[p] : /\ unfilled' = unfilled \ {g}
                             /\ todo' = [todo EXCEPT ![p] = @ \ {g}]
                             /\ UNCHANGED pc
  /\ Keep
  /\ UNCHANGED <<lock, seen, stmt, objects, version, rows, stateless, pending, mixed>>

\* DEFAULT 'ready' gives every old row its state.
AddState(p) ==
  \/ "snapshot_state" \in objects /\ Fails(p, "add_state")
  \/ "snapshot_state" \notin objects /\ Add(p, "add_state", {"snapshot_state"}, "set_version")

\* ensureNormalizedTimestamps: one transaction over pages and resources.
NormalizeTimestamps(p) ==
  /\ Due(p, {2, 3})
  /\ IF "resources" \notin objects
     THEN GiveUp(p) /\ UNCHANGED <<gap, stops>>
     ELSE /\ Goto(p, "set_version")
          /\ mixed' = {}
          /\ Keep /\ KeepLocal
          /\ UNCHANGED <<objects, version, rows, unfilled, stateless, pending>>

\* ensureResourceQuarantineColumns: a duplicate column is no error.
AddQuarantined(p) == Due(p, {4}) /\ Add(p, "migrate", {"is_quarantined"}, "add_reason")
AddReason(p) == Add(p, "add_reason", {"quarantine_reason"}, "set_version")

CreateShares(p) == Due(p, {5}) /\ Add(p, "migrate", {"page_shares"}, "share_links")
CreateShareLinks(p) == Add(p, "share_links", {"page_share_resources"}, "set_version")
CreateFavorites(p) == Due(p, {6}) /\ Add(p, "migrate", {"favorites"}, "set_version")

DropTriggers(p) ==
  /\ Due(p, {7}) /\ Goto(p, "drop_fts")
  /\ objects' = objects \ {"fts_triggers"}
  /\ Keep /\ KeepRows /\ KeepLocal /\ UNCHANGED version

\* A build without fts5 cannot drop the table and leaves it.
DropFTS(p) ==
  /\ At(p, "drop_fts") /\ Goto(p, "set_version")
  /\ objects' \in {objects, objects \ {"pages_fts"}}
  /\ Keep /\ KeepRows /\ KeepLocal /\ UNCHANGED version

Migrated(p) ==
  /\ Due(p, {Current}) /\ Goto(p, "up")
  /\ Keep /\ KeepLocal /\ UNCHANGED dbVars

SqliteStep(p) ==
  \/ OpenSqlite(p) \/ CheckTables(p) \/ RunScript(p) \/ StampNew(p)
  \/ ReadVersion(p) \/ SetVersion(p)
  \/ CheckColumn(p, 0, "domain", "add_domain")
  \/ AddDomain(p) \/ SelectDomain(p) \/ FillDomain(p)
  \/ CheckColumn(p, 1, "snapshot_state", "add_state") \/ AddState(p)
  \/ NormalizeTimestamps(p) \/ AddQuarantined(p) \/ AddReason(p)
  \/ CreateShares(p) \/ CreateShareLinks(p) \/ CreateFavorites(p)
  \/ DropTriggers(p) \/ DropFTS(p) \/ Migrated(p)

-----------------------------------------------------------------------------
(* PostgreSQL: NewPostgres and ensurePostgresMigrations.                     *)

\* The ping fails with 3D000 when the database does not exist.
Connect(p) ==
  /\ backend = "postgres" /\ At(p, "down")
  /\ Goto(p, IF "database" \in objects THEN "lock" ELSE "lookup")
  /\ Keep /\ KeepLocal /\ UNCHANGED dbVars

\* createDatabaseIfMissing, over a maintenance database; 42P04 is no error.
LookupDatabase(p) ==
  /\ At(p, "lookup")
  /\ Goto(p, IF "database" \in objects THEN "lock" ELSE "create")
  /\ Keep /\ KeepLocal /\ UNCHANGED dbVars
CreateDatabase(p) == Add(p, "create", {"database"}, "lock")

\* withPostgresMigrationLock
Lock(p) ==
  /\ At(p, "lock") /\ lock = Null /\ Goto(p, "extension")
  /\ lock' = p
  /\ Keep /\ UNCHANGED <<seen, stmt, todo, dbVars>>

\* CREATE EXTENSION pg_trgm may be refused.
Extension(p) ==
  \/ Add(p, "extension", {"pg_trgm"}, "schema")
  \/ Add(p, "extension", {}, "schema")

\* schema/init_postgres.sql runs as one transaction.  It indexes pages.domain,
\* which a table of an earlier release may not have.
PgCreated ==
  (Tables \ {"favorites"})
    \union (IF "pages" \in objects THEN {} ELSE {"domain", "snapshot_state"})
    \union (IF "resources" \in objects THEN {} ELSE {"is_quarantined", "quarantine_reason"})
PgSchema(p) ==
  \/ {"pages", "domain"} \intersect objects = {"pages"} /\ Fails(p, "schema")
  \/ {"pages", "domain"} \intersect objects # {"pages"} /\ Add(p, "schema", PgCreated, "drop_unique")

DropUnique(p) ==
  /\ At(p, "drop_unique") /\ Goto(p, "pg_domain")
  /\ objects' = objects \ {"hash_unique"}
  /\ Keep /\ KeepRows /\ KeepLocal /\ UNCHANGED version

PgAddDomain(p) == Add(p, "pg_domain", {"domain"}, "pg_fill")

\* Every start fills what is still empty.
PgFillDomain(p) ==
  /\ At(p, "pg_fill") /\ Goto(p, "pg_state")
  /\ unfilled' = {}
  /\ Keep /\ KeepLocal /\ UNCHANGED <<objects, version, rows, stateless, pending, mixed>>

PgAddState(p) ==
  /\ At(p, "pg_state") /\ Goto(p, "pg_ready")
  /\ objects' = objects \union {"snapshot_state"}
  /\ stateless' = IF "snapshot_state" \in objects THEN stateless ELSE rows
  /\ Keep /\ KeepLocal /\ UNCHANGED <<version, rows, unfilled, pending, mixed>>

\* Mutant: the UPDATE has no WHERE.
PgReadyAll(p) ==
  /\ At(p, "pg_ready") /\ Goto(p, "pg_not_null")
  /\ stateless' = {} /\ pending' = {}
  /\ Keep /\ KeepLocal /\ UNCHANGED <<objects, version, rows, unfilled, mixed>>

PgReady(p) ==
  /\ At(p, "pg_ready") /\ Goto(p, "pg_not_null")
  /\ stateless' = {}
  /\ Keep /\ KeepLocal /\ UNCHANGED <<objects, version, rows, unfilled, pending, mixed>>

\* SET DEFAULT 'pending' and SET NOT NULL, which needs every row to have a state.
PgNotNull(p) == stateless = {} /\ Add(p, "pg_not_null", {}, "pg_quarantine")

PgAddQuarantined(p) == Add(p, "pg_quarantine", {"is_quarantined"}, "pg_reason")
PgAddReason(p) == Add(p, "pg_reason", {"quarantine_reason"}, "pg_shares")
PgShares(p) == Add(p, "pg_shares", {"page_shares", "page_share_resources"}, "pg_favorites")

\* Mutant: the table is left to schema/init_postgres.sql, which has none.
PgNoFavorites(p) == Add(p, "pg_favorites", {}, "pg_search")
PgFavorites(p) == Add(p, "pg_favorites", {"favorites"}, "pg_search")

\* The old indexes go after the new one is there; failing to drop is no error.
PgSearch(p) ==
  /\ At(p, "pg_search") /\ Goto(p, "unlock")
  /\ IF "pg_trgm" \in objects
     THEN objects' \in {objects \union {"search_trgm"},
                        (objects \union {"search_trgm"}) \ {"legacy_trgm"}}
     ELSE UNCHANGED objects
  /\ Keep /\ KeepRows /\ KeepLocal /\ UNCHANGED version

Unlock(p) ==
  /\ At(p, "unlock") /\ Goto(p, "up")
  /\ lock' = Null
  /\ Keep /\ UNCHANGED <<seen, stmt, todo, dbVars>>

PgStep(p) ==
  \/ Connect(p) \/ LookupDatabase(p) \/ CreateDatabase(p)
  \/ Lock(p) \/ Extension(p) \/ PgSchema(p) \/ DropUnique(p)
  \/ PgAddDomain(p) \/ PgFillDomain(p) \/ PgAddState(p) \/ PgReady(p) \/ PgNotNull(p)
  \/ PgAddQuarantined(p) \/ PgAddReason(p) \/ PgShares(p) \/ PgFavorites(p)
  \/ PgSearch(p) \/ Unlock(p)

-----------------------------------------------------------------------------
\* A process that is up archives pages while another still upgrades.
CreatePage(p, g) ==
  /\ At(p, "up") /\ g \notin rows
  /\ rows' = rows \union {g} /\ pending' = pending \union {g}
  /\ Keep /\ KeepLocal
  /\ UNCHANGED <<objects, version, unfilled, stateless, mixed, pc>>

\* A crash, or a statement that fails for a reason of its own.
Stop(p) ==
  /\ ~At(p, "down") /\ stops < MaxStops
  /\ CutSchema \/ pc[p] \notin {"script", "stamp"}
  /\ stops' = stops + 1
  /\ gap' = IF pc[p] \in {"select_domain", "fill_domain"} THEN gap \union {"domain"} ELSE gap
  /\ GiveUp(p)

\* The iteration over the rows of a backfill ends with an error: rows.Next returns
\* FALSE and nothing asks rows.Err, so the step goes on as if it had seen every row.
IterationCut(p) ==
  /\ stops < MaxStops
  /\ \/ /\ At(p, "fill_domain") /\ todo[p] # {}
        /\ gap' = gap \union {"domain"}
        /\ UNCHANGED mixed
     \/ /\ Due(p, {2, 3}) /\ "resources" \in objects
        /\ mixed' \in (SUBSET mixed) \ {{}}
        /\ gap' = gap \union {"timestamps"}
  /\ Goto(p, "set_version")
  /\ stops' = stops + 1
  /\ KeepLocal
  /\ UNCHANGED <<backend, objects, version, rows, unfilled, stateless, pending>>

Step(p) == SqliteStep(p) \/ PgStep(p)

Next ==
  \E p \in Proc : \/ Step(p)
                  \/ \E g \in Page : CreatePage(p, g)
                  \/ Stop(p) \/ IterationCut(p)

Spec == Init /\ [][Next]_vars

\* The statements answer, and the container is restarted when it exits.
FairSpec == Spec /\ \A p \in Proc : WF_vars(Step(p))

-----------------------------------------------------------------------------
Up == {p \in Proc : At(p, "up")}

\* What the recorded version promises is there, at every moment: a crash
\* between a step and its version, or another process that records a lower
\* version, only makes a later start repeat steps (sqlite.go ensureMigrations).
\* Only timestamps that an iteration without rows.Err left out stay mixed.
VersionHonest ==
  /\ version >= 1 => "domain" \in objects
  /\ version >= 2 => "snapshot_state" \in objects
  /\ version >= 4 => mixed = {} \/ "timestamps" \in gap
  /\ version >= 5 => {"is_quarantined", "quarantine_reason"} \subseteq objects
  /\ version >= 6 => {"page_shares", "page_share_resources"} \subseteq objects
  /\ version >= 7 => "favorites" \in objects
  /\ version >= 8 => "fts_triggers" \notin objects

\* A process that serves requests has every table and column its queries
\* name, and no trigger of the dropped index.  "ensureSchema" promises it; a
\* first start of SQLite that is cut short breaks it (CutSchema).
UpMeansComplete == Up # {} => Required \subseteq objects /\ "fts_triggers" \notin objects

\* Domain search sees every page: once a process serves and none is filling,
\* no stored page is without its domain, whoever archived or upgraded it, if
\* the backfill of SQLite left no row out (ensureDomainColumn never resumes).
DomainFilled ==
  Up # {} /\ "domain" \notin gap /\ (\A p \in Proc : pc[p] \notin {"select_domain", "fill_domain"})
    => unfilled = {}

\* PostgreSQL: the statements of two upgrades never interleave, also when a
\* process dies with the lock or gives up in the middle of its own.
Upgrading == {p \in Proc : pc[p] \in {"extension", "schema", "drop_unique", "pg_domain", "pg_fill",
  "pg_state", "pg_ready", "pg_not_null", "pg_quarantine", "pg_reason", "pg_shares",
  "pg_favorites", "pg_search", "unlock"}}
OneUpgradeAtATime == Upgrading \subseteq {lock}

\* What holds between any two statements of any two processes: the types, what the
\* version promises, that domain search is complete, and that upgrades exclude.
Inv == TypeOK /\ VersionHonest /\ DomainFilled /\ OneUpgradeAtATime

\* The upgrade of one process never touches the snapshot state of a page
\* another process has just created: it stays pending for its finalize.
PendingSurvives == [][pending \subseteq pending']_vars

\* The initial script of PostgreSQL indexes a column this table does not have
\* yet, and fails at every start.
NotUpgradable == backend = "postgres" /\ "pages" \in objects /\ "domain" \notin objects

\* After the last crash every process gets to serve, from whatever the
\* earlier ones left in the database, unless it cannot be upgraded at all.
Healed == <>[]((\A p \in Proc : At(p, "up")) \/ NotUpgradable)
=============================================================================
