------------------------ MODULE SchemaUpgradeProofs -----------------------
(* The schema upgrade for any number of processes, pages, crashes and        *)
(* failing statements, over every database an earlier release may have left. *)
EXTENDS SchemaUpgrade, TLAPS

NoTriggers == "fts_triggers" \notin objects

\* What version v promises.
Promised(v) ==
  /\ v >= 1 => "domain" \in objects
  /\ v >= 2 => "snapshot_state" \in objects
  /\ v >= 4 => mixed = {} \/ "timestamps" \in gap
  /\ v >= 5 => "is_quarantined" \in objects /\ "quarantine_reason" \in objects
  /\ v >= 6 => "page_shares" \in objects /\ "page_share_resources" \in objects
  /\ v >= 7 => "favorites" \in objects
  /\ v >= 8 => NoTriggers

\* What the statements a process has run of the initial script left.
Scripted(p) ==
  /\ stmt[p] >= 1 => "domain" \in objects /\ "snapshot_state" \in objects
  /\ stmt[p] >= 2 => "is_quarantined" \in objects /\ "quarantine_reason" \in objects
  /\ stmt[p] >= 4 => "page_shares" \in objects
  /\ stmt[p] >= 5 => "page_share_resources" \in objects
  /\ stmt[p] >= 6 => "favorites" \in objects
  /\ mixed = {} /\ NoTriggers

SqliteLabels == {"check", "script", "stamp", "version", "migrate", "add_domain",
  "select_domain", "fill_domain", "add_state", "add_reason", "share_links", "drop_fts",
  "set_version"}

\* What a process relies on at each of its statements in SQLite.
SqliteFacts(p) ==
  /\ pc[p] \in {"down", "check"} => stmt[p] = 0
  /\ pc[p] \in SqliteLabels => backend = "sqlite"
  /\ pc[p] = "script" => stmt[p] <= 5 /\ Scripted(p)
  /\ pc[p] = "stamp" => Promised(Current)
  /\ pc[p] = "migrate" => Promised(seen[p])
  /\ pc[p] \in {"add_domain", "select_domain", "fill_domain"} => seen[p] = 0
  /\ pc[p] \in {"select_domain", "fill_domain"} => "domain" \in objects
  /\ pc[p] = "add_state" => seen[p] = 1 /\ Promised(1)
  /\ pc[p] = "add_reason" => seen[p] = 4 /\ Promised(4) /\ "is_quarantined" \in objects
  /\ pc[p] = "share_links" => seen[p] = 5 /\ Promised(5) /\ "page_shares" \in objects
  /\ pc[p] = "drop_fts" => seen[p] = 7 /\ Promised(Current)
  /\ pc[p] = "set_version" => seen[p] <= 7 /\ Promised(After(seen[p]))

AfterSchema == {"drop_unique", "pg_domain", "pg_fill", "pg_state", "pg_ready", "pg_not_null",
                "pg_quarantine", "pg_reason", "pg_shares", "pg_favorites", "pg_search", "unlock"}
AfterFill == {"pg_state", "pg_ready", "pg_not_null", "pg_quarantine", "pg_reason", "pg_shares",
              "pg_favorites", "pg_search", "unlock"}
AfterShares == {"pg_favorites", "pg_search", "unlock"}
PgLabels == AfterSchema \union {"lookup", "create", "lock", "extension", "schema"}

\* ... and in PostgreSQL, where a process holds the lock from "extension" on.
PgFacts(p) ==
  /\ pc[p] \in PgLabels => backend = "postgres"
  /\ pc[p] \in AfterSchema \union {"extension", "schema"} => lock = p
  /\ pc[p] \in AfterSchema =>
       "pages" \in objects /\ "resources" \in objects /\ "page_resources" \in objects
  /\ pc[p] \in AfterFill \union {"pg_fill"} => "domain" \in objects
  /\ pc[p] \in AfterFill => unfilled = {}
  /\ pc[p] \in AfterFill \ {"pg_state"} => "snapshot_state" \in objects
  /\ pc[p] \in AfterShares \union {"pg_reason", "pg_shares"} => "is_quarantined" \in objects
  /\ pc[p] \in AfterShares \union {"pg_shares"} => "quarantine_reason" \in objects
  /\ pc[p] \in AfterShares => "page_shares" \in objects /\ "page_share_resources" \in objects
  /\ pc[p] \in {"pg_search", "unlock"} => "favorites" \in objects

\* A process that serves relies on all of it.
UpFacts(p) ==
  pc[p] = "up" => Promised(Current) /\ (backend = "postgres" => unfilled = {})

Facts(p) == SqliteFacts(p) /\ PgFacts(p) /\ UpFacts(p)

\* The database itself.  A database without pages is new.
DatabaseFacts ==
  /\ "pages" \notin objects => mixed = {} /\ NoTriggers
  /\ backend = "postgres" => mixed = {} /\ NoTriggers
  /\ Promised(version)

\* Only one process ever adds the domain column to SQLite, and what is
\* unfilled then is what that process still has to fill.
Filling(p) == pc[p] \in {"select_domain", "fill_domain"}
FillFacts ==
  /\ \A p, q \in Proc : Filling(p) /\ Filling(q) => p = q
  /\ \A p \in Proc : "domain" \notin gap /\ pc[p] = "fill_domain" => todo[p] = unfilled
  /\ backend = "sqlite" /\ "domain" \notin objects => unfilled = {}
  /\ backend = "sqlite" /\ "domain" \notin gap /\ "domain" \in objects =>
       unfilled = {} \/ \E p \in Proc : Filling(p)

\* The tables of the first release, which no migration creates: only the first
\* start does, alone and to its end when CutSchema is FALSE.
Basic == "pages" \in objects /\ "resources" \in objects /\ "page_resources" \in objects
Starting(p) == pc[p] \in {"script", "stamp"}
Opened(p) == pc[p] \in {"version", "migrate", "add_domain", "select_domain", "fill_domain",
  "add_state", "add_reason", "share_links", "drop_fts", "set_version", "up"}
StartFacts ==
  /\ "pages" \in objects => Basic \/ \E p \in Proc : Starting(p)
  /\ \A p \in Proc : Opened(p) => Basic
  /\ \A p, q \in Proc : Starting(p) /\ p # q => pc[q] \in {"down", "check"}
  /\ \A p \in Proc : pc[p] = "script" =>
       /\ stmt[p] >= 1 => "pages" \in objects
       /\ stmt[p] >= 2 => "resources" \in objects
       /\ stmt[p] >= 3 => "page_resources" \in objects
  /\ \A p \in Proc : pc[p] = "stamp" => Basic

IInv ==
  /\ TypeOK
  /\ \A p \in Proc : Facts(p)
  /\ DatabaseFacts /\ FillFacts
  /\ ~CutSchema => StartFacts

-----------------------------------------------------------------------------
\* The names the statements add.
LEMMA Names ==
  \A name \in {"database", "pages", "resources", "page_resources", "page_shares",
               "page_share_resources", "favorites", "domain", "snapshot_state",
               "is_quarantined", "quarantine_reason", "pg_trgm", "search_trgm"} :
    name \in Objects
  BY DEF Objects, Tables, Columns

LEMMA ScriptIs ==
  /\ Len(Script) = 6
  /\ Script[1] = {"pages", "domain", "snapshot_state"}
  /\ Script[2] = {"resources", "is_quarantined", "quarantine_reason"}
  /\ Script[3] = {"page_resources"} /\ Script[4] = {"page_shares"}
  /\ Script[5] = {"page_share_resources"} /\ Script[6] = {"favorites"}
  BY DEF Script

LEMMA ScriptTyped ==
  ASSUME NEW i \in 0..5
  PROVE  Script[i + 1] \subseteq Objects
<1>1. i \in {0, 1, 2, 3, 4, 5}
  OBVIOUS
<1>2. /\ Script[1] \subseteq Objects /\ Script[2] \subseteq Objects /\ Script[3] \subseteq Objects
      /\ Script[4] \subseteq Objects /\ Script[5] \subseteq Objects /\ Script[6] \subseteq Objects
  BY ScriptIs, Names
<1> QED
  BY <1>1, <1>2

-----------------------------------------------------------------------------
(* The initial states.                                                       *)

LEMMA InitIInv == Init => IInv
<1> SUFFICES ASSUME Init PROVE IInv
  OBVIOUS
<1>1. PICK name \in Origins :
        LET o == Origin(name) IN
        /\ backend = o.backend /\ objects = o.objects /\ version = o.version
        /\ rows \in IF "pages" \in o.objects THEN SUBSET Page ELSE {{}}
        /\ unfilled \in IF o.backend = "postgres" /\ "domain" \in o.objects THEN SUBSET rows ELSE {{}}
        /\ mixed = IF o.old THEN rows ELSE {}
  BY DEF Init
<1>2. /\ Origin(name).objects \subseteq Objects
      /\ Origin(name).version \in {0, 3, 6}
      /\ Origin(name).backend \in {"sqlite", "postgres"}
      /\ Origin(name).backend = "postgres" =>
           ~Origin(name).old /\ "fts_triggers" \notin Origin(name).objects
      /\ Origin(name).version >= 3 =>
           "domain" \in Origin(name).objects /\ "snapshot_state" \in Origin(name).objects
      /\ Origin(name).version = 6 =>
           /\ ~Origin(name).old
           /\ {"is_quarantined", "quarantine_reason", "page_shares", "page_share_resources"}
                \subseteq Origin(name).objects
      /\ "pages" \notin Origin(name).objects => "fts_triggers" \notin Origin(name).objects
      /\ "pages" \in Origin(name).objects =>
           "resources" \in Origin(name).objects /\ "page_resources" \in Origin(name).objects
  BY SMTT(40) DEF Origin, Old, AtVersion, Base, Objects, Tables, Columns, Leftovers
<1>3. TypeOK
  <2>1. objects \subseteq Objects /\ version \in 0..8 /\ backend \in {"sqlite", "postgres"}
    BY <1>1, <1>2
  <2>2. rows \subseteq Page /\ unfilled \subseteq rows /\ mixed \subseteq rows
    BY <1>1
  <2>3. pending = {} /\ stateless = {} /\ lock = Null /\ gap = {} /\ stops = 0
    BY DEF Init
  <2>4. /\ pc = [p \in Proc |-> "down"] /\ seen = [p \in Proc |-> 0]
        /\ stmt = [p \in Proc |-> 0] /\ todo = [p \in Proc |-> {}]
    BY DEF Init
  <2>5. seen \in [Proc -> 0..8] /\ stmt \in [Proc -> 0..6] /\ todo \in [Proc -> SUBSET Page]
    BY <2>4
  <2>6. lock \in Proc \union {Null} /\ stops \in 0..MaxStops
    BY <2>3, BoundsAssumption
  <2>8. gap \in SUBSET {"domain", "timestamps"}
    BY <2>3
  <2>7. stateless \subseteq rows /\ pending \subseteq rows
    BY <2>3
  <2> QED
    BY <2>1, <2>2, <2>4, <2>5, <2>6, <2>7, <2>8 DEF TypeOK, Current
<1>4. \A p \in Proc : Facts(p)
  BY DEF Init, Facts, SqliteFacts, PgFacts, UpFacts, SqliteLabels, PgLabels, AfterSchema,
         AfterFill, AfterShares
<1>5. DatabaseFacts
  BY <1>1, <1>2, SMTT(40) DEF DatabaseFacts, Promised, NoTriggers
<1>6. FillFacts
  BY <1>1, <1>2, SMTT(40) DEF Init, FillFacts, Filling
<1>7. StartFacts
  BY <1>1, <1>2, SMTT(40) DEF Init, StartFacts, Starting, Opened, Basic
<1> QED
  BY <1>3, <1>4, <1>5, <1>6, <1>7 DEF IInv

-----------------------------------------------------------------------------
(* The steps.                                                                *)

\* Giving up anywhere but in the backfill or in the first start leaves nothing
\* another process relies on.
LEMMA GiveUpKeeps ==
  ASSUME IInv, NEW p \in Proc, GiveUp(p), UNCHANGED <<gap, stops>>, ~Filling(p), ~Starting(p)
  PROVE  IInv'
<1> USE NullAssumption, BoundsAssumption, Names
    DEF IInv, TypeOK, Facts, SqliteFacts, PgFacts, UpFacts, DatabaseFacts, FillFacts, StartFacts,
      Promised, NoTriggers, Scripted, Basic, Starting, Opened, Filling, SqliteLabels,
      AfterSchema, AfterFill, AfterShares, PgLabels, Tables, Current,
      Add, GiveUp, Fails, Goto, At, Due, After, Keep, KeepRows, KeepLocal, dbVars
<1>1. TypeOK'
  BY SMTT(40)
<1>2. \A q \in Proc : Facts(q)'
  BY SMTT(40)
<1>3. DatabaseFacts' /\ FillFacts'
  BY SMTT(40)
<1>4. ~CutSchema => StartFacts'
  BY SMTT(40)
<1> QED
  BY <1>1, <1>2, <1>3, <1>4

\* SQLite.
LEMMA SqliteKeeps ==
  ASSUME IInv, NEW p \in Proc, SqliteStep(p)
  PROVE  IInv'
<1> USE NullAssumption, BoundsAssumption, Names
    DEF IInv, TypeOK, Facts, SqliteFacts, PgFacts, UpFacts, DatabaseFacts, FillFacts, StartFacts,
      Promised, NoTriggers, Scripted, Basic, Starting, Opened, Filling, SqliteLabels,
      AfterSchema, AfterFill, AfterShares, PgLabels, Tables, Current,
      Add, GiveUp, Fails, Goto, At, Due, After, Keep, KeepRows, KeepLocal, dbVars
<1>1. CASE OpenSqlite(p)
  BY <1>1, SMTT(40) DEF OpenSqlite
<1>2. CASE CheckTables(p)
  BY <1>2, SMTT(40) DEF CheckTables
<1>3. CASE RunScript(p)
  <2>1. stmt[p] \in 0..5
    BY <1>3 DEF RunScript
  <2>2. objects' \subseteq Objects
    BY <1>3, <2>1, ScriptTyped DEF RunScript
  <2>3. TypeOK'
    BY <1>3, <2>1, <2>2, ScriptIs, SMTT(40) DEF RunScript
  <2>4. \A q \in Proc : Facts(q)'
    BY <1>3, <2>1, ScriptIs, SMTT(40) DEF RunScript
  <2>5. DatabaseFacts' /\ FillFacts'
    BY <1>3, <2>1, ScriptIs, SMTT(40) DEF RunScript
  <2>6. ~CutSchema => StartFacts'
    BY <1>3, <2>1, ScriptIs, SMTT(40) DEF RunScript
  <2> QED
    BY <2>3, <2>4, <2>5, <2>6
<1>4. CASE StampNew(p)
  BY <1>4, SMTT(40) DEF StampNew
<1>5. CASE ReadVersion(p)
  BY <1>5, SMTT(40) DEF ReadVersion
<1>6. CASE SetVersion(p)
  BY <1>6, SMTT(40) DEF SetVersion
<1>7. CASE CheckColumn(p, 0, "domain", "add_domain")
  BY <1>7, SMTT(40) DEF CheckColumn
<1>8. CASE AddDomain(p)
  <2>1. CASE "domain" \in objects
    BY <1>8, <2>1, GiveUpKeeps DEF AddDomain
  <2>2. CASE "domain" \notin objects
    <3>1. TypeOK'
      <4>1. UNCHANGED <<backend, gap, stops, lock, seen, stmt, todo, version, rows, stateless, pending, mixed>>
        BY <1>8, <2>2, Zenon DEF AddDomain
      <4>2. objects' \subseteq Objects /\ unfilled' \subseteq rows
        BY <1>8, <2>2 DEF AddDomain
      <4>3. pc' = [pc EXCEPT ![p] = "select_domain"]
        BY <1>8, <2>2, Zenon DEF AddDomain
      <4> HIDE DEF Add, Goto, At, Keep, KeepRows, KeepLocal
      <4> QED BY <4>1, <4>2, <4>3
    <3>2. \A q \in Proc : Facts(q)'
      BY <1>8, <2>2, SMTT(40) DEF AddDomain
    <3>3. DatabaseFacts'
      BY <1>8, <2>2, SMTT(40) DEF AddDomain
    <3>4. FillFacts'
      BY <1>8, <2>2, SMTT(40) DEF AddDomain
    <3>5. ~CutSchema => StartFacts'
      BY <1>8, <2>2, SMTT(40) DEF AddDomain
    <3> HIDE DEF TypeOK, Facts, DatabaseFacts, FillFacts, StartFacts
    <3> QED
      BY <3>1, <3>2, <3>3, <3>4, <3>5
  <2> QED
    BY <1>8, <2>1, <2>2
<1>9. CASE SelectDomain(p)
  BY <1>9, SMTT(40) DEF SelectDomain
<1>10. CASE FillDomain(p)
  BY <1>10, SMTT(40) DEF FillDomain
<1>11. CASE CheckColumn(p, 1, "snapshot_state", "add_state")
  BY <1>11, SMTT(40) DEF CheckColumn
<1>12. CASE AddState(p)
  <2>1. CASE "snapshot_state" \in objects
    BY <1>12, <2>1, GiveUpKeeps DEF AddState
  <2>2. CASE "snapshot_state" \notin objects
    <3>1. TypeOK'
      <4>1. UNCHANGED <<backend, gap, stops, lock, seen, stmt, todo, version, rows, unfilled, stateless, pending, mixed>>
        BY <1>12, <2>2, Zenon DEF AddState
      <4>2. objects' \subseteq Objects
        BY <1>12, <2>2 DEF AddState
      <4>3. pc' = [pc EXCEPT ![p] = "set_version"]
        BY <1>12, <2>2, Zenon DEF AddState
      <4> HIDE DEF Add, Goto, At, Keep, KeepRows, KeepLocal
      <4> QED BY <4>1, <4>2, <4>3
    <3>2. \A q \in Proc : Facts(q)'
      BY <1>12, <2>2, SMTT(40) DEF AddState
    <3>3. DatabaseFacts'
      BY <1>12, <2>2, SMTT(40) DEF AddState
    <3>4. FillFacts'
      BY <1>12, <2>2, SMTT(40) DEF AddState
    <3>5. ~CutSchema => StartFacts'
      BY <1>12, <2>2, SMTT(40) DEF AddState
    <3> HIDE DEF TypeOK, Facts, DatabaseFacts, FillFacts, StartFacts
    <3> QED
      BY <3>1, <3>2, <3>3, <3>4, <3>5
  <2> QED
    BY <1>12, <2>1, <2>2
<1>13. CASE NormalizeTimestamps(p)
  <2>1. CASE "resources" \notin objects
    BY <1>13, <2>1, GiveUpKeeps DEF NormalizeTimestamps
  <2>2. CASE "resources" \in objects
    <3>1. TypeOK'
      <4>1. UNCHANGED <<backend, gap, stops, lock, seen, stmt, todo, objects, version, rows, unfilled, stateless, pending>>
        BY <1>13, <2>2, Zenon DEF NormalizeTimestamps
      <4>2. mixed' \subseteq rows
        BY <1>13, <2>2 DEF NormalizeTimestamps
      <4>3. pc' = [pc EXCEPT ![p] = "set_version"]
        BY <1>13, <2>2, Zenon DEF NormalizeTimestamps
      <4> HIDE DEF Add, Goto, At, Keep, KeepRows, KeepLocal
      <4> QED BY <4>1, <4>2, <4>3
    <3>2. \A q \in Proc : Facts(q)'
      BY <1>13, <2>2, SMTT(40) DEF NormalizeTimestamps
    <3>3. DatabaseFacts'
      BY <1>13, <2>2, SMTT(40) DEF NormalizeTimestamps
    <3>4. FillFacts'
      BY <1>13, <2>2, SMTT(40) DEF NormalizeTimestamps
    <3>5. ~CutSchema => StartFacts'
      BY <1>13, <2>2, SMTT(40) DEF NormalizeTimestamps
    <3> HIDE DEF TypeOK, Facts, DatabaseFacts, FillFacts, StartFacts
    <3> QED
      BY <3>1, <3>2, <3>3, <3>4, <3>5
  <2> QED
    BY <1>13, <2>1, <2>2
<1>14. CASE AddQuarantined(p)
  BY <1>14, SMTT(40) DEF AddQuarantined
<1>15. CASE AddReason(p)
  BY <1>15, SMTT(40) DEF AddReason
<1>16. CASE CreateShares(p)
  BY <1>16, SMTT(40) DEF CreateShares
<1>17. CASE CreateShareLinks(p)
  BY <1>17, SMTT(40) DEF CreateShareLinks
<1>18. CASE CreateFavorites(p)
  BY <1>18, SMTT(40) DEF CreateFavorites
<1>19. CASE DropTriggers(p)
  BY <1>19, SMTT(40) DEF DropTriggers
<1>20. CASE DropFTS(p)
  BY <1>20, SMTT(40) DEF DropFTS
<1>21. CASE Migrated(p)
  BY <1>21, SMTT(40) DEF Migrated
<1> QED
  BY <1>1, <1>2, <1>3, <1>4, <1>5, <1>6, <1>7, <1>8, <1>9, <1>10, <1>11, <1>12,
     <1>13, <1>14, <1>15, <1>16, <1>17, <1>18, <1>19, <1>20, <1>21 DEF SqliteStep

\* PostgreSQL.
LEMMA PgKeeps ==
  ASSUME IInv, NEW p \in Proc, PgStep(p)
  PROVE  IInv'
<1> USE NullAssumption, BoundsAssumption, Names
    DEF IInv, TypeOK, Facts, SqliteFacts, PgFacts, UpFacts, DatabaseFacts, FillFacts, StartFacts,
      Promised, NoTriggers, Scripted, Basic, Starting, Opened, Filling, SqliteLabels,
      AfterSchema, AfterFill, AfterShares, PgLabels, Tables, Current,
      Add, GiveUp, Fails, Goto, At, Due, After, Keep, KeepRows, KeepLocal, dbVars
<1>1. CASE Connect(p)
  BY <1>1, SMTT(40) DEF Connect
<1>2. CASE LookupDatabase(p)
  BY <1>2, SMTT(40) DEF LookupDatabase
<1>3. CASE CreateDatabase(p)
  BY <1>3, SMTT(40) DEF CreateDatabase
<1>4. CASE Lock(p)
  BY <1>4, SMTT(40) DEF Lock
<1>5. CASE Extension(p)
  <2>1. CASE Add(p, "extension", {"pg_trgm"}, "schema")
    BY <1>5, <2>1, SMTT(40) DEF Extension
  <2>2. CASE Add(p, "extension", {}, "schema")
    BY <1>5, <2>2, SMTT(40) DEF Extension
  <2> QED
    BY <1>5, <2>1, <2>2 DEF Extension
<1>6. CASE PgSchema(p)
  <2>1. CASE Fails(p, "schema")
    BY <1>6, <2>1, GiveUpKeeps
  <2>2. CASE Add(p, "schema", PgCreated, "drop_unique")
    BY <2>2, SMTT(40) DEF PgCreated
  <2> QED
    BY <1>6, <2>1, <2>2 DEF PgSchema
<1>7. CASE DropUnique(p)
  BY <1>7, SMTT(40) DEF DropUnique
<1>8. CASE PgAddDomain(p)
  BY <1>8, SMTT(40) DEF PgAddDomain
<1>9. CASE PgFillDomain(p)
  BY <1>9, SMTT(40) DEF PgFillDomain
<1>10. CASE PgAddState(p)
  BY <1>10, SMTT(40) DEF PgAddState
<1>11. CASE PgReady(p)
  BY <1>11, SMTT(40) DEF PgReady
<1>12. CASE PgNotNull(p)
  BY <1>12, SMTT(40) DEF PgNotNull
<1>13. CASE PgAddQuarantined(p)
  BY <1>13, SMTT(40) DEF PgAddQuarantined
<1>14. CASE PgAddReason(p)
  BY <1>14, SMTT(40) DEF PgAddReason
<1>15. CASE PgShares(p)
  BY <1>15, SMTT(40) DEF PgShares
<1>16. CASE PgFavorites(p)
  BY <1>16, SMTT(40) DEF PgFavorites
<1>17. CASE PgSearch(p)
  <2>1. CASE "pg_trgm" \in objects
    BY <1>17, <2>1, SMTT(40) DEF PgSearch
  <2>2. CASE "pg_trgm" \notin objects
    BY <1>17, <2>2, SMTT(40) DEF PgSearch
  <2> QED
    BY <1>17, <2>1, <2>2
<1>18. CASE Unlock(p)
  BY <1>18, SMTT(40) DEF Unlock
<1> QED
  BY <1>1, <1>2, <1>3, <1>4, <1>5, <1>6, <1>7, <1>8, <1>9, <1>10, <1>11, <1>12,
     <1>13, <1>14, <1>15, <1>16, <1>17, <1>18 DEF PgStep

\* A page archived by a process that serves.
LEMMA CreatePageKeeps ==
  ASSUME IInv, NEW p \in Proc, NEW g \in Page, CreatePage(p, g)
  PROVE  IInv'
<1> USE NullAssumption, BoundsAssumption, Names
    DEF IInv, TypeOK, Facts, SqliteFacts, PgFacts, UpFacts, DatabaseFacts, FillFacts, StartFacts,
      Promised, NoTriggers, Scripted, Basic, Starting, Opened, Filling, SqliteLabels,
      AfterSchema, AfterFill, AfterShares, PgLabels, Tables, Current,
      Add, GiveUp, Fails, Goto, At, Due, After, Keep, KeepRows, KeepLocal, dbVars
<1> QED
  BY SMTT(40) DEF CreatePage

\* A backfill of SQLite that is cut short is remembered.
LEMMA StopRemembers ==
  ASSUME NEW p \in Proc, Stop(p), Filling(p)
  PROVE  "domain" \in gap'
  BY DEF Stop, Filling

\* A crash: in the backfill of SQLite it is remembered, in the first start it is
\* ruled out unless CutSchema.
LEMMA StopKeeps ==
  ASSUME IInv, NEW p \in Proc, Stop(p)
  PROVE  IInv'
<1> USE NullAssumption, BoundsAssumption, Names
    DEF IInv, TypeOK, Facts, SqliteFacts, PgFacts, UpFacts, DatabaseFacts, FillFacts, StartFacts,
      Promised, NoTriggers, Scripted, Basic, Starting, Opened, Filling, SqliteLabels,
      AfterSchema, AfterFill, AfterShares, PgLabels, Tables, Current,
      Add, GiveUp, Fails, Goto, At, Due, After, Keep, KeepRows, KeepLocal, dbVars
<1> USE DEF Stop
<1>1. TypeOK'
  BY SMTT(40)
<1>2. \A q \in Proc : Facts(q)'
  BY SMTT(40)
<1>3. DatabaseFacts' /\ FillFacts'
  <2>1. CASE Filling(p)
    <3>1. "domain" \in gap'
      BY <2>1, StopRemembers
    <3>2. \A q \in Proc : Filling(q)' => Filling(q)
      BY <2>1, SMTT(40)
    <3>3. DatabaseFacts'
      BY <2>1, SMTT(40)
    <3> QED
      BY <3>1, <3>2, <3>3, SMTT(40)
  <2>2. CASE ~Filling(p)
    <3>1. gap' = gap /\ unfilled' = unfilled /\ backend' = backend /\ objects' = objects
      BY <2>2, SMTT(40)
    <3>2. \A q \in Proc : Filling(q)' <=> Filling(q)
      BY <2>2, SMTT(40)
    <3>3. \A q \in Proc : pc'[q] = "fill_domain" => pc[q] = "fill_domain" /\ todo'[q] = todo[q]
      BY <2>2, SMTT(40)
    <3> QED
      BY <3>1, <3>2, <3>3, SMTT(40)
  <2> QED
    BY <2>1, <2>2
<1>4. ~CutSchema => StartFacts'
  BY SMTT(40)
<1> QED
  BY <1>1, <1>2, <1>3, <1>4

\* An iteration that ends early is remembered with its backfill.
LEMMA IterationCutKeeps ==
  ASSUME IInv, NEW p \in Proc, IterationCut(p)
  PROVE  IInv'
<1> USE NullAssumption, BoundsAssumption, Names
    DEF IInv, TypeOK, Facts, SqliteFacts, PgFacts, UpFacts, DatabaseFacts, FillFacts, StartFacts,
      Promised, NoTriggers, Scripted, Basic, Starting, Opened, Filling, SqliteLabels,
      AfterSchema, AfterFill, AfterShares, PgLabels, Tables, Current,
      Goto, At, Due, After, KeepLocal
<1>1. CASE At(p, "fill_domain")
  <2>1. /\ "domain" \in gap' /\ gap \subseteq gap' /\ gap' \in SUBSET {"domain", "timestamps"}
        /\ mixed' = mixed /\ pc' = [pc EXCEPT ![p] = "set_version"]
        /\ stops' \in 0 .. MaxStops
    <3>1. pc[p] # "migrate"
      BY <1>1
    <3>2. gap' = gap \union {"domain"} /\ mixed' = mixed
      BY <3>1, Zenon DEF IterationCut
    <3>3. pc' = [pc EXCEPT ![p] = "set_version"] /\ stops' = stops + 1 /\ stops < MaxStops
      BY Zenon DEF IterationCut
    <3>4. stops' \in 0 .. MaxStops
      BY <3>3
    <3> QED
      BY <3>2, <3>3, <3>4
  <2>2. UNCHANGED <<backend, objects, version, rows, unfilled, stateless, pending,
                    lock, seen, stmt, todo>>
    BY DEF IterationCut
  <2> QED
    BY <1>1, <2>1, <2>2, SMTT(40)
<1>2. CASE ~At(p, "fill_domain")
  <2>1. /\ "timestamps" \in gap' /\ gap \subseteq gap' /\ gap' \subseteq gap \union {"timestamps"}
        /\ mixed' \subseteq mixed /\ pc' = [pc EXCEPT ![p] = "set_version"]
        /\ stops' \in 0 .. MaxStops /\ pc[p] = "migrate" /\ seen[p] \in {2, 3}
    BY <1>2, SMTT(40) DEF IterationCut
  <2>2. UNCHANGED <<backend, objects, version, rows, unfilled, stateless, pending,
                    lock, seen, stmt, todo>>
    BY DEF IterationCut
  <2> QED
    BY <1>2, <2>1, <2>2, SMTT(40)
<1> QED
  BY <1>1, <1>2

-----------------------------------------------------------------------------
(* Theorems.                                                                 *)

\* The inductive invariant: what every process may rely on at each statement
\* of its upgrade (ensureMigrations, ensurePostgresMigrations), however many
\* processes open the database and wherever they stop.
THEOREM Invariance == Spec => []IInv
<1>1. Init => IInv
  BY InitIInv
<1>2. IInv /\ [Next]_vars => IInv'
  <2> SUFFICES ASSUME IInv, [Next]_vars PROVE IInv'
    OBVIOUS
  <2>1. CASE UNCHANGED vars
    BY <2>1 DEF vars, dbVars, IInv, TypeOK, Facts, SqliteFacts, PgFacts, UpFacts, DatabaseFacts,
                FillFacts, StartFacts, Promised, NoTriggers, Scripted, Basic, Starting, Opened,
                Filling
  <2>2. CASE Next
    BY <2>2, SqliteKeeps, PgKeeps, CreatePageKeeps, StopKeeps, IterationCutKeeps DEF Next, Step
  <2> QED
    BY <2>1, <2>2
<1> QED
  BY <1>1, <1>2, PTL DEF Spec

\* PRAGMA user_version never promises what is not there, but for the timestamps that a
\* row iteration left out; domain search misses no page unless the backfill of SQLite
\* left it out; and the statements of two
\* upgrades of PostgreSQL never interleave.
THEOREM UpgradeCorrect == Spec => []Inv
<1>1. IInv => VersionHonest
  BY DEF IInv, DatabaseFacts, Promised, NoTriggers, VersionHonest
<1>2. IInv => DomainFilled
  BY SMTT(40) DEF IInv, TypeOK, Facts, UpFacts, FillFacts, Filling, Promised, Current, DomainFilled,
    Up, At
<1>3. IInv => OneUpgradeAtATime
  BY DEF IInv, Facts, PgFacts, AfterSchema, Upgrading, OneUpgradeAtATime
<1>4. IInv => Inv
  BY <1>1, <1>2, <1>3 DEF IInv, Inv
<1> QED
  BY <1>4, Invariance, PTL

\* A process that serves has every table and column its statements name, when
\* a first start of SQLite is left to finish.
THEOREM ServesComplete ==
  ASSUME CutSchema = FALSE
  PROVE  Spec => []UpMeansComplete
<1>1. IInv => UpMeansComplete
  BY CutSchema = FALSE, SMTT(40) DEF IInv, Facts, UpFacts, StartFacts, Basic, Opened, Promised,
    NoTriggers, Current, UpMeansComplete, Up, At, Required, Tables, Columns
<1> QED
  BY <1>1, Invariance, PTL

\* A page that a running process has just archived stays pending for its finalize,
\* however many processes upgrade the database meanwhile (postgres.go
\* ensurePostgresMigrations fills snapshot_state only where there is none).
THEOREM PendingKept == Spec => PendingSurvives
<1>1. ASSUME NEW p \in Proc, SqliteStep(p)
      PROVE  pending' = pending
  BY <1>1, Zenon DEF SqliteStep, OpenSqlite, CheckTables, RunScript, StampNew, ReadVersion,
    SetVersion, CheckColumn, AddDomain, SelectDomain, FillDomain, AddState, NormalizeTimestamps,
    AddQuarantined, AddReason, CreateShares, CreateShareLinks, CreateFavorites, DropTriggers,
    DropFTS, Migrated, Add, Fails, GiveUp, KeepRows, dbVars
<1>2. ASSUME NEW p \in Proc, PgStep(p)
      PROVE  pending' = pending
  BY <1>2, Zenon DEF PgStep, Connect, LookupDatabase, CreateDatabase, Lock, Extension, PgSchema,
    DropUnique, PgAddDomain, PgFillDomain, PgAddState, PgReady, PgNotNull, PgAddQuarantined,
    PgAddReason, PgShares, PgFavorites, PgSearch, Unlock, Add, Fails, GiveUp, KeepRows, dbVars
<1>3. ASSUME NEW p \in Proc, Stop(p)
      PROVE  pending' = pending
  BY <1>3 DEF Stop, GiveUp, dbVars
<1>4. ASSUME NEW p \in Proc, IterationCut(p)
      PROVE  pending' = pending
  BY <1>4 DEF IterationCut
<1>5. ASSUME NEW p \in Proc, NEW g \in Page, CreatePage(p, g)
      PROVE  pending \subseteq pending'
  BY <1>5 DEF CreatePage
<1>6. [Next]_vars => pending \subseteq pending'
  BY <1>1, <1>2, <1>3, <1>4, <1>5 DEF Next, Step, vars, dbVars
<1> QED
  BY <1>6, PTL DEF Spec, PendingSurvives
=============================================================================
