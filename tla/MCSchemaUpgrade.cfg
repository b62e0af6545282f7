SPECIFICATION FairSpec
CONSTANTS
  Proc = {p1, p2}
  Page = {g1, g2}
  Origins = {"sqlite_new", "sqlite_0", "sqlite_0_domain", "sqlite_3", "sqlite_6",
             "postgres_none", "postgres_empty", "postgres_0", "postgres_domain"}
  Null = Null
  CutSchema = FALSE
  MaxStops = 2
\* two processes that are up with every page stored have nothing left to do
CHECK_DEADLOCK FALSE
INVARIANTS
  Inv
  UpMeansComplete
PROPERTIES
  PendingSurvives
  Healed
