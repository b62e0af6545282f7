SPECIFICATION FairSpec
CONSTANTS
  Thread = {t1, t2, t3, t4}
  Key = {k1, k2}
  Entry = {e1, e2, e3, e4}
  Null = Null
INVARIANTS
  MutualExclusion
  NoLeak
PROPERTIES
  ImplementsLock
  Served
