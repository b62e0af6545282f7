SPECIFICATION Spec
CONSTANTS
  Op = {o1, o2, o3, o4}
  Url = {u1}
  Content = {c1, c2}
  Linked = {c1}
  Null = Null
  Kinds = {"update", "delete", "share"}
  Seeded = {o1}
  Retention = 2
  MaxClock = 3
  MaxFaults = 1
  MaxCrashes = 1
SYMMETRY Symmetry
\* every request is used at most once, so a behaviour ends
CHECK_DEADLOCK FALSE
INVARIANTS
  NoLiveQueued
  ReadyHasFile
  SnapshotConsistent
  SharedFileKept
