SPECIFICATION Spec
CONSTANTS
  Op = {o1, o2, o3}
  Url = {u1}
  Content = {c1, c2}
  Linked = {c1}
  Null = Null
  Kinds = {"create", "update"}
  Seeded = {}
  Retention = 2
  MaxClock = 0
  MaxFaults = 0
  MaxCrashes = 0
SYMMETRY Symmetry
\* every request is used at most once, so a behaviour ends
CHECK_DEADLOCK FALSE
INVARIANTS
  SnapshotConsistent
