SPECIFICATION Spec
CONSTANTS
  Op = {o1, o2, o3}
  Url = {u1, u2}
  FrameUrl = {u2}
  Content = {c1, c2}
  Large = {c2}
  Null = Null
  Seeded = {o1}
  Workers = 1
  Retries = 1
  MaxFaults = 1
  MaxCrashes = 1
  MaxChanges = 1
  MaxLate = 1
  MaxScans = 1
SYMMETRY Symmetry
\* every call is made at most once, so a behaviour ends
CHECK_DEADLOCK FALSE
INVARIANTS
  Inv
  AnswerFaithful
  ScanHeals
  OneVersion
  NobodyStuck
