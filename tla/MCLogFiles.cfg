SPECIFICATION FairSpec
CONSTANTS
  MaxLogSize = 2
  RetentionDays = 1
  Null = Null
  MaxDay = 3
  MaxSeq = 4
  MaxLines = 6
  MaxFaults = 1
  MaxRestarts = 1
\* days and lines are bounded, so a behaviour ends
CHECK_DEADLOCK FALSE
INVARIANTS
  Inv
  CounterCovers
PROPERTIES
  Rotates
