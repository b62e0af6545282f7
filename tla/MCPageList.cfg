SPECIFICATION ListFairSpec
CONSTANTS
  PageId = {1, 2, 3}
  HasKeyword = {1, 2}
  InRange = {2, 3}
  InitRows <- MCInitRows
  PageSize = 1
  MaxChanges = 2
  MaxInputs = 2
  MaxFaults = 1
\* a tab at rest, its inputs used up, has nothing left to do
CHECK_DEADLOCK FALSE
INVARIANTS
  ListInv
  ShownMatches
  PagesTile
PROPERTIES
  Settles
