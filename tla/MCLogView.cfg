SPECIFICATION ViewFairSpec
CONSTANTS
  Limit = 2
  LineLengths = {2, 3}
  MaxSize = 5
  MaxSelects = 2
  MaxLost = 1
\* nothing to ask for when no file is selected and the log has stopped growing
CHECK_DEADLOCK FALSE
INVARIANTS
  ViewInv
PROPERTIES
  Progress
