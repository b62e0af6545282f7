SPECIFICATION FairSpec
CONSTANTS
  Path = {p1, p2}
  Junk = Junk
  Retention = 1
  MaxClock = 3
  MaxAdds = 3
  MaxFaults = 1
  MaxTorn = 1
  MaxCrashes = 1
\* time and additions are bounded, so a behaviour ends
CHECK_DEADLOCK FALSE
INVARIANTS
  Inv
  SharedKept
PROPERTIES
  ImplementsRetention
  Purged
