SPECIFICATION Spec
CONSTANTS
  k1 = k1
  k2 = k2
  k3 = k3
  Thread = {t1, t2, t3}
  Cleaner = Cleaner
  Key = {k1, k2, k3}
  SizeOf <- Sizes
  MaxBytes = 3
  TTL = 2
  Null = Null
  MaxClock = 3
  MaxStores = 4
SYMMETRY Symmetry
INVARIANTS
  Inv
  CounterExact
  OnlyExpiredTaken
