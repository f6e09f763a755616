CONSTANTS
  c1 = c1
  c2 = c2
  k1 = k1
  k2 = k2
  Collections = {c1, c2}
  Keys = {k1, k2}
  CrashKinds = {"power"}
  Splits = FALSE
  LateCreates = FALSE
  MaxPage = 4
  MaxLog = 6
  MaxCommits = 4
  MaxCrashes = 2
SPECIFICATION Spec
SYMMETRY MCSymmetry
CHECK_DEADLOCK FALSE
INVARIANTS TypeOK FrontierCovered FreshAllocations ClockAhead
PROPERTY ImplementsDurableStore
