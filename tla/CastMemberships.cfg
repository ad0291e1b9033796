SPECIFICATION Spec
CONSTANTS
  Stores = {s1}
  Dates <- TwoDays
  Ids = {m1, m2}
  Requests = {p1, p2}
  Forms <- EveryPeriod
  Listed = {s1}
  None = None
SYMMETRY Symmetry
INVARIANTS TypeOK OverlapOnlyAcrossLocks OneLeaveDate NothingOpenBeforeExit
