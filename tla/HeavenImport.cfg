SPECIFICATION Spec
CONSTANTS
  Contents = {c1}
  Names = {n1}
  Casts = {k1, k2}
  Days <- OneDay
  Sheet <- FullSheet
  Town <- TownAgrees
  MaxBatches = 2
  Requests = {p1, p2}
  None = None
SYMMETRY Symmetry
INVARIANTS TypeOK OneCompletedPerContent CompletedHasNoGap
PROPERTIES CompletedNotCancelled LedgerSpec
