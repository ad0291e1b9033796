CONSTANTS
  n1 = n1  n2 = n2  c1 = c1
  Casts = {c1}
  Names = {n1, n2}
  Rows <- MCRows
  Named <- MCNamed
  IdNames <- MCIdNames
  Batches = {b1, b2}
  Requests = {p1, p2}
  Skipped = Skipped
  None = None
SPECIFICATION Spec
SYMMETRY MCSymmetry
INVARIANTS TypeOK StoredWasConfirmed StoredIsLinked
PROPERTIES UncompletedOnlyByStale
CHECK_DEADLOCK FALSE
