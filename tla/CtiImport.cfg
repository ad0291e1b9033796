SPECIFICATION Spec
CONSTANTS
  n1 = n1
  Dates <- OneDay
  Casts = {c1}
  Names = {n1}
  Files = {f1, f2}
  DateOf <- SameDay
  Rows <- OneRow
  Errors <- NoErrors
  Named <- NoCast
  Batches = {b1, b2}
  Requests = {p1, p2}
  Choices = {c1, Skipped}
  Skipped = Skipped
  None = None
SYMMETRY Symmetry
INVARIANTS TypeOK StoredIsLinked
PROPERTIES UncompletedOnlyByStale BulkSparesKnown LedgerSpec
