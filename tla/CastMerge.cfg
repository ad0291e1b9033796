SPECIFICATION Spec
CONSTANTS
  Casts <- ThreeCasts
  Moved = {k1}
  Unmoved = {}
  Values = {v1, v2}
  Requests = {p1, p2}
  None = None
SYMMETRY Symmetry
INVARIANTS TypeOK RedirectsAreDirect NoWaitingCircle
PROPERTIES MergeKeepsValues MergedAsPreviewed LedgerSpec
