CONSTANTS
  g1 = g1  g2 = g2
  Files = {f1}
  Folders = {g1, g2}
  Names = {n1}
  Contents = {c1}
  Dated = {c1}
  BatchIds = {b1, b2}
  Pollers = {p1}
  Clis = {x1}
  Operators = {o1}
  Family <- MCFamilyMixed
  AutoExecution = FALSE
  AutoFolders = {g1, g2}
  MaxEdits = 1
  MaxRetry = 1
  Env = {"edit", "move"}
  None = None
SPECIFICATION Spec
SYMMETRY MCSymmetry
INVARIANTS TypeOK OnePreviewPerContent ReadyHasDigest
PROPERTIES ReviewNotAbandoned
