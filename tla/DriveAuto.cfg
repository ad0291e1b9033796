CONSTANTS
  g1 = g1  g2 = g2
  Files = {f1}
  Folders = {g1}
  Names = {n1}
  Contents = {c1, c2}
  Dated = {c1, c2}
  BatchIds = {b1, b2}
  Pollers = {p1}
  Clis = {x1}
  Operators = {}
  Family <- MCFamilyHeaven
  AutoExecution = TRUE
  AutoFolders = {g1}
  MaxEdits = 1
  MaxRetry = 1
  Env = {"edit", "reopen", "crash"}
  None = None
SPECIFICATION Spec
SYMMETRY MCSymmetry
INVARIANTS ImportedWasConfirmed OnePreviewPerContent
