CONSTANTS
  g1 = g1  g2 = g2
  Files = {f1, f2}
  Folders = {g1}
  Names = {n1}
  Contents = {c1}
  Dated = {c1}
  BatchIds = {b1}
  Pollers = {p1}
  Clis = {x1}
  Operators = {}
  Family <- MCFamilyHeaven
  AutoExecution = FALSE
  AutoFolders = {g1}
  MaxEdits = 0
  MaxRetry = 1
  Env = {"mapping"}
  None = None
SPECIFICATION Spec
SYMMETRY MCSymmetry
INVARIANTS NoStaleWrite
PROPERTIES LifecycleSpec
