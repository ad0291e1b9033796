CONSTANTS
  g1 = g1  g2 = g2
  Files = {f1}
  Folders = {g1}
  Names = {n1}
  Contents = {c1}
  Dated = {c1}
  BatchIds = {b1}
  Pollers = {p1}
  Clis = {x1}
  Operators = {}
  Family <- MCFamilyCti
  AutoExecution = TRUE
  AutoFolders = {g1}
  MaxEdits = 1
  MaxRetry = 1
  Env = {"edit"}
  None = None
SPECIFICATION FairSpec
PROPERTIES DetectedIsHandled ChangeIsDetected LockIsReleased
