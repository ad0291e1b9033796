SPECIFICATION Spec
CONSTANTS
  Stores = {s1, s2}
  Dates <- ThreeDays
  Ids = {m1, m2}
  Requests = {p1}
  Forms <- OpenPeriods
  Listed = {s1}
  None = None
INVARIANT OpenCastCanExit
