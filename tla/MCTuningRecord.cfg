SPECIFICATION Spec
CONSTANTS
  N = 2
  Keys = {k1, k2}
  k1 = k1
  k2 = k2
  Versions <- MCVersions
  Options = {o1, o2}
  o1 = o1
  o2 = o2
  MaxRuns = 3
  MaxChanges = 2
  None = None
CHECK_DEADLOCK FALSE
INVARIANTS RecordTrue 
