SPECIFICATION FairSpec
CONSTANTS
  N = 2
  TopK = 2
  Points = 2
  None = None
CHECK_DEADLOCK FALSE
INVARIANTS MeasuredAlone  ObjectiveKept
PROPERTY TuneEnds
