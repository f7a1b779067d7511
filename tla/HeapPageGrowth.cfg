\* One tuple may be replaced by a larger one.
CONSTANTS
  PageSize = 16
  Tuples <- MCTuples
  MaxSlots = 4
  MaxGrows = 1
SPECIFICATION Spec
INVARIANT FreeSpaceIsTheGap
CHECK_DEADLOCK FALSE
