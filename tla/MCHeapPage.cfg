\* Sixteen words: room for three or four slots, with every tuple size on top of
\* every other one.
CONSTANTS
  PageSize = 16
  Tuples <- MCTuples
  MaxSlots = 4
  MaxGrows = 1
SPECIFICATION Spec
INVARIANT TypeOK
INVARIANT GapBeforeGrowth
INVARIANT DisjointBeforeGrowth
INVARIANT ReadsBackBeforeGrowth
PROPERTY GrowthDamagesTailsOnly
CHECK_DEADLOCK FALSE
