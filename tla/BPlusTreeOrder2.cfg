\* The smallest order that the comments allow.
CONSTANTS
  Keys = {1, 2, 3}
  Orders = {2}
  MaxKeys = 4
SPECIFICATION Spec
INVARIANT NeverAborts
