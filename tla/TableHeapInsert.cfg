\* One table and room for both of its pages in the pool: nothing is evicted.
CONSTANTS
  PageSize = 9
  Capacity = 2
  MaxPages = 2
  Overflow = 1
  MaxTables = 1
  MaxRows = 5
  Tuples <- MCTuples
  Grows = FALSE
SPECIFICATION FairSpec
PROPERTY InsertReturns
