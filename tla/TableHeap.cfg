\* Two tables and page 65535 compete for two frames. A page has room for two
\* rows of one word.
CONSTANTS
  PageSize = 9
  Capacity = 2
  MaxPages = 3
  Overflow = 2
  MaxTables = 2
  MaxRows = 3
  Tuples <- MCTuples
  Grows = FALSE
SPECIFICATION FairSpec
INVARIANT TypeOK
INVARIANT StoredRowsAreOnDisk
INVARIANT FirstPagesHaveNoOtherRows
INVARIANT ReadsReturnStored
INVARIANT IdlePoolIsClean
INVARIANT FetchFindsAFrame
PROPERTY RowCallsReturn
PROPERTY ImplementsHeapTable
