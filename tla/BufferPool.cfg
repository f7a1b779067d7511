\* Two frames for three pages, so that pages compete for frames, and two clients.
CONSTANTS
  Capacity = 2
  MaxPages = 3
  Data = {zero, a}
  Zero = zero
  Absent = absent
  Clients = {c1, c2}
  Deletes = FALSE
  Probes = FALSE
  IOErrors = TRUE
SPECIFICATION Spec
INVARIANT TypeOK
INVARIANT OnlyUnpinnedAreEvictable
INVARIANT PinsCountHolders
INVARIANT HeldPagesStay
INVARIANT CleanPagesAreInFile
PROPERTY FailuresCostOneFrame
PROPERTY ImplementsPageStore
