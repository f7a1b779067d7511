\* A page past the end of the file is fetched, as TableHeap does when the first
\* page of a table is full.
CONSTANTS
  Capacity = 1
  MaxPages = 3
  Data = {zero, a}
  Zero = zero
  Absent = absent
  Clients = {c1}
  Deletes = FALSE
  Probes = TRUE
  IOErrors = FALSE
SPECIFICATION Spec
PROPERTY LoadedFromDisk
