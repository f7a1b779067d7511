\* Every call and every failure. The contents do not matter to what is checked.
CONSTANTS
  Capacity = 2
  MaxPages = 3
  Data = {zero}
  Zero = zero
  Absent = absent
  Clients = {c1, c2}
  Deletes = TRUE
  Probes = TRUE
  IOErrors = TRUE
SPECIFICATION Spec
INVARIANT TableMatchesFrames
INVARIANT UnusedFramesAreFree
