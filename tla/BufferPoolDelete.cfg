\* deletePage is called: the frame it frees stays with the replacer.
CONSTANTS
  Capacity = 2
  MaxPages = 3
  Data = {zero}
  Zero = zero
  Absent = absent
  Clients = {c1, c2}
  Deletes = TRUE
  Probes = FALSE
  IOErrors = FALSE
SPECIFICATION Spec
INVARIANT HeldPagesStay
