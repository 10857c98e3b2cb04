SPECIFICATION Spec
CONSTANTS
  Requests = {r1, r2}
  Old = Old
  None = None
  ForceClarify = FALSE
  CompressAfter = 2
  KeepAtLeast = 1
  KeepAtMost = 3
INVARIANTS TypeOK  
PROPERTY LiveHelperStays
SYMMETRY Interchangeable
