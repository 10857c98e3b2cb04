SPECIFICATION Spec
CONSTANTS
  Requests = {r1, r2}
  Uploads = {u1, u2}
  Old = Old
  None = None
INVARIANTS TypeOK OneGeneration 
SYMMETRY Interchangeable
VIEW Seen
