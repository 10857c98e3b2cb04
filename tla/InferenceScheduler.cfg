SPECIFICATION Spec
CONSTANTS
  Callers = {c1, c2, c3}
  Models = {qwen}
  Configured = {qwen}
  Slots = 2
  Places = 1
  Threshold = 2
  Probes = 1
  PipeCap = 1
  NoModel = NoModel
SYMMETRY CallerSymmetry
INVARIANTS TypeOK NothingLeaks
PROPERTIES CloseHolds OnlyFailuresTrip
