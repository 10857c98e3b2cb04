SPECIFICATION Spec
CONSTANTS
  Turns = {t1, t2, t3}
  Tools = {ask}
  Idempotent = {}
  Asking = {ask}
  Remote = {}
  MaxSteps = 3
  MaxTokens = 2
  Usages = {0}
  Fallbacks = 0
  MaxAttempts = 2
  Threshold = 1
  Parallel = 1
  FailureThreshold = 2
INVARIANTS RefusedForFailures
