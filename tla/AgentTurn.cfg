SPECIFICATION FairSpec
CONSTANTS
  Turns = {t1, t2}
  Tools = {read, ask, remote}
  Idempotent = {read}
  Asking = {ask}
  Remote = {remote}
  MaxSteps = 5
  MaxTokens = 2
  Usages = {1}
  Fallbacks = 1
  MaxAttempts = 2
  Threshold = 1
  Parallel = 2
  FailureThreshold = 1
INVARIANTS TypeOK WithinBudget
PROPERTIES NothingAfterTheEnd 
