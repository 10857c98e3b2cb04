SPECIFICATION FairSpec
CONSTANTS
  Callers = {c1, c2, c3, c4}
  MaxConcurrent = 1
  MaxQueueDepth = 2
  NoCaller = NoCaller
INVARIANTS TypeOK SlotAccounting WorkConserving CallersAccounted
PROPERTIES ImplementsSemaphore CallersReturn
