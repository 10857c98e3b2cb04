SPECIFICATION MCSpec
CONSTANTS
  None = None
  MaxClock = 2
  Requests = {r1, r2, r3}
  Capacity = 2
  Refill = 1
  Cost = 2
  Expiry = 2
  Sessions = {s1, s2}
  Limit = 2
  Usages = {1, 2}
  MaxDay = 2
  MaxTurns = 4
  Sends = {s1, s2}
  Registers = {j1, j2}
  Cooldown = 1
  Validity = 2
  Builders = {b1, b2}
  Servers = 2
  Offers <- TwoOffers
  Allowed <- OneAllowed
  LocalTools = {ask}
  Interval = 1
  Spans = {s1, s2}
  ToolSpans = {s2}
  Root = t0
  MaxNow = 1
  Writers = {w1, w2}
  Lines = 2
  QueueSize = 2
  BufSize = 2
  Size = 3
  Ids <- ShuffledIds
  Weights <- SomeWeights
  MaxPicks = 6
  Calls = {c1, c2}
  Labels = {"", "A", "a", "B", "C"}
  Args <- GivenArgs
  Failures <- TwoFailures
  MaxOptions = 2
  MaxWarnings = 1
  read = read
  write = write
  exec = exec
  ask = ask
INVARIANT LocalQuotaHolds
\* Services come to rest.
CHECK_DEADLOCK FALSE
