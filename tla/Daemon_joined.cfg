CONSTANTS
  ResolveCalls = {r1, r2, r3}
  BackgroundCalls = {b1, b2, b3}
  Scopes = {s1}
  Concurrency = 2
  ResolveQueueDepth = 1
  BackgroundQueueDepth = 2
  Units = {u}
  Couriers = {d1, d2}
  NoOwner = NoOwner
  BatchSize = 2
  MaxPublications = 2
  MaxFaults = 2
  Contents = {a, b, c, d}
  Callers = {k1, k2}
  MaxWrites = 3
  MaxFailures = 2
  Requests = {q1, q2, q3, q4}
  Builds = {i1, i2}
  Cycle = Cycle
  Slots <- TwoResolveSlots
  QueueDepth <- OnePlace
  MaxCycles = 2
SPECIFICATION Spec
PROPERTY RefreshCoversCaller
CHECK_DEADLOCK FALSE
