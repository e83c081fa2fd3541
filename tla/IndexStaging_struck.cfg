SPECIFICATION Spec
CONSTANTS
  Versions = {v1}
  Chunks = {k1}
  ScopeShapes = {s1}
  NoVersion = NoVersion
  NoOwner = NoOwner
  Publishers = {p1, p2}
  Sweepers = {c1}
  BatchSize = 1
  SweepBatch = 1
  PublishLease = 1
  CleanupLease = 2
  Grace = 2
  PublishStall = 1
  SweepStall = 1
  FrozenStamps = {}
  MaxLate = 1
  MaxClock = 2
INVARIANTS PublishedWhole
CHECK_DEADLOCK FALSE
