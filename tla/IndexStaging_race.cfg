SPECIFICATION SafeSpec
CONSTANTS
  Versions = {v1}
  Chunks = {k1, k2}
  ScopeShapes = {s1, s2}
  NoVersion = NoVersion
  NoOwner = NoOwner
  Publishers = {p1, p2}
  Sweepers = {c1, c2}
  BatchSize = 1
  SweepBatch = 1
  PublishLease = 1
  CleanupLease = 2
  Grace = 2
  PublishStall = 1
  SweepStall = 1
  FrozenStamps = {0}
  MaxLate = 1
  MaxClock = 5
  LateClock = 4
  LastPublish = 3
  LastFault = 3
SYMMETRY Symmetry
INVARIANTS PublishedComplete OrphansTracked CleanupExcludesWriters AcknowledgedAsRequested
PROPERTIES PublishesWhole
CHECK_DEADLOCK FALSE
