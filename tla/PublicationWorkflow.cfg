SPECIFICATION WorkflowSpec
CONSTANTS
  Contents = {a, b, big, empty}
  Empty = empty
  Oversized = {big}
  NoContent = NoContent
  NoVersion = NoVersion
  Workers = {w1, w2}
  Reverts = FALSE
  MaxEdits = 2
  MaxFaults = 3
  MaxIds = 4
  EditsTogether = 1
  FaultsTogether = 1
INVARIANTS AloneKeepsBaseline OneChain PublishedIsIndexed
PROPERTY AloneConverges
CHECK_DEADLOCK FALSE
