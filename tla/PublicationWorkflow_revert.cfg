SPECIFICATION LiveSpec
CONSTANTS
  Contents = {a, b, empty}
  Empty = empty
  Oversized = {}
  NoContent = NoContent
  NoVersion = NoVersion
  Workers = {w1}
  Reverts = TRUE
  MaxEdits = 2
  MaxFaults = 1
  MaxIds = 4
PROPERTY Converges
CHECK_DEADLOCK FALSE
