SPECIFICATION FairSpec

CONSTANTS
    Units = {u1}
    Consumers = {daemon, cli}
    Operators = {}
    NoVersion = NoVersion
    MaxCards = 2
    MaxPublications = 3
    MaxDecisions = 0
    MaxFaults = 0

PROPERTIES
    EventuallyConsumed

CHECK_DEADLOCK FALSE
