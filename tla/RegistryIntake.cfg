SPECIFICATION RegistrySpec

CONSTANTS
    Units = {u1, u2, u3}
    Second = u2
    Third = u3
    Consumers = {daemon}
    Operators = {op1}
    NoVersion = NoVersion
    MaxCards = 2
    MaxPublications = 3
    MaxDecisions = 3
    MaxFaults = 1

INVARIANTS
    ServedIsValidated
    CatalogAsDecided

PROPERTIES
    ConsumesInOrder
    RemovedStopsServing
    EventuallyConsumed

CHECK_DEADLOCK FALSE
