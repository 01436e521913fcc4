SPECIFICATION Spec
CONSTANTS
    Capacity = 1
    BatchSize = 2
    MaxEvents = 2
    MaxReloads = 1
    MaxNetworkFaults = 1
    MaxStorageFaults = 1
    MaxConsentChanges = 1
INVARIANTS
    NothingVanishes
    QueueIsStored
    ReleasedIsStored
PROPERTIES
    StoreKeepsUnanswered
    Delivers
CHECK_DEADLOCK FALSE
