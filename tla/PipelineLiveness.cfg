SPECIFICATION FairSpec
CONSTANTS
    Capacity = 2
    BatchSize = 1
    MaxEvents = 2
    MaxReloads = 1
    MaxNetworkFaults = 1
    MaxStorageFaults = 0
    MaxConsentChanges = 0
PROPERTIES
    BacklogIsDelivered
    QueueDrains
CHECK_DEADLOCK FALSE
