SPECIFICATION FairSpec
CONSTANTS
    t1 = t1
    Tabs = {t1}
    MaxReregistrations = 2
    MaxEvents = 2
    MaxRebuilds = 3
    MaxRegisterFaults = 1
    MaxReloads = 1
INVARIANTS
    DeadTokensDiscardNothing
    OnlyPlaceholdersAreRefused
PROPERTIES
    QueueEmpties
CHECK_DEADLOCK FALSE
