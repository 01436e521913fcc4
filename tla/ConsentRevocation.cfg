SPECIFICATION Spec
CONSTANTS
    t1 = t1
    Tabs = {t1}
    MaxChoices = 2
    MaxReloads = 1
INVARIANTS
    RevocationSticks
CHECK_DEADLOCK FALSE
