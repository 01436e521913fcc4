SPECIFICATION Spec
CONSTANTS
    t1 = t1
    Tabs = {t1}
    MaxReregistrations = 3
    MaxEvents = 1
    MaxRebuilds = 1
    MaxRegisterFaults = 1
    MaxReloads = 0
INVARIANTS
    BacklogSurvives
CHECK_DEADLOCK FALSE
