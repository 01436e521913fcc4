SPECIFICATION Spec
CONSTANTS
    t1 = t1
    t2 = t2
    Tabs = {t1, t2}
    MaxReregistrations = 1
    MaxEvents = 1
    MaxRebuilds = 1
    MaxRegisterFaults = 1
    MaxReloads = 1
SYMMETRY TabSymmetry
INVARIANTS
    AccountsAreBounded
    DropsAreBounded
CHECK_DEADLOCK FALSE
