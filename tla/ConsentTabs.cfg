SPECIFICATION Spec
CONSTANTS
    t1 = t1
    t2 = t2
    Tabs = {t1, t2}
    MaxChoices = 2
    MaxReloads = 2
SYMMETRY TabSymmetry
INVARIANTS
    OnlyChosenModes
    RowsAgree
    TabsFollowStored
PROPERTIES
    GapsAreExplained
CHECK_DEADLOCK FALSE
