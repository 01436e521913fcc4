SPECIFICATION Spec
CONSTANTS
    Rows = 2
    Cols = 2
    Empty = Empty
    Circ = Circ
    Spill = Spill
    Bad = Bad
    None = None
    Formula <- AllKinds
    Dynamic <- AllKindsDynamic
    Literal = {1, 2}
    Value <- MCValue
    Reads <- MCReads
    Sees <- MCSees
    Result <- MCResult
    MaxSpillPasses = 4
    MaxDynamicPasses = 3
    MaxEdits = 3
INVARIANTS
    FormulasHold
    BlocksAreWhole
    FullAgreesWhenSettled
