SPECIFICATION Spec
CONSTANTS
    SheetName = {"S1", "S2", "S3"}
    Opened <- TwoSheets
    Name = {"N"}
    Rows = 2
    Inputs <- TypedInputs
    MaxSheets = 3
    MaxActions = 2
INVARIANTS
    UndoBringsBack
    RedoBringsForward
PROPERTIES
    ReferencesFollow
CHECK_DEADLOCK FALSE
