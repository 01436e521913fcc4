SPECIFICATION FairSpec
CONSTANTS
    Rows = 5
    Cols = 3
    MinConfidence = 80
    MaxCells = 6
    AllowOverwriting = FALSE
    Tasks <- MCTasks
    PlanSteps <- MCPlanSteps
    MaxSteps = 4
    MaxReplans = 1
    MaxPlanLength = 2
    MaxResumes = 1
INVARIANTS
    ErrorsNeverGrow
    FormulasStay
    RunIsOnRecord
PROPERTY RunEnds
CHECK_DEADLOCK FALSE
