SPECIFICATION Spec
CONSTANTS
    GridRows = 3
    GridCols = 3
    LastYear = 1906
    LastSerial = 2000
    CellLines <- MCLines
    Keys <- MCKeys
    CriteriaCells = 2
    Patterns <- MCPatterns
    Texts <- MCTexts
    Blocks <- MCBlocks
    SortOrders <- MCOrders
    Delimiters <- MCDelimiters
    Serials <- MCSerials
    MonthSteps <- MCMonthSteps
    DaySteps <- MCDaySteps
    Holidays <- MCHolidays
    Precedes <- MCPrecedes
    Outcomes <- MCOutcomes
    Tables <- MCTables
    Instructions <- MCInstructions
    Thresholds <- MCThresholds
    Corpus <- MCCorpus
    Results <- MCResults
    Workbooks <- MCWorkbooks
    Edits <- MCEdits
    Repairs <- MCRepairs
    Steps <- MCSteps
    Checks <- MCChecks
    GroupBudget = 2
    DepthLimit = 2
    DivergenceBudget = 2
    Files <- MCFiles
    Changes <- MCChanges
    BuiltinCodes <- MCBuiltinCodes
    Colours = {"red"}
    Unreadable = {9}
    Logs <- MCSittings
    Modes = {"structural", "full"}
    Moves <- MCMoves
    LogRows = 14
    LogCols = 4
    ShapeSeconds = 1
    MinSupport = 2
    MaxLength = 3
    GapTolerance = 1
    MinLength = 2
    MinSaved = 10
    Nights <- MCNights
    MaxNights = 2
    Callers = {c1, c2, c3}
    Capacity = 4
    Refill = 1
    Cost = 2
    MaxKeys = 2
    MaxRequests = 6
    MaxTick = 3
    Readings = {0, 1, 2, 3}
    LastRandom = 1
    SessionIdle = 1
    SessionGap = 1
    MaxEvents = 3
INVARIANTS
    LimitsHold
    StampsAgree
    HabitsAreSeen
    AnswersStay
    RoutinesRepeat
    FilesRoundTrip
    CorrectionsTeach
    GradesMean
    VariantsFollow
    ReleasesRatchet
    PlansFit
    LookupsFind
    ArraysAgree
    CalendarAgrees
CHECK_DEADLOCK FALSE
