CONSTANTS
    Null = Null
    Bad = Bad
    Columns <- MCColumns
    PlanSet <- MCPlanSet
    Contents <- MCContents
    MaxLeft = 2
    MaxRight = 3
    MaxOut = 10
    MaxPasses = 5
SPECIFICATION MCSpec
INVARIANTS
    JoinIsCorrect
    AnswerIsPlan
    NothingLeftOpen
    MergeIsUpdate
PROPERTY JoinEnds
CHECK_DEADLOCK FALSE
