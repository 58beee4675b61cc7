CONSTANTS
    Null = Null
    Bad = Bad
    Columns <- MCColumns
    Views <- MCViews
    Statements <- MCStatements
    Databases <- MCDatabases
    Indexes <- MCIndexes
    Parallelisms = {1, 2}
    MaxPasses = 5
SPECIFICATION Spec
INVARIANTS AnswerKept Accepted Settles
CHECK_DEADLOCK FALSE
