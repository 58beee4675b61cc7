CONSTANTS
    P1 = P1
    P2 = P2
    A = A
    B = B
    Null = Null
    NoFile = NoFile
    NoBucket = NoBucket
    Partitions = {P1, P2}
    Tables <- MCTables
    IndexBatchSize = 2
    Threads = 2
    MaxCreates = 2
    MaxCrashes = 1
    MaxFaults = 1
SPECIFICATION Spec
INVARIANTS OfferedAnswers DeletedLeavesNothing
PROPERTY CallsReturn
CHECK_DEADLOCK FALSE
