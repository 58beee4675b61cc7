CONSTANTS
    Null = Null
    NoBucket = NoBucket
    NarrowMax = 3
    TableOf <- MCTableOf
    Tables <- MCTables
    Registries <- MCRegistries
    Predicates <- MCPredicates
    Indexes <- MCIndexes
    Contents <- MCContents
    MaxSize = 2
SPECIFICATION Spec
INVARIANT PushdownKeepsAnswer
CHECK_DEADLOCK FALSE
