SPECIFICATION Spec
CONSTANTS
  Names <- MCNames
  Lower <- MCLower
  MaxRows = 2
  MaxAlters = 2
INVARIANTS SchemaIntact RowsMatchSchema
PROPERTY ColumnsKeepPlaces
CHECK_DEADLOCK FALSE
