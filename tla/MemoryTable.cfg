SPECIFICATION Spec
CONSTANTS
  NumPartitions = 2
  MaxValue = 1
  MaxRows = 3
  MaxStmts = 2
  Kinds = {"insert", "replace", "delete", "update", "insertSelect"}
INVARIANTS StatementResult OnlySelectedRows
CHECK_DEADLOCK FALSE
