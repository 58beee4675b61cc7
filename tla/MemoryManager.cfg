SPECIFICATION Spec
CONSTANTS
  Iters <- Kinds
  Kind <- MCKind
  MaxMemory = 1
  MaxEntries = 2
INVARIANTS TrackedUntilDisposed LeftBehind MemoryBound
CHECK_DEADLOCK FALSE
CONSTRAINT MCThree
