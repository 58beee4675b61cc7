SPECIFICATION Spec
CONSTANTS
  None = None
  Absent = Absent
  Conns = {c1, c2}
  Kinds = {"select", "dml", "lock", "unlock", "index", "indexAsync", "killQuery", "killConn"}
  Tables = {t1}
  MaxPid = 2
  MaxRows = 2
  RowsBatch = 2
  ReadTimeout = FALSE
  SocketCheck = FALSE
  SocketMayFail = FALSE
  RowsMayFail = TRUE
  BuilderMayFail = FALSE
INVARIANTS NothingLeftBehind SuccessIsComplete
PROPERTY IndexOutlivesConnection
SYMMETRY Symmetry
CHECK_DEADLOCK FALSE
