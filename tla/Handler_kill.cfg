SPECIFICATION FairSpec
CONSTANTS
  None = None
  Absent = Absent
  Conns = {c1, c2}
  Kinds = {"select", "killConn"}
  Tables = {}
  MaxPid = 2
  MaxRows = 0
  RowsBatch = 1
  ReadTimeout = TRUE
  SocketCheck = TRUE
  SocketMayFail = TRUE
  RowsMayFail = FALSE
  BuilderMayFail = TRUE
PROPERTY KilledIsClosed
CHECK_DEADLOCK FALSE
