SPECIFICATION MCSpec
CONSTANTS
  None = None
  db1 = db1
  x = x
  a = a
  q1 = q1
  e1 = e1
  Creators = {c1}
  Droppers = {d1}
  Queriers = {q1, q2}
  Showers = {s1}
  Deleters = {e1, e2}
  Casts <- ThreeCasts
  Dbs = {db1, db2}
  Ids = {x, y}
  Exprs <- OneColumn
  Stored <- OneStored
  Lazy = {db1}
  MaxOps = 1
  SaveMayFail = TRUE
INVARIANTS NoDanglingOrder ReadyHasFiles RefCountCoversUse
PROPERTIES StatementsReturn
CHECK_DEADLOCK FALSE
