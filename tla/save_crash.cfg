CONSTANTS
  None = None
  d1 = d1  d2 = d2  na = na nb = nb nv = nv nw = nw nx = nx ny = ny nz = nz
  i1 = i1 i2 = i2 u1 = u1 u2 = u2
  p1 = p1 p2 = p2 p3 = p3 p4 = p4 p5 = p5 p6 = p6
  Database = {d1, d2}
  InitialName <- TwoNames
  Name = {na, nb, nx}
  Instance = {i1, i2}
  User = {u1, u2}
  Admin = {u2}
  Request = {p1, p2, p3, p4}
  Op <- LocksOp
  By <- LocksBy
  NewName <- LocksNm
  Target = {d1, d2}
  Destroyable = {}
  Faults = {"storage", "answer", "postgres", "cancel", "crash"}
SPECIFICATION Spec
PROPERTY StoreSpec
CHECK_DEADLOCK FALSE
