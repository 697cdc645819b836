CONSTANTS
  None = None
  d1 = d1  d2 = d2  na = na nb = nb nv = nv nw = nw nx = nx ny = ny nz = nz
  i1 = i1 i2 = i2 u1 = u1 u2 = u2
  p1 = p1 p2 = p2 p3 = p3 p4 = p4 p5 = p5 p6 = p6
  Database = {d1}
  InitialName <- OneName
  Name = {na, nx}
  Instance = {i1, i2}
  User = {u1, u2}
  Admin = {u2}
  Request = {p1, p2, p3, p4, p5}
  Op <- NamesOp
  By <- NamesBy
  NewName <- NamesNm
  Target = {d1, p3}
  Destroyable = {}
  Faults = {"storage", "answer", "postgres", "crash"}
SPECIFICATION Spec
INVARIANT NoSharedObject 
CHECK_DEADLOCK FALSE
