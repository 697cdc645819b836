\* A database, its minio, and six requests, two at a time.
SPECIFICATION Spec
CONSTANTS
  p1 = p1
  p2 = p2
  p3 = p3
  p4 = p4
  p5 = p5
  p6 = p6
  Param = {"DATABASE_ID", "DATABASE_NAME"}
  Value = {1, 2}
  Empty = 0
  Preset <- DbMinio
  Request = {p1, p2, p3, p4, p5, p6}
  Op <- Ops
  On <- Targets
  With <- Given
  MaxActive = 2
  MaxFaults = 1
INVARIANTS
  TypeOK
  ConsumedFresh
  ReleasedIsStored
PROPERTIES
  SeedsAgree
CHECK_DEADLOCK FALSE
