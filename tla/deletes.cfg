CONSTANTS
  None = None
  db = db  core = core  minio = minio  pgadmin = pgadmin
  minioStorage = minioStorage  filesystem = filesystem
  p1 = p1 p2 = p2 p3 = p3 p4 = p4 p5 = p5 p6 = p6
  Original = Original
  Inspector = Inspector
  Stack = {db, core}
  Variant = {minioStorage, filesystem}
  Requires <- StackRequires
  Companion <- StackCompanion
  Default <- StackDefault
  Erases <- StackErases
  Preset <- DbCore
  Request = {p1, p2, p3, p4}
  Op <- DeletesOp
  On <- DeletesOn
  With <- DeletesWith
  NewTTL <- Same
  InitialTTL = 0
  MaxTime = 1
  MaxActive = 3
  MaxFaults = 1
  Faults = {"destroy", "volume", "forget", "crash"}
SPECIFICATION Spec
INVARIANTS NoOrphans DestroyInv
CHECK_DEADLOCK FALSE
