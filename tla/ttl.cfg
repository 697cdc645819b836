CONSTANTS
  None = None
  db = db  core = core  minio = minio  pgadmin = pgadmin
  minioStorage = minioStorage  filesystem = filesystem
  p1 = p1 p2 = p2 p3 = p3 p4 = p4 p5 = p5 p6 = p6
  Original = Original
  Inspector = Inspector
  Stack = {db, core, minio}
  Variant = {minioStorage, filesystem}
  Requires <- StackRequires
  Companion <- StackCompanion
  Default <- StackDefault
  Erases <- StackErases
  Preset <- AllThree
  Request = {p1, p2, p3}
  Op <- TtlOp
  On <- TtlOn
  With <- TtlWith
  NewTTL <- Same
  InitialTTL = 1
  MaxTime = 2
  MaxActive = 2
  MaxFaults = 1
  Faults = {"sync", "crash"}
SPECIFICATION FairSpec
INVARIANTS RequiredPresent
PROPERTY ExpiredGoes
CHECK_DEADLOCK FALSE
