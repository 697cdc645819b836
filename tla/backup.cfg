\* Three small objects, a large one, a single fetcher and two deploys.
SPECIFICATION Spec
CONSTANTS
  s1 = s1
  s2 = s2
  s3 = s3
  big = big
  d1 = d1
  d2 = d2
  Object = {s1, s2, s3, big}
  Large = {big}
  Workers = 1
  Backends = {"s3", "minio", "filesystem"}
  Deploy = {d1, d2}
  Hasty = {d1}
  Rewritten = {s1, big}
  MaxFaults = 1
  None = None
INVARIANTS
  TypeOK
  BackupIsWhole
  Bounded
  StagingRemoved
  MarkedIsWhole
  RestoredOnce
PROPERTIES
  BackupEnds
CHECK_DEADLOCK FALSE
