CONSTANTS
  save1 = save1  save2 = save2
  c1 = c1  c2 = c2
  u1 = u1  u2 = u2
  g1 = g1  g2 = g2
  Operation = {save1, save2}
  User = {u1, u2}
  Group = {g1, g2}
  Owner <- TheOwner
  GroupOf <- TheGroup
  Member <- TheMember
  Client = {c1}
  UserOf <- TheUserOf
  MaxActive = 2
  MaxFaults = 1
  MaxCrashes = 1
  MaxDrops = 2
  MaxExpired = 1
SPECIFICATION FairSpec
INVARIANTS TypeOK NothingUnrecorded
PROPERTIES OnlyOvertakenDropped FeedSpec CaughtUp
CHECK_DEADLOCK FALSE
