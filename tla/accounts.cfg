CONSTANTS
  None = None
  u1 = u1  u2 = u2
  g0 = g0  g1 = g1
  k1 = k1  k2 = k2
  a1 = a1  a2 = a2  a3 = a3
  r1 = r1  r2 = r2  r3 = r3
  Account = {u1, u2}
  Request = {r1, r2, r3}
  Group = {g0, g1}
  Administrators = g0
  Cluster = {k1, k2}
  Address = {a1, a2, a3}
  HomeOf <- Homes
  Legacy = {u2}
  Members <- Joined
  LinkOf <- Linked
  Clusters = {k1}
  SignedIn = {u2}
  MaxActive = 2
  MaxFaults = 1
SYMMETRY Alike
SPECIFICATION Spec
INVARIANTS TypeOK ResetOnce OneTime SignedOut
PROPERTIES ColumnsAreOwn MembershipsAreGranted LinksAreMade
CHECK_DEADLOCK FALSE
