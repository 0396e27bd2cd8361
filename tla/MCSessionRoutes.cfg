CONSTANTS
  a1 = a1
  a2 = a2
  d1 = d1
  u1 = u1
  u2 = u2
  Ip = {a1}
  Dest = {d1}
  SubnetOf <- OneAddress
  Unit = {u1}
  Other = Other
  OthersNets = {d1}
  None = None
  Leases <- AnyLease
  MaxEvents = 1
  MayKill = FALSE
SPECIFICATION Spec
INVARIANTS RoutesAsBefore
