CONSTANTS
  a1 = a1
  a2 = a2
  d1 = d1
  u1 = u1
  u2 = u2
  Ip = {a1, a2}
  Dest = {d1}
  SubnetOf <- SameSubnet
  Unit = {u1, u2}
  Other = Other
  OthersNets = {d1}
  None = None
  Leases <- FourLeases
  MaxEvents = 1
  MayKill = TRUE
SPECIFICATION FairSpec
INVARIANTS NothingLeftBehind TeardownInOrder TunnelCarriesTraffic
PROPERTIES DaemonContract SignalEndsDaemon UnplugRestores
