CONSTANTS
  a1 = a1
  a2 = a2
  s1 = s1
  Addr = {a1, a2}
  Server = {s1}
  None = None
  Unspec = Unspec
  OfferAddr = {a1, a2}
  RetryMin = 1
  RetryMax = 2
  RenewalTimes = {1}
  MaxXid = 2
  MaxEvents = 1
SPECIFICATION FairTether
INVARIANTS TypeOK LeaseRequestedUnderXid RenewalArmedIffBound TunnelFollowsLease ArpServesTunnel
PROPERTIES AlwaysTetheredAgain
