CONSTANTS
  m1 = m1
  m2 = m2
  group = group
  gw = gw
  h1 = h1
  Mac = {m1, m2}
  Ip = {gw}
  Host = {h1}
  Unspec = Unspec
  None = None
  Gateway = gw
  Transfers <- TransfersOf
  EntryTtl = 1
  RetryInterval = 1
SPECIFICATION FairSpec
PROPERTIES TransferUnderstood GatewayFoundAgain
