CONSTANTS
  a1 = a1
  s1 = s1
  Addr = {a1}
  Server = {s1}
  None = None
  Unspec = Unspec
  OfferAddr <- AnyOffer
  RetryMin = 1
  RetryMax = 3
  RenewalTimes = {0, 2}
  MaxXid = 3
  MaxEvents = 1
SPECIFICATION Spec
PROPERTIES RefusalBacksOff
