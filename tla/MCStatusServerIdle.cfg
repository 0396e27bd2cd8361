CONSTANTS
  Client = {c1, c2}
  Polite = {c2}
  MaxVersion = 0
  None = None
SPECIFICATION FairSpec
PROPERTIES RunReturns
